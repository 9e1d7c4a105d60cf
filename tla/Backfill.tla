------------------------------- MODULE Backfill -------------------------------
(***************************************************************************)
(* The silver_orders table and its two writers: the silver stream          *)
(* (streaming/silver_clean.py), which appends, and the nightly backfill    *)
(* (batch/nightly_backfill.py and its Scala twin), which rereads one       *)
(* event date of bronze_orders and overwrites that date's partition.       *)
(*                                                                         *)
(* A row is one copy of an event that bronze holds: copies share the       *)
(* event_id and may differ in everything else.  Delta fixes the            *)
(* partitioning of a table when it is created and refuses a write that     *)
(* comes with another one; the stream writes no event_date column and no   *)
(* partitioning, the backfill both, and neither sets overwriteSchema.      *)
(*                                                                         *)
(* Modelled: rows of a date that arrive before, during and after an        *)
(* attempt, attempts that die at any point and are repeated, ties of       *)
(* ingest_time, null keys, both orders of creation.  Attempts follow each  *)
(* other (max_active_runs=1 and one try of a task at a time).  Left out:   *)
(* how the stream deduplicates (SilverClean), the columns of a row.        *)
(***************************************************************************)
EXTENDS Integers

CONSTANTS Rows,        \* rows that bronze_orders may come to hold
          EventOf,     \* event_id of a row; null is a value like any other
          DateOf,      \* to_date(event_time), NoOrderDate if it has none
          IngestTime,  \* ingest_time, 0 if it has none
          Clean,       \* rows the silver validators accept
          OrderDates, NoOrderDate

ASSUME BackfillAssumption == /\ DateOf \in [Rows -> OrderDates \cup {NoOrderDate}]
                             /\ NoOrderDate \notin OrderDates
                             /\ IngestTime \in [Rows -> Nat]
                             /\ Clean \subseteq Rows

VARIABLES
    bronze,    \* rows of bronze_orders
    layout,    \* partitioning of silver_orders: "none" (no table), "plain", "dated"
    silver,    \* rows of silver_orders
    job,       \* date an attempt of the backfill is at work on, or NoOrderDate
    read,      \* the rows it has read
    source,    \* history: rows of a date the last completed overwrite had read
    refused    \* history: writers that Delta has refused

table_vars == <<bronze, layout, silver, job, read, source, refused>>

EventsOf(rows) == {EventOf[r] : r \in rows}
Day(rows, d)   == {r \in rows : DateOf[r] = d}

TableTypeOK == /\ bronze \subseteq Rows /\ silver \subseteq bronze
               /\ layout \in {"none", "plain", "dated"}
               /\ job \in OrderDates \cup {NoOrderDate}
               /\ read \subseteq (IF job = NoOrderDate THEN {} ELSE Day(bronze, job))
               /\ source \in [OrderDates -> SUBSET Rows]
               /\ refused \subseteq {"stream", "backfill"}

TableInit == /\ bronze = {} /\ layout = "none" /\ silver = {}
             /\ job = NoOrderDate /\ read = {}
             /\ source = [d \in OrderDates |-> {}] /\ refused = {}

Arrive(r) == /\ r \notin bronze
             /\ bronze' = bronze \cup {r}
             /\ UNCHANGED <<layout, silver, job, read, source, refused>>

-----------------------------------------------------------------------------
(* The silver stream appends a clean row of an event it has not got yet    *)
(* (SilverClean!NoDuplicates); it may as well drop it as late.             *)
StreamAppend(r) == /\ r \in bronze \cap Clean
                   /\ EventOf[r] \notin EventsOf(silver)
                   /\ layout \in {"none", "plain"}
                   /\ layout' = "plain" /\ silver' = silver \cup {r}
                   /\ UNCHANGED <<bronze, job, read, source, refused>>

(* The partition column event_date is not in the rows the stream writes.   *)
StreamRefused == /\ bronze \cap Clean # {} /\ layout = "dated"
                 /\ refused' = refused \cup {"stream"}
                 /\ UNCHANGED <<bronze, layout, silver, job, read, source>>

-----------------------------------------------------------------------------
(* The backfill.                                                           *)

(* dedupe_full: one row per event_id, the newest by ingest_time.  The      *)
(* second sort key is the partition key, so of equal ones any may be kept. *)
FirstCopies(rows) == {s \in SUBSET rows :                \* mutant: ascending order
    /\ \A r \in rows : \E k \in s : EventOf[k] = EventOf[r] /\ IngestTime[k] <= IngestTime[r]
    /\ \A k, l \in s : EventOf[k] = EventOf[l] => k = l}
DedupeFull(rows) == {s \in SUBSET rows :
    /\ \A r \in rows : \E k \in s : EventOf[k] = EventOf[r] /\ IngestTime[k] >= IngestTime[r]
    /\ \A k, l \in s : EventOf[k] = EventOf[l] => k = l}

(* An attempt reads bronze once: the rows of the process date by           *)
(* event_time, whenever they arrived.                                      *)
ApplyCorrections(d) == Day(bronze, d)

BeginAttempt(d) == /\ job = NoOrderDate
                   /\ job' = d /\ read' = ApplyCorrections(d)
                   /\ UNCHANGED <<bronze, layout, silver, source, refused>>

(* Dynamic partition overwrite: only dates among the rows written are      *)
(* replaced, so an empty result replaces nothing.                          *)
OverwriteTable(d, rows) == rows                          \* mutant: static overwrite
OverwriteDate(d, rows) == IF rows = {} THEN silver
                                       ELSE (silver \ Day(silver, d)) \cup rows

WritePartitionOverwrite ==
    /\ job # NoOrderDate /\ layout # "plain"
    /\ \E rows \in DedupeFull(read) : silver' = OverwriteDate(job, rows)
    /\ layout' = "dated"
    /\ source' = [source EXCEPT ![job] = read]
    /\ job' = NoOrderDate /\ read' = {}
    /\ UNCHANGED <<bronze, refused>>

(* A table the stream has created is not partitioned by event_date.        *)
BackfillRefused == /\ job # NoOrderDate /\ layout = "plain"
                   /\ refused' = refused \cup {"backfill"}
                   /\ job' = NoOrderDate /\ read' = {}
                   /\ UNCHANGED <<bronze, layout, silver, source>>

(* An attempt dies (memory, execution_timeout) before its commit; one that *)
(* dies after it leaves what WritePartitionOverwrite leaves.               *)
FailAttempt == /\ job # NoOrderDate
               /\ job' = NoOrderDate /\ read' = {}
               /\ UNCHANGED <<bronze, layout, silver, source, refused>>

TableNext == \/ \E r \in Rows : Arrive(r) \/ StreamAppend(r)
             \/ \E d \in OrderDates : BeginAttempt(d)
             \/ StreamRefused \/ WritePartitionOverwrite \/ BackfillRefused \/ FailAttempt

TableSpec == TableInit /\ [][TableNext]_table_vars

-----------------------------------------------------------------------------
(* Properties.                                                             *)

(* A table the backfill writes holds, for every date, one row per event:   *)
(* the newest copy of each that the last overwrite of that date had read,  *)
(* however many attempts there were and whatever arrived meanwhile; and it *)
(* holds nothing of the stream's (nightly_backfill.py, 33-40 and 70-75).   *)
Corrected(s, rows) == /\ s \subseteq rows /\ EventsOf(s) = EventsOf(rows)
                      /\ \A k \in s, r \in rows : EventOf[k] = EventOf[r] =>
                            IngestTime[r] <= IngestTime[k] /\ (r \in s => r = k)

RewrittenDays == IF layout = "dated"
                 THEN \A d \in OrderDates : Corrected(Day(silver, d), source[d])
                 ELSE \A d \in OrderDates : source[d] = {}

(* No write of either job loses an event the table had: a rerun may bring  *)
(* newer copies and more events, never fewer, and never touches another    *)
(* date ("surgical", nightly_backfill.py, 70-75).                          *)
NoEventLost == [][EventsOf(silver) \subseteq EventsOf(silver')]_table_vars

(* Both writers can write the one table, as nightly_backfill.py, 9-12,     *)
(* says they do.                                                           *)
SameTable == refused = {}
=============================================================================
