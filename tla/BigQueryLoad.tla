---------------------------- MODULE BigQueryLoad ----------------------------
(***************************************************************************)
(* The serving hop: gcp/bigquery_load.py loads the files of the gold table *)
(* into a BigQuery table partitioned by the day of window_start, and       *)
(* gcp/dataproc_submit.sh runs a backfill on a cluster of its own and then *)
(* the same load, but without --replace-partition.                         *)
(*                                                                         *)
(* A load job is atomic.  With the decorator table$YYYYMMDD it may only    *)
(* write rows of that day: BigQuery refuses a source that has others, and  *)
(* one that matches no file.  The source is every parquet file under the   *)
(* gold table, those that OPTIMIZE has replaced included, as nothing runs  *)
(* VACUUM: a row is loaded once for each file that holds it.               *)
(*                                                                         *)
(* Modelled: both callers, load jobs that succeed although their caller    *)
(* dies, the life of the cluster with its EXIT trap, a hard kill, and      *)
(* --max-idle.  Left out: clustering, schema, what the backfill writes on  *)
(* that cluster (Backfill).                                                *)
(***************************************************************************)
EXTENDS Integers

CONSTANTS Windows,    \* rows of gold_orders_by_zone_5min
          DayOf,      \* day of a row's window_start
          MaxSubmits, \* bound: runs of dataproc_submit.sh
          MaxRewrites \* bound: runs of OPTIMIZE

ASSUME LoadAssumption == /\ DayOf \in [Windows -> Int]
                         /\ MaxSubmits \in Nat /\ MaxRewrites \in Nat

VARIABLES
    files,     \* parquet files of the gold table with each row
    rewrites,  \* runs of OPTIMIZE
    served,    \* the BigQuery table: copies of each row
    appends,   \* history: loads that appended
    submits,   \* runs of dataproc_submit.sh so far, the last one's cluster name
    script,    \* where that run is
    clusters   \* clusters that exist, and are billed

script_vars == <<submits, script, clusters>>
gold_vars   == <<files, rewrites>>
load_vars   == <<gold_vars, served, appends, submits, script, clusters>>

gold  == {w \in Windows : files[w] > 0}   \* the rows
Steps == {"none", "create", "backfill", "load", "exit"}

LoadTypes == /\ files \in [Windows -> Nat] /\ rewrites \in 0 .. MaxRewrites
             /\ served \in [Windows -> Nat] /\ appends \in Nat
             /\ submits \in 0 .. MaxSubmits /\ script \in Steps
             /\ script # "none" => submits > 0
             /\ clusters \subseteq 1 .. submits

LoadInit == /\ files = [w \in Windows |-> 0] /\ rewrites = 0
            /\ served = [w \in Windows |-> 0] /\ appends = 0
            /\ submits = 0 /\ script = "none" /\ clusters = {}

-----------------------------------------------------------------------------
(* bigquery_load.py.                                                       *)

(* WRITE_APPEND into the table.                                            *)
Appended == [w \in Windows |-> served[w] + files[w]]

(* WRITE_TRUNCATE into one day's partition.                                *)
AppendToDay(d) == [w \in Windows |-> served[w] + files[w]]           \* mutant
Replaced(d)    == [w \in Windows |-> IF DayOf[w] = d THEN files[w] ELSE served[w]]

Accepted(d) == gold # {} /\ \A w \in gold : DayOf[w] = d

NoDecorator(d) == gold # {} /\ served' = files                       \* mutant
Reload(d)      == Accepted(d) /\ served' = Replaced(d)

(* optimize_and_zorder: every row goes to a new file too.                  *)
Optimize == /\ gold # {} /\ rewrites < MaxRewrites
            /\ rewrites' = rewrites + 1
            /\ files' = [w \in Windows |-> IF w \in gold THEN files[w] + 1 ELSE 0]
            /\ UNCHANGED <<served, appends, script_vars>>

-----------------------------------------------------------------------------
(* dataproc_submit.sh.                                                     *)

Submit == /\ script = "none" /\ submits < MaxSubmits
          /\ submits' = submits + 1 /\ script' = "create"
          /\ UNCHANGED <<gold_vars, served, appends, clusters>>

(* set -e: a command that fails goes to the EXIT trap; one that is         *)
(* creating a cluster may have created it by then.                         *)
CreateCluster == /\ script = "create"
                 /\ clusters' \in {clusters, clusters \cup {submits}}
                 /\ script' \in {"backfill", "exit"}
                 /\ script' = "backfill" => submits \in clusters'
                 /\ UNCHANGED <<gold_vars, served, appends, submits>>

RunOnCluster == /\ script = "backfill"
                /\ script' \in {"load", "exit"}
                /\ UNCHANGED <<gold_vars, served, appends, submits, clusters>>

LoadAll == /\ script = "load" /\ script' = "exit"
           /\ \/ /\ gold # {}
                 /\ served' = Appended /\ appends' = appends + 1
              \/ UNCHANGED <<served, appends>>
           /\ UNCHANGED <<gold_vars, submits, clusters>>

(* cleanup() deletes this run's cluster, or fails to (|| true).            *)
Cleanup == /\ script = "exit" /\ script' = "none"
           /\ clusters' \in {clusters, clusters \ {submits}}
           /\ UNCHANGED <<gold_vars, served, appends, submits>>

(* The trap does not fire; a load job that was sent goes on without it.    *)
HardKill == /\ script # "none" /\ script' = "none"
            /\ \/ UNCHANGED <<served, appends>>
               \/ /\ script = "load" /\ gold # {}
                  /\ served' = Appended /\ appends' = appends + 1
            /\ UNCHANGED <<gold_vars, submits, clusters>>

(* --max-idle: Dataproc deletes a cluster that runs no job.                *)
OtherRuns == clusters \ {submits}                \* mutant: the newest is never idle
Idle == {c \in clusters : c # submits \/ script \notin {"create", "backfill"}}
MaxIdle == /\ Idle # {} /\ clusters' = clusters \ Idle
           /\ UNCHANGED <<gold_vars, served, appends, submits, script>>

ScriptStep == CreateCluster \/ RunOnCluster \/ LoadAll \/ Cleanup
Dataproc   == Submit \/ ScriptStep \/ HardKill \/ MaxIdle
=============================================================================
