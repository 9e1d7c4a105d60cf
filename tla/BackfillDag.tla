----------------------------- MODULE BackfillDag -----------------------------
(***************************************************************************)
(* airflow/dags/batch_backfill_dag.py: the nightly chain                   *)
(*   check_source_quality >> run_backfill >> check_gold_quality            *)
(*     >> load_bigquery                                                    *)
(* over the gold table that the zone stream fills, in front of the         *)
(* BigQuery table that Dataproc runs load too (BigQueryLoad).              *)
(*                                                                         *)
(* Airflow retries a failed task, ends a run by dagrun_timeout, runs one   *)
(* run at a time, and lets an operator clear a task, with or without the   *)
(* ones after it, once the run is over; a run may be made for any past     *)
(* date.  Both gates read the gold table, which run_backfill does not      *)
(* write, so here that task only succeeds or fails; Backfill says when.    *)
(*                                                                         *)
(* Modelled: failures before and after a load took effect, retries,        *)
(* timeouts, clearing, rows reported between gate and load.                *)
(***************************************************************************)
EXTENDS BigQueryLoad, QualitySuites

CONSTANTS Dates,      \* logical dates there are runs of
          Retries,    \* default_args: 2; check_gold_quality has none
          MaxClears,  \* bound: times an operator clears tasks
          MaxNow,     \* bound of the clock
          NoDate

ASSUME DagAssumption == /\ Windows \subseteq GoldRow /\ Dates \subseteq Int
                        /\ DayOf = [w \in Windows |-> Date(w.start)]
                        /\ Retries \in Nat /\ MaxClears \in Nat /\ MaxNow \in Nat
                        /\ NoDate \notin Dates

VARIABLES
    now,       \* the clock
    run,       \* date of the active DAG run, or NoDate
    task,      \* state of the tasks of each date's run, in chain order
    tries,     \* attempts made of the active run's first unfinished task
    clears     \* times tasks were cleared

dag_vars == <<run, task, tries, clears>>
vars     == <<now, dag_vars, load_vars>>

Chain    == 1 .. 4
Load     == 4
Gates    == {1, 3}
MaxTries == [i \in Chain |-> IF i = 3 THEN 1 ELSE Retries + 1]
States   == {"none", "running", "retry", "success", "failed"}   \* failed: or given up, for another

TypeOK == /\ LoadTypes
          /\ now \in 0 .. MaxNow /\ run \in Dates \cup {NoDate}
          /\ task \in [Dates -> [Chain -> States]]
          /\ tries \in 0 .. Retries + 1 /\ clears \in 0 .. MaxClears
          /\ \A d \in Dates, i \in Chain :
                task[d][i] \in {"running", "retry"} => d = run /\ tries \in 1 .. MaxTries[i]

Init == /\ LoadInit
        /\ now = 0 /\ run = NoDate /\ tries = 0 /\ clears = 0
        /\ task = [d \in Dates |-> [i \in Chain |-> "none"]]

Tick == /\ now < MaxNow /\ now' = now + 1
        /\ UNCHANGED <<dag_vars, load_vars>>

(* The zone stream reports a window after its start.                       *)
Report(w) == /\ w \notin gold /\ w.start < now
             /\ files' = [files EXCEPT ![w] = 1]
             /\ UNCHANGED <<now, dag_vars, rewrites, served, appends, script_vars>>

-----------------------------------------------------------------------------
(* A run.                                                                  *)

CreateRun(d) == /\ run = NoDate /\ d < Date(now)
                /\ \A i \in Chain : task[d][i] = "none"
                /\ run' = d /\ tries' = 0
                /\ UNCHANGED <<now, task, clears, load_vars>>

Ready(i) == /\ run # NoDate
            /\ task[run][i] \in {"none", "retry"}
            /\ i > 1 => task[run][i - 1] = "success"
            /\ \A j \in Chain : task[run][j] # "running"

Begin(i) == /\ Ready(i)
            /\ task' = [task EXCEPT ![run][i] = "running"]
            /\ tries' = tries + 1
            /\ UNCHANGED <<now, run, clears, load_vars>>

Running(i) == run # NoDate /\ task[run][i] = "running"

Succeed(i) == task' = [task EXCEPT ![run][i] = "success"] /\ tries' = 0

OneMore(i)  == tries <= MaxTries[i]              \* mutant
CanRetry(i) == tries < MaxTries[i]

Endless(i) == task' = [task EXCEPT ![run][i] = "retry"] /\ tries' = 1      \* mutant: retried for ever
Fail(i) == IF CanRetry(i)
           THEN task' = [task EXCEPT ![run][i] = "retry"] /\ UNCHANGED tries
           ELSE task' = [task EXCEPT ![run][i] = "failed"] /\ tries' = 0

(* run_quality_gate, at either place; the query itself may fail as well.   *)
RunQualityGate(i) == /\ i \in Gates /\ Running(i)
                     /\ \/ GoldSuitePasses(Metrics(gold, now)) /\ Succeed(i)
                        \/ Fail(i)
                     /\ UNCHANGED <<now, run, clears, load_vars>>

RunBackfill == /\ Running(2)
               /\ Succeed(2) \/ Fail(2)
               /\ UNCHANGED <<now, run, clears, load_vars>>

(* The load job may have been done and the task fail all the same.         *)
RunLoad == /\ Running(Load)
           /\ \/ /\ Reload(run)
                 /\ Succeed(Load) \/ Fail(Load)
              \/ served' = served /\ Fail(Load)
           /\ UNCHANGED <<now, run, clears, gold_vars, appends, script_vars>>

(* What is not finished when a run ends does not happen any more.          *)
GiveUp == /\ task' = [task EXCEPT ![run] = [i \in Chain |->
                 IF @[i] \in {"none", "running", "retry"} THEN "failed" ELSE @[i]]]
          /\ run' = NoDate /\ tries' = 0
          /\ UNCHANGED <<now, clears, load_vars>>

EndRun  == run # NoDate /\ (\A i \in Chain : ~Running(i) /\ ~Ready(i)) /\ GiveUp
Timeout == run # NoDate /\ GiveUp      \* dagrun_timeout

(* Clear and re-run: one task, or it and all that follow.                  *)
Clear(d, i) == /\ run = NoDate /\ clears < MaxClears
               /\ task[d][i] # "none"
               /\ \E scope \in {{i}, i .. 4} :
                     task' = [task EXCEPT ![d] = [j \in Chain |-> IF j \in scope THEN "none" ELSE @[j]]]
               /\ run' = d /\ tries' = 0 /\ clears' = clears + 1
               /\ UNCHANGED <<now, load_vars>>

TaskStep == \/ \E i \in Chain : Begin(i) \/ RunQualityGate(i)
            \/ RunBackfill \/ RunLoad \/ EndRun

Next == \/ Tick \/ \E w \in Windows : Report(w)
        \/ \E d \in Dates : CreateRun(d) \/ \E i \in Chain : Clear(d, i)
        \/ TaskStep \/ Timeout
        \/ (Optimize \/ Dataproc) /\ UNCHANGED <<now, dag_vars>>

Spec == Init /\ [][Next]_vars

(* The scheduler and Dataproc's idle timer run; a shell that is not killed *)
(* goes on.  dagrun_timeout is not needed for a run to end.                *)
LiveSpec == Spec /\ WF_vars(TaskStep) /\ WF_vars(MaxIdle /\ UNCHANGED <<now, dag_vars>>)
                 /\ WF_vars(ScriptStep /\ UNCHANGED <<now, dag_vars>>)

-----------------------------------------------------------------------------
(* Properties.                                                             *)

(* Whatever is retried, cleared, or loaded again after a failure that was  *)
(* none, the DAG doubles no row on the dashboard ("Retries are safe",      *)
(* batch_backfill_dag.py, 46-49): unless OPTIMIZE has rewritten the files  *)
(* it loads, or a Dataproc run has appended to the table, which            *)
(* ReloadsConverge and BigQueryLoad are about.                             *)
RetriesDoNotDouble == rewrites = 0 /\ appends = 0 => \A w \in Windows : served[w] <= 1

(* Clearing the load and running it again "converges to the same state"    *)
(* (batch_backfill_dag.py, 23-26): no row has more copies on the dashboard *)
(* after a load of the DAG than it had, if it was there at all.            *)
ReloadsConverge ==
    [][RunLoad => \A w \in Windows : served[w] > 0 => served'[w] <= served[w]]_vars

(* A reload of a day takes nothing away from the table but surplus copies  *)
(* of rows of that day: never a row altogether, and never one of another   *)
(* day (bigquery_load.py, 47-52 and 63-65).                                *)
ReloadIsScoped ==
    [][\A w \in Windows : served'[w] < served[w] => /\ served'[w] = files[w]
                                                    /\ w \in gold /\ DayOf[w] = run]_served

(* "A volume DROP can be a broken upstream or a stuck consumer"            *)
(* (suites.py, 59-60), and the check in front of the load is there so that *)
(* it goes no further (batch_backfill_dag.py, 10-15): a gate does not pass *)
(* on a day without a single row when there are days to compare it with    *)
(* that are not all alike.  Volume "swings ~3-4x" (suites.py, 36-37).      *)
OutageStopped ==
    [][\A i \in Gates :
          /\ run # NoDate /\ task[run][i] = "running" /\ task'[run][i] = "success"
          /\ OnDate(gold, Date(now)) = {}
          => LET counts == Metrics(gold, now).trailing
             IN  Days(counts) < 2 \/ Spread(counts) = 0]_task

(* Every run ends, with retries, failures and cleared tasks.               *)
EveryRunEnds == run # NoDate ~> run = NoDate

(* No cluster is left to be billed: the EXIT trap deletes it, or the idle  *)
(* timer does when the trap fails or never fires (dataproc_submit.sh,      *)
(* 45-66).                                                                 *)
NoClusterLeaks == \A c \in 1 .. MaxSubmits : c \in clusters ~> c \notin clusters
=============================================================================
