--------------------------- MODULE Nightly_proofs ---------------------------
(***************************************************************************)
(* What the nightly jobs guarantee, whatever is retried, timed out,        *)
(* cleared or reloaded, for any rows, windows and dates and any number of  *)
(* them: the task states and the dashboard's table (BackfillDag), then the *)
(* silver table that the backfill rewrites and the features built on it    *)
(* (FeatureTable).  The two share no state, and a specification says       *)
(* nothing of the other's; what they share is that their proofs add up.    *)
(***************************************************************************)
EXTENDS BackfillDag, FeatureTable, AggregateTheorems, TLAPS

-----------------------------------------------------------------------------
(* The tasks and the loads.                                                *)

(* What is left of a run is a stretch of the chain, of which only the      *)
(* first task has been tried; a run that is not active was never begun or  *)
(* is over; tries counts attempts of a task that may be tried again.       *)
Left(states) == {i \in Chain : states[i] \in {"none", "running", "retry"}}
Stretch(states) ==
    \A i \in Left(states), j \in Left(states) :
       i < j => states[j] = "none" /\ \A k \in i .. j : k \in Left(states)
Orderly ==
    /\ \A d \in Dates : d # run =>
          (\A i \in Chain : task[d][i] = "none") \/ Left(task[d]) = {}
    /\ run # NoDate => Stretch(task[run])
    /\ tries # 0 => run # NoDate /\ \E i \in Chain : task[run][i] \in {"running", "retry"}
    /\ \A i \in Chain : run # NoDate /\ task[run][i] = "retry" => tries < MaxTries[i]

TasksOK == /\ run \in Dates \cup {NoDate}
           /\ task \in [Dates -> [Chain -> States]]
           /\ tries \in 0 .. Retries + 1
           /\ \A d \in Dates, i \in Chain :
                 task[d][i] \in {"running", "retry"} => d = run /\ tries \in 1 .. MaxTries[i]

(* The dashboard has only rows of the gold table, and a row is in one file *)
(* more for each OPTIMIZE.                                                 *)
Shown == \A w \in Windows : /\ files[w] = 0 => served[w] = 0
                            /\ files[w] <= 1 + rewrites

Loads == LoadTypes /\ Shown /\ RetriesDoNotDouble
Tasks == TasksOK /\ Orderly
IInv  == Loads /\ Tasks /\ now \in 0 .. MaxNow /\ clears \in 0 .. MaxClears

-----------------------------------------------------------------------------
(* The table and its loads.                                                *)

LEMMA AppendedLoads ==
    ASSUME Loads, served' = Appended, appends' = appends + 1, UNCHANGED gold_vars
    PROVE  /\ served' \in [Windows -> Nat] /\ appends' \in Nat
           /\ Shown' /\ RetriesDoNotDouble'
<1>1. served' \in [Windows -> Nat] /\ appends' \in Nat /\ appends' # 0
  BY DEF Loads, LoadTypes, Appended
<1>2. Shown'
  BY DEF Loads, LoadTypes, Shown, Appended, gold_vars
<1> QED
  BY <1>1, <1>2 DEF RetriesDoNotDouble

LEMMA ScriptLoads ==
    ASSUME Loads, Dataproc \/ Optimize
    PROVE  Loads'
<1>1. CASE Submit
  BY <1>1, LoadAssumption DEF Loads, LoadTypes, Submit, Steps, Shown, RetriesDoNotDouble, gold_vars
<1>2. CASE CreateCluster
  <2>1. /\ script' \in Steps /\ UNCHANGED <<files, rewrites, served, appends, submits>>
        /\ clusters' \subseteq clusters \cup {submits}
    BY <1>2 DEF CreateCluster, Steps, gold_vars
  <2>2. submits \in 1 .. submits
    BY <1>2, <2>1 DEF Loads, LoadTypes, CreateCluster
  <2> QED
    BY <2>1, <2>2 DEF Loads, LoadTypes, Shown, RetriesDoNotDouble
<1>3. CASE RunOnCluster
  BY <1>3 DEF Loads, LoadTypes, RunOnCluster, Steps, Shown, RetriesDoNotDouble, gold_vars
<1>4. CASE LoadAll
  <2>1. /\ script # "none" /\ script' \in Steps /\ UNCHANGED <<gold_vars, submits, clusters>>
        /\ \/ served' = Appended /\ appends' = appends + 1
           \/ UNCHANGED <<served, appends>>
    BY <1>4 DEF LoadAll, Steps
  <2> QED
    BY <2>1, AppendedLoads DEF Loads, LoadTypes, Shown, RetriesDoNotDouble, gold_vars
<1>5. CASE Cleanup
  BY <1>5 DEF Loads, LoadTypes, Cleanup, Steps, Shown, RetriesDoNotDouble, gold_vars
<1>6. CASE HardKill
  <2>1. /\ script # "none" /\ script' \in Steps /\ UNCHANGED <<gold_vars, submits, clusters>>
        /\ \/ served' = Appended /\ appends' = appends + 1
           \/ UNCHANGED <<served, appends>>
    BY <1>6 DEF HardKill, Steps
  <2> QED
    BY <2>1, AppendedLoads DEF Loads, LoadTypes, Shown, RetriesDoNotDouble, gold_vars
<1>7. CASE MaxIdle
  BY <1>7 DEF Loads, LoadTypes, MaxIdle, Steps, Shown, RetriesDoNotDouble, gold_vars
<1>8. CASE Optimize
  <2>1. /\ files' \in [Windows -> Nat] /\ rewrites' \in 0 .. MaxRewrites /\ rewrites' # 0
        /\ UNCHANGED <<served, appends, submits, script, clusters>>
    BY <1>8, LoadAssumption DEF Loads, LoadTypes, Optimize, gold, script_vars
  <2>2. Shown'
    BY <1>8, LoadAssumption DEF Loads, LoadTypes, Shown, Optimize, gold
  <2> QED
    BY <2>1, <2>2 DEF Loads, LoadTypes, RetriesDoNotDouble
<1> QED
  BY <1>1, <1>2, <1>3, <1>4, <1>5, <1>6, <1>7, <1>8 DEF Dataproc, ScriptStep

LEMMA ReportLoads == ASSUME Loads, NEW w \in Windows, Report(w) PROVE Loads'
<1>1. files' \in [Windows -> Nat] /\ \A v \in Windows : files'[v] = IF v = w THEN 1 ELSE files[v]
  BY DEF Loads, LoadTypes, Report
<1>2. files[w] = 0 /\ UNCHANGED <<rewrites, served, appends, script_vars>>
  BY DEF Loads, LoadTypes, Report, gold
<1>3. Shown'
  BY <1>1, <1>2, LoadAssumption DEF Loads, LoadTypes, Shown
<1> QED
  BY <1>1, <1>2, <1>3 DEF Loads, LoadTypes, RetriesDoNotDouble, script_vars

LEMMA RunLoadLoads == ASSUME Loads, RunLoad PROVE Loads'
<1>1. UNCHANGED <<files, rewrites, appends, submits, script, clusters>>
  BY DEF RunLoad, gold_vars, script_vars
<1>2. CASE served' = served
  BY <1>1, <1>2 DEF Loads, LoadTypes, Shown, RetriesDoNotDouble
<1>3. CASE served' = Replaced(run)
  <2>1. /\ served' \in [Windows -> Nat]
        /\ \A w \in Windows : served'[w] = files[w] \/ served'[w] = served[w]
    BY <1>3 DEF Loads, LoadTypes, Replaced
  <2>2. Shown'
    BY <1>1, <2>1 DEF Loads, LoadTypes, Shown
  <2>3. RetriesDoNotDouble'
    BY <1>1, <2>1 DEF Loads, LoadTypes, Shown, RetriesDoNotDouble
  <2> QED
    BY <1>1, <2>1, <2>2, <2>3 DEF Loads, LoadTypes
<1> QED
  BY <1>2, <1>3 DEF RunLoad, Reload

-----------------------------------------------------------------------------
(* The tasks.                                                              *)

LEMMA Four == Chain = {1, 2, 3, 4} /\ Chain \subseteq Int
BY DEF Chain

LEMMA TriesBounded == \A i \in Chain : MaxTries[i] \in 1 .. Retries + 1
BY DagAssumption DEF MaxTries, Chain

LEMMA CreateRunTasks == ASSUME Tasks, NEW d \in Dates, CreateRun(d) PROVE Tasks'
BY Four, DagAssumption DEF Tasks, TasksOK, Orderly, Stretch, Left, CreateRun

LEMMA ClearTasks == ASSUME Tasks, NEW d \in Dates, NEW i \in Chain, Clear(d, i) PROVE Tasks'
<1>1. PICK scope \in {{i}, i .. 4} :
         task' = [task EXCEPT ![d] = [j \in Chain |-> IF j \in scope THEN "none" ELSE @[j]]]
  BY DEF Clear
<1>2. /\ run = NoDate /\ run' = d /\ tries' = 0 /\ task[d][i] # "none"
  BY DEF Clear
<1>3. \A j \in Chain : task[d][j] \in {"success", "failed"}
  BY <1>2, DagAssumption DEF Tasks, TasksOK, Orderly, Stretch, Left, States
<1>4. /\ task' \in [Dates -> [Chain -> States]]
      /\ \A e \in Dates \ {d} : task'[e] = task[e]
      /\ \A j \in Chain : task'[d][j] = IF j \in scope THEN "none" ELSE task[d][j]
  BY <1>1 DEF Tasks, TasksOK, States
<1>5. Left(task'[d]) = scope \cap Chain
  BY <1>3, <1>4 DEF Left
<1>6. TasksOK'
  BY <1>2, <1>3, <1>4, DagAssumption DEF Tasks, TasksOK
<1>7. \A e \in Dates : e # d => Left(task'[e]) = Left(task[e])
  BY <1>4 DEF Left
<1>8. ASSUME NEW e \in Dates, e # d
      PROVE  (\A j \in Chain : task'[e][j] = "none") \/ Left(task'[e]) = {}
  BY <1>2, <1>4, <1>7, <1>8, DagAssumption DEF Tasks, Orderly, Stretch
<1>9. ASSUME NEW j \in Left(task'[d]), NEW k \in Left(task'[d]), j < k
      PROVE  task'[d][k] = "none" /\ \A l \in j .. k : l \in Left(task'[d])
  BY <1>4, <1>5, <1>9, Four
<1>10. \A j \in Chain : task'[d][j] # "retry"
  BY <1>3, <1>4
<1> QED
  BY <1>2, <1>6, <1>8, <1>9, <1>10 DEF Tasks, Orderly, Stretch

LEMMA GiveUpTasks == ASSUME Tasks, run # NoDate, GiveUp PROVE Tasks'
<1>1. run \in Dates
  BY DEF Tasks, TasksOK
<1>2. /\ task' \in [Dates -> [Chain -> States]]
      /\ \A e \in Dates \ {run} : task'[e] = task[e]
      /\ \A j \in Chain : task'[run][j] \in {"success", "failed"}
  BY <1>1 DEF Tasks, TasksOK, States, GiveUp
<1>3. run' = NoDate /\ tries' = 0
  BY DEF GiveUp
<1>4. TasksOK'
  BY <1>1, <1>2, <1>3, DagAssumption DEF Tasks, TasksOK
<1>5. \A e \in Dates : IF e = run THEN Left(task'[e]) = {} ELSE Left(task'[e]) = Left(task[e])
  BY <1>2 DEF Left
<1>6. \A e \in Dates : (\A j \in Chain : task'[e][j] = "none") \/ Left(task'[e]) = {}
  BY <1>1, <1>2, <1>5 DEF Tasks, Orderly
<1> QED
  BY <1>3, <1>4, <1>6 DEF Tasks, Orderly

(* A task that is ready is the first of those that are left, and if it     *)
(* was not tried yet, no other is being tried.                             *)
LEMMA ReadyIsFirst ==
    ASSUME Tasks, NEW i \in Chain, Ready(i)
    PROVE  /\ i \in Left(task[run]) /\ run \in Dates
           /\ \A j \in Left(task[run]) : j # i => i < j /\ task[run][j] = "none"
           /\ task[run][i] = "none" => tries = 0
<1>1. i \in Left(task[run]) /\ run \in Dates
  BY DEF Ready, Left, Tasks, TasksOK
<1>2. ASSUME NEW j \in Left(task[run]), j < i PROVE FALSE
  <2>1. i - 1 \in j .. i /\ i - 1 \in Left(task[run]) /\ i > 1
    BY <1>1, <1>2, Four DEF Tasks, Orderly, Stretch, Ready, Left
  <2> QED
    BY <2>1 DEF Ready, Left
<1>3. ASSUME NEW j \in Left(task[run]), j # i PROVE i < j /\ task[run][j] = "none"
  BY <1>1, <1>2, <1>3, Four DEF Tasks, Orderly, Stretch, Ready, Left
<1>4. ASSUME task[run][i] = "none" PROVE tries = 0
  BY <1>3, <1>4 DEF Tasks, Orderly, Stretch, Left
<1> QED
  BY <1>1, <1>3, <1>4

LEMMA BeginTasks == ASSUME Tasks, NEW i \in Chain, Begin(i) PROVE Tasks'
<1>1. /\ i \in Left(task[run]) /\ run \in Dates
      /\ \A j \in Left(task[run]) : j # i => i < j /\ task[run][j] = "none"
      /\ task[run][i] = "none" => tries = 0
  BY ReadyIsFirst DEF Begin
<1>2. /\ run' = run /\ tries' = tries + 1
      /\ task' = [task EXCEPT ![run][i] = "running"]
      /\ task[run][i] \in {"none", "retry"}
  BY DEF Begin, Ready
<1>3. /\ task' \in [Dates -> [Chain -> States]]
      /\ \A e \in Dates \ {run} : task'[e] = task[e]
      /\ \A j \in Chain : task'[run][j] = IF j = i THEN "running" ELSE task[run][j]
  BY <1>1, <1>2 DEF Tasks, TasksOK, States
<1>4. \A e \in Dates : Left(task'[e]) = Left(task[e])
  BY <1>1, <1>3 DEF Left
<1>5. tries' \in 1 .. MaxTries[i]
  BY <1>1, <1>2, TriesBounded, DagAssumption DEF Tasks, TasksOK, Orderly
<1>6. \A j \in Chain : task'[run][j] \in {"running", "retry"} => j = i
  BY <1>1, <1>3 DEF Left
<1>7. TasksOK'
  BY <1>1, <1>2, <1>3, <1>5, <1>6, TriesBounded, DagAssumption DEF Tasks, TasksOK
<1>8. ASSUME NEW j \in Left(task[run]), NEW k \in Left(task[run]), j < k
      PROVE  task'[run][k] = "none" /\ \A l \in j .. k : l \in Left(task[run])
  <2>1. task[run][k] = "none" /\ \A l \in j .. k : l \in Left(task[run])
    BY <1>1, <1>8, DagAssumption DEF Tasks, Orderly, Stretch
  <2>2. k # i
    BY <1>1, <1>8, Four DEF Left
  <2> QED
    BY <1>3, <2>1, <2>2 DEF Left
<1>9. \A e \in Dates : e # run =>
         (\A j \in Chain : task'[e][j] = "none") \/ Left(task'[e]) = {}
  BY <1>3, <1>4 DEF Tasks, Orderly, Stretch
<1>10. Stretch(task'[run])
  BY <1>1, <1>4, <1>8 DEF Stretch
<1>11. \A j \in Chain : task'[run][j] # "retry"
  BY <1>3, <1>6
<1>12. task'[run][i] = "running"
  BY <1>3
<1>13. Orderly'
  BY <1>1, <1>2, <1>9, <1>10, <1>11, <1>12, DagAssumption DEF Orderly
<1> QED
  BY <1>7, <1>13 DEF Tasks

(* A running task succeeds or fails.                                       *)
LEMMA OutcomeTasks ==
    ASSUME Tasks, NEW i \in Chain, Running(i), run' = run, Succeed(i) \/ Fail(i)
    PROVE  Tasks'
<1>1. i \in Left(task[run]) /\ run \in Dates /\ task[run][i] = "running"
  BY DEF Running, Left, Tasks, TasksOK
<1>2. ASSUME NEW j \in Left(task[run]), j # i PROVE i < j /\ task[run][j] = "none"
  <2>1. j < i => task[run][i] = "none"
    BY <1>1, <1>2, DagAssumption DEF Tasks, Orderly, Stretch
  <2>2. i < j => task[run][j] = "none"
    BY <1>1, <1>2, DagAssumption DEF Tasks, Orderly, Stretch
  <2> QED
    BY <1>1, <1>2, <2>1, <2>2, Four DEF Left
<1>3. tries \in 1 .. MaxTries[i]
  BY <1>1 DEF Tasks, TasksOK
<1>4. PICK state \in {"success", "retry", "failed"} :
         /\ task' = [task EXCEPT ![run][i] = state]
         /\ state = "retry" => tries' = tries /\ tries < MaxTries[i]
         /\ state # "retry" => tries' = 0
  BY DEF Succeed, Fail, CanRetry
<1>5. /\ task' \in [Dates -> [Chain -> States]]
      /\ \A e \in Dates \ {run} : task'[e] = task[e]
      /\ \A j \in Chain : task'[run][j] = IF j = i THEN state ELSE task[run][j]
  BY <1>1, <1>4 DEF Tasks, TasksOK, States
<1>6. /\ \A e \in Dates : e # run => Left(task'[e]) = Left(task[e])
      /\ Left(task'[run]) = IF state = "retry" THEN Left(task[run]) ELSE Left(task[run]) \ {i}
  BY <1>1, <1>5 DEF Left
<1>7. \A j \in Chain : task'[run][j] \in {"running", "retry"} => j = i /\ state = "retry"
  BY <1>1, <1>2, <1>5 DEF Left
<1>8. TasksOK'
  BY <1>1, <1>3, <1>4, <1>5, <1>7, TriesBounded, DagAssumption DEF Tasks, TasksOK
<1>9. ASSUME NEW j \in Left(task'[run]), NEW k \in Left(task'[run]), j < k
      PROVE  task'[run][k] = "none" /\ \A l \in j .. k : l \in Left(task'[run])
  <2>1. j \in Left(task[run]) /\ k \in Left(task[run]) /\ k # i
    BY <1>2, <1>6, <1>9, Four DEF Left
  <2>2. task[run][k] = "none" /\ \A l \in j .. k : l \in Left(task[run])
    BY <1>1, <1>9, <2>1, DagAssumption DEF Tasks, Orderly, Stretch
  <2>3. state # "retry" => i < j
    BY <1>2, <1>6, <2>1
  <2> QED
    BY <1>1, <1>5, <1>6, <2>1, <2>2, <2>3, Four DEF Left
<1>10. \A e \in Dates : e # run =>
         (\A j \in Chain : task'[e][j] = "none") \/ Left(task'[e]) = {}
  BY <1>5, <1>6 DEF Tasks, Orderly, Stretch
<1>11. tries' # 0 => \E j \in Chain : task'[run][j] \in {"running", "retry"}
  BY <1>4, <1>5
<1>12. \A j \in Chain : task'[run][j] = "retry" => tries' < MaxTries[j]
  BY <1>4, <1>7
<1>13. Stretch(task'[run])
  BY <1>9 DEF Stretch
<1>14. run' = run /\ run # NoDate
  BY <1>1, DagAssumption
<1>15. Orderly'
  BY <1>10, <1>11, <1>12, <1>13, <1>14 DEF Orderly
<1> QED
  BY <1>8, <1>15 DEF Tasks

-----------------------------------------------------------------------------
LEMMA InitInv == Init => IInv
<1> SUFFICES ASSUME Init PROVE IInv
  OBVIOUS
<1>1. Loads
  BY LoadAssumption DEF Init, LoadInit, Loads, LoadTypes, Shown, RetriesDoNotDouble, Steps
<1>2. Tasks
  BY DagAssumption DEF Init, Tasks, TasksOK, Orderly, States, Left
<1> QED
  BY <1>1, <1>2, DagAssumption DEF Init, IInv

LEMMA LoadsUntouched == ASSUME Loads, UNCHANGED load_vars PROVE Loads'
BY DEF Loads, LoadTypes, Shown, RetriesDoNotDouble, load_vars, gold_vars

LEMMA TasksUntouched == ASSUME Tasks, UNCHANGED <<run, task, tries>> PROVE Tasks'
BY DEF Tasks, TasksOK, Orderly, Stretch, Left

THEOREM Invariance == Spec => []IInv
<1>1. Init => IInv
  BY InitInv
<1>2. IInv /\ [Next]_vars => IInv'
  <2> SUFFICES ASSUME IInv, [Next]_vars PROVE IInv'
    OBVIOUS
  <2> USE DEF IInv
  <2>1. CASE Tick
    BY <2>1, LoadsUntouched, TasksUntouched, DagAssumption DEF Tick, dag_vars
  <2>2. ASSUME NEW w \in Windows, Report(w) PROVE IInv'
    BY <2>2, ReportLoads, TasksUntouched DEF Report, dag_vars
  <2>3. ASSUME NEW d \in Dates, CreateRun(d) PROVE IInv'
    BY <2>3, CreateRunTasks, LoadsUntouched DEF CreateRun
  <2>4. ASSUME NEW d \in Dates, NEW i \in Chain, Clear(d, i) PROVE IInv'
    <3>1. clears' \in 0 .. MaxClears /\ now' = now /\ UNCHANGED load_vars
      BY <2>4, DagAssumption DEF Clear
    <3> QED
      BY <2>4, <3>1, ClearTasks, LoadsUntouched
  <2>5. ASSUME NEW i \in Chain, Begin(i) PROVE IInv'
    BY <2>5, BeginTasks, LoadsUntouched DEF Begin
  <2>6. ASSUME NEW i \in Chain, RunQualityGate(i) PROVE IInv'
    BY <2>6, OutcomeTasks, LoadsUntouched DEF RunQualityGate
  <2>7. CASE RunBackfill
    BY <2>7, OutcomeTasks, LoadsUntouched, Four DEF RunBackfill
  <2>8. CASE RunLoad
    BY <2>8, OutcomeTasks, RunLoadLoads, Four DEF RunLoad, Load
  <2>9. CASE EndRun \/ Timeout
    <3>1. run # NoDate /\ GiveUp
      BY <2>9 DEF EndRun, Timeout
    <3> QED
      BY <3>1, GiveUpTasks, LoadsUntouched DEF GiveUp
  <2>10. CASE (Optimize \/ Dataproc) /\ UNCHANGED <<now, dag_vars>>
    BY <2>10, ScriptLoads, TasksUntouched DEF dag_vars
  <2>11. CASE UNCHANGED vars
    BY <2>11, LoadsUntouched, TasksUntouched DEF vars, dag_vars
  <2> QED
    BY <2>1, <2>2, <2>3, <2>4, <2>5, <2>6, <2>7, <2>8, <2>9, <2>10, <2>11 DEF Next, TaskStep
<1> QED
  BY <1>1, <1>2, PTL DEF Spec

-----------------------------------------------------------------------------
(* Tables and task states are well typed; only the active run has a task   *)
(* under way, and none is attempted more often than its retries allow      *)
(* (batch_backfill_dag.py, 40-56 and 182).                                 *)
THEOREM TypeCorrect == Spec => []TypeOK
<1>1. IInv => TypeOK
  BY DEF IInv, Loads, Tasks, TasksOK, TypeOK
<1> QED
  BY <1>1, Invariance, PTL

(* Whatever is retried, cleared and loaded again, and whatever succeeded   *)
(* although its task failed, the dashboard has no row twice as long as     *)
(* OPTIMIZE has not rewritten the gold table's files and no Dataproc run   *)
(* has appended to it (batch_backfill_dag.py, 21-25 and 46-49).            *)
THEOREM LoadsDoNotDouble == Spec => []RetriesDoNotDouble
BY Invariance, PTL DEF IInv, Loads

(* Only a load of a day takes anything from the dashboard's table, and     *)
(* then only surplus copies of that day's rows (bigquery_load.py, 47-65).  *)
THEOREM ReloadsAreScoped == Spec => ReloadIsScoped
<1>1. IInv /\ [Next]_vars =>
        [\A w \in Windows : served'[w] < served[w] => /\ served'[w] = files[w]
                                                      /\ w \in gold /\ DayOf[w] = run]_served
  <2> SUFFICES ASSUME IInv, Next, served' # served, NEW w \in Windows, served'[w] < served[w]
               PROVE  served'[w] = files[w] /\ w \in gold /\ DayOf[w] = run
    BY DEF vars, load_vars
  <2>1. files[w] \in Nat /\ served[w] \in Nat /\ appends \in Nat
    BY DEF IInv, Loads, LoadTypes
  <2>2. served' = Replaced(run) \/ served' = Appended
    BY DEF Next, Tick, Report, CreateRun, Clear, TaskStep, Begin, RunQualityGate, RunBackfill,
           RunLoad, Reload, EndRun, Timeout, GiveUp, Optimize, Dataproc, ScriptStep, Submit,
           CreateCluster, RunOnCluster, LoadAll, Cleanup, HardKill, MaxIdle, load_vars
  <2>3. served' # Appended
    BY <2>1 DEF Appended
  <2>4. served'[w] = files[w] /\ DayOf[w] = run
    BY <2>1, <2>2, <2>3 DEF Replaced
  <2>5. files[w] # 0
    <3> SUFFICES ASSUME files[w] = 0 PROVE FALSE
      OBVIOUS
    <3>1. served[w] = 0
      BY DEF IInv, Loads, Shown
    <3> QED
      BY <2>1, <2>4, <3>1
  <2> QED
    BY <2>1, <2>4, <2>5 DEF gold
<1> QED
  BY <1>1, Invariance, PTL DEF Spec, ReloadIsScoped

-----------------------------------------------------------------------------
(* The rewritten silver table.  RewrittenDays is not inductive by itself:  *)
(* that a rerun loses no event rests on bronze growing only, so that what  *)
(* an attempt has read includes what the last overwrite of its date had    *)
(* read.                                                                   *)

(* A table nobody has written is empty; what an overwrite had read was of  *)
(* its date and is still in bronze, and an attempt under way has read it.  *)
Rereads == /\ layout = "none" => silver = {}
           /\ \A d \in OrderDates : source[d] \subseteq Day(bronze, d)
           /\ job # NoOrderDate => source[job] \subseteq read

TableInv == TableTypeOK /\ RewrittenDays /\ Rereads

-----------------------------------------------------------------------------
LEMMA InitTable == ASSUME BackfillAssumption, TableInit PROVE TableInv
BY BackfillAssumption
   DEF TableInit, TableInv, TableTypeOK, RewrittenDays, Rereads, Day

LEMMA ArriveTable ==
    ASSUME BackfillAssumption, TableInv, NEW r \in Rows, Arrive(r)
    PROVE  TableInv'
BY BackfillAssumption
   DEF TableInv, TableTypeOK, RewrittenDays, Rereads, Arrive, Day,
       Corrected, EventsOf

LEMMA StreamAppendTable ==
    ASSUME BackfillAssumption, TableInv, NEW r \in Rows, StreamAppend(r)
    PROVE  TableInv'
BY BackfillAssumption
   DEF TableInv, TableTypeOK, RewrittenDays, Rereads, StreamAppend, Day,
       Corrected, EventsOf

LEMMA BeginTable ==
    ASSUME BackfillAssumption, TableInv, NEW d \in OrderDates, BeginAttempt(d)
    PROVE  TableInv'
BY BackfillAssumption
   DEF TableInv, TableTypeOK, RewrittenDays, Rereads, BeginAttempt,
       ApplyCorrections, Day, Corrected, EventsOf

(* What leaves tables and sources alone, and at most ends the attempt.     *)
LEMMA NoWriteTable ==
    ASSUME BackfillAssumption, TableInv,
           StreamRefused \/ BackfillRefused \/ FailAttempt \/ UNCHANGED table_vars
    PROVE  TableInv'
BY BackfillAssumption
   DEF TableInv, TableTypeOK, RewrittenDays, Rereads, StreamRefused,
       BackfillRefused, FailAttempt, table_vars, Day, Corrected, EventsOf

(* What dedupe_full keeps of a set of rows is that set, corrected.         *)
LEMMA DedupeCorrects ==
    ASSUME BackfillAssumption, NEW rows \in SUBSET Rows, NEW s \in DedupeFull(rows)
    PROVE  Corrected(s, rows)
<1>1. s \subseteq rows
  BY DEF DedupeFull
<1>2. EventsOf(s) = EventsOf(rows)
  BY DEF DedupeFull, EventsOf
<1>3. ASSUME NEW k \in s, NEW r \in rows, EventOf[k] = EventOf[r]
      PROVE  IngestTime[r] <= IngestTime[k] /\ (r \in s => r = k)
  <2>1. PICK l \in s : EventOf[l] = EventOf[r] /\ IngestTime[l] >= IngestTime[r]
    BY DEF DedupeFull
  <2>2. l = k
    BY <1>3, <2>1 DEF DedupeFull
  <2>3. IngestTime[r] \in Nat /\ IngestTime[l] \in Nat
    BY <1>1, <2>1, BackfillAssumption
  <2>4. r \in s => r = k
    BY <1>3 DEF DedupeFull
  <2> QED
    BY <2>1, <2>2, <2>3, <2>4
<1> QED
  BY <1>1, <1>2, <1>3 DEF Corrected

(* The rows of a date after it was overwritten, and those of the others.   *)
LEMMA OverwriteIsSurgical ==
    ASSUME BackfillAssumption, TableInv, job # NoOrderDate,
           NEW rows \in DedupeFull(read), layout # "plain"
    PROVE  /\ Day(OverwriteDate(job, rows), job) = rows
           /\ \A r : DateOf[r] # job => (r \in OverwriteDate(job, rows) <=> r \in silver)
<1>1. read \subseteq Day(bronze, job) /\ job \in OrderDates /\ rows \subseteq read
  BY DEF TableInv, TableTypeOK, DedupeFull
<1>2. CASE rows = {}
  <2>1. read = {}
    BY <1>2 DEF DedupeFull
  <2>2. source[job] = {}
    BY <2>1 DEF TableInv, Rereads
  <2>3. Day(silver, job) = {}
    <3>1. CASE layout = "dated"
      BY <1>1, <2>2, <3>1 DEF TableInv, RewrittenDays, Corrected
    <3>2. CASE layout = "none"
      BY <3>2 DEF TableInv, Rereads, Day
    <3> QED
      BY <3>1, <3>2 DEF TableInv, TableTypeOK
  <2> QED
    BY <1>2, <2>3 DEF OverwriteDate
<1>3. CASE rows # {}
  BY <1>1, <1>3 DEF OverwriteDate, Day
<1> QED
  BY <1>2, <1>3

LEMMA WriteTable ==
    ASSUME BackfillAssumption, TableInv, WritePartitionOverwrite
    PROVE  TableInv'
<1>1. PICK rows \in DedupeFull(read) : silver' = OverwriteDate(job, rows)
  BY DEF WritePartitionOverwrite
<1>2. /\ job \in OrderDates /\ read \subseteq Day(bronze, job) /\ read \subseteq Rows
      /\ layout # "plain" /\ job # NoOrderDate
  BY BackfillAssumption DEF TableInv, TableTypeOK, WritePartitionOverwrite, Day
<1>3. Corrected(rows, read)
  BY <1>2, DedupeCorrects
<1>4. /\ Day(silver', job) = rows
      /\ \A r : DateOf[r] # job => (r \in silver' <=> r \in silver)
  BY <1>1, <1>2, OverwriteIsSurgical
<1>5. silver' \subseteq bronze
  BY <1>1, <1>2, <1>3 DEF OverwriteDate, TableInv, TableTypeOK, Corrected, Day
<1>6. TableTypeOK'
  BY <1>2, <1>5 DEF TableInv, TableTypeOK, WritePartitionOverwrite
<1>7. \A d \in OrderDates : source'[d] = IF d = job THEN read ELSE source[d]
  BY <1>2 DEF TableInv, TableTypeOK, WritePartitionOverwrite
<1>8. Rereads'
  BY <1>2, <1>7 DEF TableInv, Rereads, WritePartitionOverwrite, Day
<1>9. ASSUME NEW d \in OrderDates PROVE Corrected(Day(silver, d), source[d])'
  <2>1. CASE d = job
    BY <1>3, <1>4, <1>7, <2>1 DEF Corrected, Day, EventsOf
  <2>2. CASE d # job
    <3>1. Day(silver', d) = Day(silver, d)
      BY <1>4, <2>2 DEF Day
    <3>2. CASE layout = "dated"
      BY <1>7, <2>2, <3>1, <3>2
         DEF TableInv, RewrittenDays, Corrected, Day, EventsOf
    <3>3. CASE layout = "none"
      <4>1. Day(silver, d) = {} /\ source[d] = {}
        BY <3>3 DEF TableInv, RewrittenDays, Rereads, Day
      <4> QED
        BY <1>7, <2>2, <3>1, <4>1 DEF Corrected, Day, EventsOf
    <3> QED
      BY <1>2, <3>2, <3>3 DEF TableInv, TableTypeOK
  <2> QED
    BY <2>1, <2>2
<1>10. layout' = "dated"
  BY DEF WritePartitionOverwrite
<1> QED
  BY <1>6, <1>8, <1>9, <1>10 DEF TableInv, RewrittenDays

THEOREM TableInvariance == TableSpec => []TableInv
<1>1. TableInit => TableInv
  BY InitTable, BackfillAssumption
<1>2. TableInv /\ [TableNext]_table_vars => TableInv'
  <2> SUFFICES ASSUME TableInv, [TableNext]_table_vars PROVE TableInv'
    OBVIOUS
  <2>1. CASE \E r \in Rows : Arrive(r) \/ StreamAppend(r)
    BY <2>1, ArriveTable, StreamAppendTable, BackfillAssumption
  <2>2. CASE \E d \in OrderDates : BeginAttempt(d)
    BY <2>2, BeginTable, BackfillAssumption
  <2>3. CASE WritePartitionOverwrite
    BY <2>3, WriteTable, BackfillAssumption
  <2>4. CASE StreamRefused \/ BackfillRefused \/ FailAttempt \/ UNCHANGED table_vars
    BY <2>4, NoWriteTable, BackfillAssumption
  <2> QED
    BY <2>1, <2>2, <2>3, <2>4 DEF TableNext
<1> QED
  BY <1>1, <1>2, PTL DEF TableSpec

-----------------------------------------------------------------------------
(* State and read are well typed; an attempt reads only rows of its date   *)
(* (nightly_backfill.py, 53-66).                                           *)
THEOREM TableTypeCorrect == TableSpec => []TableTypeOK
BY TableInvariance, PTL DEF TableInv

(* A table the backfill writes holds, for every date, the newest copy of   *)
(* each event the last overwrite of that date had read, and nothing else,  *)
(* for any arrivals, attempts and ties (nightly_backfill.py, 29-83).       *)
THEOREM DaysAreRewritten == TableSpec => []RewrittenDays
BY TableInvariance, PTL DEF TableInv

(* No append and no overwrite takes an event from silver_orders            *)
(* (nightly_backfill.py, 70-75).                                           *)
THEOREM NothingIsLost == TableSpec => NoEventLost
<1>1. TableInv /\ [TableNext]_table_vars =>
        [EventsOf(silver) \subseteq EventsOf(silver')]_table_vars
  <2> SUFFICES ASSUME TableInv, TableNext
               PROVE  EventsOf(silver) \subseteq EventsOf(silver')
    OBVIOUS
  <2>1. CASE WritePartitionOverwrite
    <3>1. PICK rows \in DedupeFull(read) : silver' = OverwriteDate(job, rows)
      BY <2>1 DEF WritePartitionOverwrite
    <3>2. /\ job \in OrderDates /\ read \subseteq Day(bronze, job) /\ read \subseteq Rows
          /\ layout # "plain" /\ job # NoOrderDate
      BY <2>1, BackfillAssumption
         DEF TableInv, TableTypeOK, WritePartitionOverwrite, Day
    <3>3. EventsOf(rows) = EventsOf(read)
      BY <3>2, DedupeCorrects, BackfillAssumption DEF Corrected
    <3>4. /\ Day(silver', job) = rows
          /\ \A r : DateOf[r] # job => (r \in silver' <=> r \in silver)
      BY <3>1, <3>2, OverwriteIsSurgical, BackfillAssumption
    <3>5. EventsOf(Day(silver, job)) \subseteq EventsOf(read)
      <4>1. CASE layout = "dated"
        <5>1. EventsOf(Day(silver, job)) = EventsOf(source[job])
          BY <3>2, <4>1 DEF TableInv, RewrittenDays, Corrected
        <5>2. source[job] \subseteq read
          BY <3>2 DEF TableInv, Rereads
        <5> QED
          BY <5>1, <5>2 DEF EventsOf
      <4>2. CASE layout = "none"
        BY <4>2 DEF TableInv, Rereads, Day, EventsOf
      <4> QED
        BY <3>2, <4>1, <4>2 DEF TableInv, TableTypeOK
    <3>6. ASSUME NEW r \in silver PROVE EventOf[r] \in EventsOf(silver')
      <4>1. CASE DateOf[r] # job
        BY <3>4, <3>6, <4>1 DEF EventsOf
      <4>2. CASE DateOf[r] = job
        <5>1. EventOf[r] \in EventsOf(rows)
          BY <3>3, <3>5, <3>6, <4>2 DEF EventsOf, Day
        <5>2. rows \subseteq silver'
          BY <3>4 DEF Day
        <5> QED
          BY <5>1, <5>2 DEF EventsOf
      <4> QED
        BY <4>1, <4>2
    <3> QED
      BY <3>6 DEF EventsOf
  <2>2. CASE silver \subseteq silver'
    BY <2>2 DEF EventsOf
  <2>3. TableNext => WritePartitionOverwrite \/ silver \subseteq silver'
    BY DEF TableNext, Arrive, StreamAppend, StreamRefused, BeginAttempt,
           BackfillRefused, FailAttempt
  <2> QED
    BY <2>1, <2>2, <2>3
<1> QED
  BY <1>1, TableInvariance, PTL DEF TableSpec, NoEventLost

-----------------------------------------------------------------------------
(* Orders of the day itself and later ones make no difference to what was  *)
(* sold on an earlier day.                                                 *)

LEMMA EarlierDemand ==
    ASSUME FeatureAssumption, NEW orders, NEW d \in OrderDates, NEW k,
           NEW e \in OrderDates, e < d
    PROVE  /\ DemandRows(Before(orders, d), e) = DemandRows(orders, e)
           /\ DailyUnits(Before(orders, d), e, k) = DailyUnits(orders, e, k)
<1>1. Day(Before(orders, d), e) = Day(orders, e)
  BY DEF Day, Before
<1> QED
  BY <1>1 DEF DemandRows, DailyUnits

LEMMA EarlierSales ==
    ASSUME FeatureAssumption, NEW orders, NEW d \in OrderDates, NEW k
    PROVE  SoldBefore(Before(orders, d), d, k) = SoldBefore(orders, d, k)
BY EarlierDemand DEF SoldBefore, SoldOn

LEMMA SameLag ==
    ASSUME FeatureAssumption, NEW orders, NEW d \in OrderDates, NEW k, NEW n
    PROVE  Lag(Before(orders, d), d, k, n) = Lag(orders, d, k, n)
<1> DEFINE before == SoldBefore(orders, d, k)
           nth    == NthBack(before, n)
<1>1. SoldBefore(Before(orders, d), d, k) = before
  BY EarlierSales
<1>2. /\ Lag(orders, d, k, n)
           = IF nth = {} THEN Null ELSE DailyUnits(orders, CHOOSE e \in nth : TRUE, k)
      /\ Lag(Before(orders, d), d, k, n)
           = IF nth = {} THEN Null ELSE DailyUnits(Before(orders, d), CHOOSE e \in nth : TRUE, k)
  BY <1>1 DEF Lag
<1>3. nth \subseteq before
  BY DEF NthBack
<1>4. before \subseteq {e \in OrderDates : e < d}
  BY DEF SoldBefore, SoldOn
<1> HIDE DEF nth, before
<1>5. CASE nth = {}
  BY <1>2, <1>5
<1>6. CASE nth # {}
  <2>1. (CHOOSE e \in nth : TRUE) \in nth
    BY <1>6
  <2>2. PICK last : last = CHOOSE e \in nth : TRUE
    OBVIOUS
  <2>3. last \in OrderDates /\ last < d
    BY <1>3, <1>4, <2>1, <2>2
  <2>4. DailyUnits(Before(orders, d), last, k) = DailyUnits(orders, last, k)
    BY <2>3, EarlierDemand
  <2> QED
    BY <1>2, <1>6, <2>2, <2>4
<1> QED
  BY <1>5, <1>6

LEMMA SameSeries ==
    ASSUME FeatureAssumption, NEW orders, NEW d \in OrderDates, NEW k, NEW n
    PROVE  Series(Before(orders, d), DaysBefore(Before(orders, d), d, k, n), k)
             = Series(orders, DaysBefore(orders, d, k, n), k)
<1>1. ASSUME NEW o PROVE DaysBefore(o, d, k, n) = {e \in SoldBefore(o, d, k) : d - n <= e}
  <2>1. \A e \in SoldOn(o, k) : e \in Nat /\ d \in Nat
    BY FeatureAssumption DEF SoldOn, FeatureAssumption
  <2>2. \A e \in SoldOn(o, k) : e <= d - 1 <=> e < d
    BY <2>1
  <2> QED
    BY <2>2 DEF DaysBefore, SoldBefore
<1>2. DaysBefore(Before(orders, d), d, k, n) = DaysBefore(orders, d, k, n)
  BY <1>1, EarlierSales
<1>3. \A e \in DaysBefore(orders, d, k, n) : e \in OrderDates /\ e < d
  BY <1>1 DEF SoldBefore, SoldOn
<1>4. \A e \in DaysBefore(orders, d, k, n) :
         DailyUnits(Before(orders, d), e, k) = DailyUnits(orders, e, k)
  BY <1>3, EarlierDemand
<1> QED
  BY <1>2, <1>4 DEF Series

LEMMA SameRow ==
    ASSUME FeatureAssumption, NEW orders, NEW d \in OrderDates, NEW k
    PROVE  FeatureRow(Before(orders, d), d, k) = FeatureRow(orders, d, k)
BY SameLag, SameSeries DEF FeatureRow

-----------------------------------------------------------------------------
(* A feature of date D changes only to what the orders of dates before D   *)
(* alone yield (feature_table.py, 15-20).                                  *)
THEOREM NoLeakage == FeatureSpec => PointInTime
<1>1. [FeatureNext]_<<table_vars, features>> =>
        [\A d \in OrderDates, k \in Pairs : features'[d][k] \notin {features[d][k], Null} =>
            features'[d][k] = FeatureRow(Before(silver, d), d, k)]_features
  <2> SUFFICES ASSUME FeatureNext, features' # features, NEW d \in OrderDates, NEW k \in Pairs,
                      features'[d][k] \notin {features[d][k], Null}
               PROVE  features'[d][k] = FeatureRow(Before(silver, d), d, k)
    OBVIOUS
  <2> DEFINE rows == AddLagFeatures(silver, d)
  <2>1. features'[d] = IF rows = NoRows THEN features[d] ELSE rows
    BY DEF FeatureNext, Rebuild
  <2>2. features'[d][k] = rows[k]
    BY <2>1
  <2>3. rows[k] = IF d \in SoldOn(silver, k) THEN FeatureRow(silver, d, k) ELSE Null
    BY DEF AddLagFeatures
  <2> QED
    BY <2>2, <2>3, SameRow, FeatureAssumption
<1> QED
  BY <1>1, PTL DEF FeatureSpec, PointInTime

-----------------------------------------------------------------------------
(* Null features.  The tables are finite, as rows arrive one by one, so    *)
(* sums are numbers and a set of days with sales has a last one.           *)

FiniteBronze == IsFiniteSet(bronze)

(* The operators that FeatureTable takes from the library are those above. *)
LEMMA SameAggregates ==
    /\ \A S : Cardinality(S) = Cardinality(S)
    /\ \A S : Max(S) = Max(S)
    /\ \A f : SumFunction(f) = SumFunctionOnSet(f, DOMAIN f)
<1>1. \A S : Cardinality(S) = Cardinality(S)
  BY DEF Cardinality, Cardinality
<1>2. \A S : Max(S) = Max(S)
  BY DEF Max, Max
<1>3. \A f, S : SumFunctionOnSet(f, S) = SumFunctionOnSet(f, S)
  BY DEF SumFunctionOnSet, FoldFunctionOnSet, MapThenFoldSet,
         SumFunctionOnSet, FoldFunctionOnSet, MapThenFoldSet
<1>4. \A f : SumFunction(f) = SumFunctionOnSet(f, DOMAIN f)
  BY <1>3 DEF SumFunction
<1> QED
  BY <1>1, <1>2, <1>4

LEMMA FeaturesOnTable == FeatureSpec => TableSpec
<1>1. FeatureInit => TableInit
  BY DEF FeatureInit
<1>2. [FeatureNext]_<<table_vars, features>> => [TableNext]_table_vars
  BY DEF FeatureNext, Rebuild
<1> QED
  BY <1>1, <1>2, PTL DEF FeatureSpec, TableSpec

LEMMA BronzeIsFinite == TableSpec => []FiniteBronze
<1>1. TableInit => FiniteBronze
  BY FS_EmptySet DEF TableInit, FiniteBronze
<1>2. FiniteBronze /\ [TableNext]_table_vars => FiniteBronze'
  <2> SUFFICES ASSUME FiniteBronze, [TableNext]_table_vars PROVE FiniteBronze'
    OBVIOUS
  <2>1. ASSUME NEW r \in Rows, Arrive(r) PROVE FiniteBronze'
    <3>1. bronze' = bronze \cup {r}
      BY <2>1 DEF Arrive
    <3> QED
      BY <3>1, FS_AddElement DEF FiniteBronze
  <2>2. CASE UNCHANGED bronze
    BY <2>2 DEF FiniteBronze
  <2>3. UNCHANGED bronze \/ \E r \in Rows : Arrive(r)
    BY DEF TableNext, StreamAppend, StreamRefused, BeginAttempt,
           WritePartitionOverwrite, BackfillRefused, FailAttempt, table_vars
  <2> QED
    BY <2>1, <2>2, <2>3
<1> QED
  BY <1>1, <1>2, PTL DEF TableSpec

LEMMA UnitsAreNumbers ==
    ASSUME FeatureAssumption, NEW orders \in SUBSET Rows, IsFiniteSet(orders),
           NEW e, NEW k \in Pairs
    PROVE  DailyUnits(orders, e, k) \in Int
<1> DEFINE rows == LinesOf(k, DemandRows(orders, e))
           f    == [r \in rows |-> Units[r][k]]
<1>1. rows \subseteq orders /\ rows \subseteq Rows
  BY DEF LinesOf, DemandRows, Day
<1>2. IsFiniteSet(rows)
  BY <1>1, FS_Subset
<1>3. \A r \in rows : f[r] \in Int
  BY <1>1 DEF FeatureAssumption, LinesOf
<1>4. DailyUnits(orders, e, k) = SumFunctionOnSet(f, rows)
  <2>1. DOMAIN f = rows
    OBVIOUS
  <2>2. DailyUnits(orders, e, k) = SumFunction(f)
    BY DEF DailyUnits, UnitsIn
  <2> HIDE DEF f, rows
  <2> QED
    BY <2>1, <2>2, SameAggregates
<1> HIDE DEF rows, f
<1> QED
  BY <1>2, <1>3, <1>4, SumInt

LEMMA DaysAreFinite ==
    ASSUME FeatureAssumption, NEW d \in OrderDates, NEW days \in SUBSET OrderDates,
           \A e \in days : e < d
    PROVE  IsFiniteSet(days) /\ days \subseteq Nat
<1>1. d \in Nat /\ days \subseteq Nat
  BY DEF FeatureAssumption
<1>2. IsFiniteSet(0 .. d - 1)
  BY <1>1, FS_Interval
<1>3. days \subseteq 0 .. d - 1
  BY <1>1
<1> QED
  BY <1>1, <1>2, <1>3, FS_Subset

(* There is a day before, and its units are known, if there is any.        *)
LEMMA LagNull ==
    ASSUME FeatureAssumption, NEW orders \in SUBSET Rows, IsFiniteSet(orders),
           NEW d \in OrderDates, NEW k \in Pairs
    PROVE  Lag(orders, d, k, 1) = Null <=> SoldBefore(orders, d, k) = {}
<1> DEFINE days == SoldBefore(orders, d, k)
           nth  == NthBack(days, 1)
<1>1. Lag(orders, d, k, 1)
        = IF nth = {} THEN Null ELSE DailyUnits(orders, CHOOSE e \in nth : TRUE, k)
  BY DEF Lag
<1>2. nth = {e \in days : Cardinality({f \in days : f >= e}) = 1}
  BY SameAggregates DEF NthBack
<1>3. days \subseteq OrderDates /\ \A e \in days : e < d
  BY DEF SoldBefore, SoldOn
<1> HIDE DEF days, nth
<1>4. IsFiniteSet(days) /\ days \subseteq Nat
  BY <1>3, DaysAreFinite
<1>5. ASSUME days # {} PROVE nth # {}
  <2>1. days \in SUBSET Int
    BY <1>4
  <2>2. Max(days) \in days /\ \A e \in days : e <= Max(days)
    BY <1>4, <1>5, <2>1, MaxOfInts
  <2> DEFINE last == Max(days)
  <2> HIDE DEF last
  <2>3. {f \in days : f >= last} = {last}
    <3>1. last \in days /\ \A f \in days : f \in Int /\ f <= last
      BY <1>4, <2>2 DEF last
    <3>2. \A f \in days : f >= last => f = last
      BY <3>1
    <3>3. last >= last
      BY <3>1
    <3> QED
      BY <3>1, <3>2, <3>3
  <2>4. Cardinality({last}) = 1
    BY FS_Singleton
  <2> QED
    BY <1>2, <2>2, <2>3, <2>4 DEF last
<1>6. \A e : DailyUnits(orders, e, k) # Null
  BY UnitsAreNumbers DEF FeatureAssumption
<1> QED
  BY <1>1, <1>2, <1>5, <1>6 DEF days

(* An aggregate over days is null if there are none, and then only.        *)
LEMMA AggregateNull ==
    ASSUME FeatureAssumption, NEW series, IsFiniteSet(DOMAIN series),
           \A e \in DOMAIN series : series[e] \in Int
    PROVE  /\ Average(series) = Null <=> DOMAIN series = {}
           /\ DOMAIN series # {} => Average(series) \in Int \X Int
           /\ Largest(series) = Null <=> DOMAIN series = {}
<1> DEFINE days   == DOMAIN series
           values == {series[e] : e \in days}
<1>1. Average(series) = IF days = {} THEN Null
                              ELSE <<SumFunctionOnSet(series, days), Cardinality(days)>>
  BY SameAggregates DEF Average
<1>2. Largest(series) = IF days = {} THEN Null ELSE Max(values)
  BY SameAggregates DEF Largest
<1>3. values \in SUBSET Int /\ (days # {} => values # {})
  OBVIOUS
<1>4. IsFiniteSet(values)
  <2> DEFINE f == [e \in days |-> series[e]]
  <2>1. f \in Surjection(days, values)
    BY DEF Surjection
  <2> HIDE DEF f, values
  <2> QED
    BY <2>1, FS_Surjection
<1> HIDE DEF values
<1>5. SumFunctionOnSet(series, days) \in Int /\ Cardinality(days) \in Int
  BY SumInt, FS_CardinalityType
<1> HIDE DEF days
<1>6. days # {} => Max(values) \in Int
  BY <1>3, <1>4, MaxOfInts
<1>7. days # {} => Average(series) \in Int \X Int
  BY <1>1, <1>5
<1>8. Null \notin Int /\ Null \notin Int \X Int
  BY DEF FeatureAssumption
<1>9. Average(series) = Null <=> days = {}
  BY <1>1, <1>7, <1>8
<1>10. Largest(series) = Null <=> days = {}
  BY <1>2, <1>6, <1>8
<1> QED
  BY <1>7, <1>9, <1>10 DEF days

LEMMA SeriesOfDays ==
    ASSUME FeatureAssumption, NEW orders \in SUBSET Rows, IsFiniteSet(orders),
           NEW d \in OrderDates, NEW k \in Pairs, NEW days \in SUBSET OrderDates,
           \A e \in days : e < d
    PROVE  /\ DOMAIN Series(orders, days, k) = days
           /\ IsFiniteSet(days)
           /\ \A e \in days : Series(orders, days, k)[e] \in Int
BY UnitsAreNumbers, DaysAreFinite DEF Series

LEMMA WindowNull ==
    ASSUME FeatureAssumption, NEW orders \in SUBSET Rows, IsFiniteSet(orders),
           NEW d \in OrderDates, NEW k \in Pairs, NEW days \in SUBSET OrderDates,
           \A e \in days : e < d
    PROVE  LET series == Series(orders, days, k)
           IN  /\ Average(series) = Null <=> days = {}
               /\ days # {} => Average(series) \in Int \X Int
               /\ Largest(series) = Null <=> days = {}
<1> DEFINE series == Series(orders, days, k)
<1>1. DOMAIN series = days /\ IsFiniteSet(days) /\ \A e \in days : series[e] \in Int
  BY SeriesOfDays
<1> HIDE DEF series
<1>2. IsFiniteSet(DOMAIN series) /\ \A e \in DOMAIN series : series[e] \in Int
  BY <1>1
<1>3. /\ Average(series) = Null <=> DOMAIN series = {}
      /\ DOMAIN series # {} => Average(series) \in Int \X Int
      /\ Largest(series) = Null <=> DOMAIN series = {}
  BY <1>2, AggregateNull
<1> QED
  BY <1>1, <1>3 DEF series

(* The days of a window are those on which a known order falls.            *)
LEMMA DaysAreKnown ==
    ASSUME FeatureAssumption, NEW d \in OrderDates, NEW k \in Pairs, NEW n \in Nat
    PROVE  LET days == DaysBefore(silver, d, k, n)
           IN  /\ days \subseteq OrderDates /\ \A e \in days : e < d
               /\ days = {} <=> ~Known(d, k, d - n)
<1> DEFINE days == DaysBefore(silver, d, k, n)
<1>1. d \in Nat /\ OrderDates \subseteq Nat
  BY DEF FeatureAssumption
<1>2. \A e : e \in days <=> /\ e \in OrderDates /\ d - n <= e /\ e <= d - 1
                            /\ \E r \in silver \ Cancelled : DateOf[r] = e /\ Units[r][k] # Null
  BY DEF DaysBefore, SoldOn, LinesOf, DemandRows, Day
<1>3. \A e \in OrderDates : e <= d - 1 <=> e < d
  BY <1>1
<1>4. Known(d, k, d - n) <=>
        \E r \in silver \ Cancelled : /\ DateOf[r] \in OrderDates
                                      /\ d - n <= DateOf[r] /\ DateOf[r] < d /\ Units[r][k] # Null
  BY DEF Known
<1> HIDE DEF days
<1> QED
  BY <1>2, <1>3, <1>4 DEF days

LEMMA SoldBeforeKnown ==
    ASSUME FeatureAssumption, NEW d \in OrderDates, NEW k \in Pairs
    PROVE  SoldBefore(silver, d, k) = {} <=> ~Known(d, k, 0)
<1>1. \A e \in OrderDates : 0 <= e
  <2>1. OrderDates \subseteq Nat
    BY DEF FeatureAssumption
  <2>2. \A e \in Nat : 0 <= e
    OBVIOUS
  <2> QED
    BY <2>1, <2>2
<1> QED
  BY <1>1 DEF SoldBefore, SoldOn, LinesOf, DemandRows, Day, Known

(* What a feature does not know is null, and nothing else is: for any      *)
(* orders, dates and pairs, and any window lengths of which one is at      *)
(* least as long as the other (feature_table.py, 21-24 and 63-99).         *)
THEOREM NullsAreUnknown == FeatureSpec => NullIsUnknown
<1>1. TableInv /\ FiniteBronze /\ [FeatureNext]_<<table_vars, features>> =>
        [\A d \in OrderDates, k \in Pairs : features'[d][k] \notin {features[d][k], Null} =>
            LET row == features'[d][k] IN
            /\ row.lag_1d = Null  <=> ~Known(d, k, 0)
            /\ row.avg_7d = Null  <=> ~Known(d, k, d - Week)
            /\ row.max_7d = Null  <=> row.avg_7d = Null
            /\ row.avg_14d = Null <=> ~Known(d, k, d - Fortnight)
            /\ row.trend_7d = Null <=> row.avg_7d = Null \/ row.avg_14d[1] = 0]_features
  <2> SUFFICES ASSUME TableInv, FiniteBronze, FeatureNext, features' # features,
                      NEW d \in OrderDates, NEW k \in Pairs,
                      features'[d][k] \notin {features[d][k], Null}
               PROVE  LET row == features'[d][k] IN
                      /\ row.lag_1d = Null  <=> ~Known(d, k, 0)
                      /\ row.avg_7d = Null  <=> ~Known(d, k, d - Week)
                      /\ row.max_7d = Null  <=> row.avg_7d = Null
                      /\ row.avg_14d = Null <=> ~Known(d, k, d - Fortnight)
                      /\ row.trend_7d = Null <=> row.avg_7d = Null \/ row.avg_14d[1] = 0
    OBVIOUS
  <2> DEFINE row   == features'[d][k]
             week  == DaysBefore(silver, d, k, Week)
             fort  == DaysBefore(silver, d, k, Fortnight)
             avg   == Average(Series(silver, week, k))
             base  == Average(Series(silver, fort, k))
             large == Largest(Series(silver, week, k))
  <2>1. silver \in SUBSET Rows /\ IsFiniteSet(silver)
    BY FS_Subset DEF TableInv, TableTypeOK, FiniteBronze
  <2>2. Week \in Nat /\ Fortnight \in Nat /\ Week <= Fortnight /\ d \in Nat
        /\ Null \notin Int \X Int /\ OrderDates \subseteq Nat
    BY FeatureAssumption DEF FeatureAssumption
  <2>3. row = FeatureRow(silver, d, k)
    <3> DEFINE rows == AddLagFeatures(silver, d)
    <3>1. features'[d] = IF rows = NoRows THEN features[d] ELSE rows
      BY DEF FeatureNext, Rebuild
    <3>2. rows[k] = IF d \in SoldOn(silver, k) THEN FeatureRow(silver, d, k) ELSE Null
      BY DEF AddLagFeatures
    <3> QED
      BY <3>1, <3>2
  <2>4. /\ row.lag_1d = Lag(silver, d, k, 1) /\ row.avg_7d = avg /\ row.max_7d = large
        /\ row.avg_14d = base
        /\ row.trend_7d = IF avg = Null \/ base = Null \/ base[1] = 0 THEN Null
                          ELSE <<avg[1] * base[2], avg[2] * base[1]>>
    BY <2>3 DEF FeatureRow
  <2>5. /\ week \in SUBSET OrderDates /\ \A e \in week : e < d
        /\ week = {} <=> ~Known(d, k, d - Week)
    BY <2>2, DaysAreKnown, FeatureAssumption
  <2>6. /\ fort \in SUBSET OrderDates /\ \A e \in fort : e < d
        /\ fort = {} <=> ~Known(d, k, d - Fortnight)
    BY <2>2, DaysAreKnown, FeatureAssumption
  <2>7. week \subseteq fort
    <3>1. \A e \in Nat : d - Week <= e => d - Fortnight <= e
      BY <2>2
    <3> QED
      BY <2>2, <2>5, <3>1 DEF DaysBefore
  <2> HIDE DEF row, week, fort
  <2>8. /\ avg = Null <=> week = {}
        /\ week # {} => avg \in Int \X Int
        /\ large = Null <=> week = {}
    BY <2>1, <2>5, WindowNull, FeatureAssumption
  <2>9. /\ base = Null <=> fort = {}
        /\ fort # {} => base \in Int \X Int
    BY <2>1, <2>6, WindowNull, FeatureAssumption
  <2>10. row.lag_1d = Null <=> ~Known(d, k, 0)
    BY <2>1, <2>4, LagNull, SoldBeforeKnown, FeatureAssumption
  <2> HIDE DEF avg, base, large
  <2>11. row.trend_7d = Null <=> avg = Null \/ base[1] = 0
    <3>1. CASE avg = Null
      BY <2>4, <3>1
    <3>2. CASE avg # Null
      <4>1. avg \in Int \X Int /\ base \in Int \X Int /\ base # Null
        BY <2>7, <2>8, <2>9, <3>2
      <4>2. <<avg[1] * base[2], avg[2] * base[1]>> \in Int \X Int
        BY <4>1
      <4> QED
        BY <2>2, <2>4, <3>2, <4>1, <4>2
    <3> QED
      BY <3>1, <3>2
  <2>12. /\ row.lag_1d = Null  <=> ~Known(d, k, 0)
         /\ row.avg_7d = Null  <=> ~Known(d, k, d - Week)
         /\ row.max_7d = Null  <=> row.avg_7d = Null
         /\ row.avg_14d = Null <=> ~Known(d, k, d - Fortnight)
         /\ row.trend_7d = Null <=> row.avg_7d = Null \/ row.avg_14d[1] = 0
    BY <2>4, <2>5, <2>6, <2>8, <2>9, <2>10, <2>11
  <2> QED
    BY <2>12 DEF row
<1> QED
  BY <1>1, FeaturesOnTable, BronzeIsFinite, TableInvariance, PTL
     DEF FeatureSpec, NullIsUnknown
=============================================================================
