---------------------------- MODULE BronzeIngest ----------------------------
(***************************************************************************)
(* streaming/bronze_ingest.py: one Structured Streaming query per topic,   *)
(* Kafka -> Delta, all in one driver process.  A query's life is a loop of *)
(* micro-batches: the offset range is written to the checkpoint, the range *)
(* is appended to the Delta table together with a (query id, batch id)     *)
(* marker, and the batch is marked committed in the checkpoint.  Three     *)
(* writes, none of them atomic with another.                               *)
(*                                                                         *)
(* Modelled: crashes of the driver between any two of the writes, restart  *)
(* from the checkpoint, broker retention, failOnDataLoss, the rate limit,  *)
(* an operator who deletes a checkpoint.  Left out: the parsing of a       *)
(* record (parse_topic keeps every record, so a record is its offset).     *)
(***************************************************************************)
EXTENDS Integers, FiniteSets, Functions

CONSTANTS Topics,                \* keys of TOPIC_SCHEMAS
          Partitions,            \* Kafka partitions of each topic
          MaxOffset,             \* bound: offsets of one partition
          Quota,                 \* bound: records published to each partition
          MaxOffsetsPerTrigger,  \* 50000 in the code
          MaxRuns                \* bound: checkpoints a topic may ever have

ASSUME BronzeAssumption == /\ IsFiniteSet(Partitions) /\ MaxOffset \in Nat
                           /\ Quota \in [Topics -> [Partitions -> 0 .. MaxOffset]]
                           /\ MaxOffsetsPerTrigger \in Nat \ {0}
                           /\ MaxRuns \in Nat \ {0}

VARIABLES
    logEnd, logStart,   \* the broker: next offset, oldest retained offset
    kept,               \* does topic t have a checkpoint directory?
    run,                \* id of the query the checkpoint belongs to, 0: none yet
    batch,              \* last batch id in the checkpoint's offset log, -1: none
    start, end,         \* offset range [start, end) of that batch
    committed,          \* is that batch in the checkpoint's commit log?
    txn,                \* Delta log: last batch id committed for each query id
    copies,             \* Delta table: rows per record
    gap,                \* history: offsets a fresh checkpoint found expired
    up,                 \* is the driver process running?
    phase               \* where each running query is inside its batch

kafka      == <<logEnd, logStart>>
checkpoint == <<kept, run, batch, start, end, committed>>
table      == <<txn, copies>>
vars       == <<kafka, checkpoint, table, gap, up, phase>>

Offsets  == 0 .. MaxOffset
Runs     == 1 .. MaxRuns
BatchIds == {i \in Int : i >= -1}
Phases   == {"idle", "planned", "written"}
Cursors  == [Partitions -> Offsets]

TypeOK == /\ logEnd \in [Topics -> Cursors] /\ logStart \in [Topics -> Cursors]
          /\ kept \in [Topics -> BOOLEAN]
          /\ run \in [Topics -> 0 .. MaxRuns]
          /\ batch \in [Topics -> BatchIds]
          /\ start \in [Topics -> Cursors] /\ end \in [Topics -> Cursors]
          /\ committed \in [Topics -> BOOLEAN]
          /\ txn \in [Topics -> [Runs -> BatchIds]]
          /\ copies \in [Topics -> [Partitions -> [Offsets -> Nat]]]
          /\ gap \in [Topics -> [Partitions -> SUBSET Offsets]]
          /\ up \in BOOLEAN
          /\ phase \in [Topics -> Phases]

Everywhere(x) == [t \in Topics |-> [p \in Partitions |-> x]]

Init == /\ logEnd = Everywhere(0) /\ logStart = Everywhere(0)
        /\ kept = [t \in Topics |-> FALSE]
        /\ run = [t \in Topics |-> 0]
        /\ batch = [t \in Topics |-> -1]
        /\ start = Everywhere(0) /\ end = Everywhere(0)
        /\ committed = [t \in Topics |-> TRUE]
        /\ txn = [t \in Topics |-> [r \in Runs |-> -1]]
        /\ copies = Everywhere([o \in Offsets |-> 0])
        /\ gap = Everywhere({})
        /\ up = FALSE
        /\ phase = [t \in Topics |-> "idle"]

-----------------------------------------------------------------------------
(* The broker.                                                             *)

Publish(t, p) == /\ logEnd[t][p] < Quota[t][p]
                 /\ logEnd' = [logEnd EXCEPT ![t][p] = @ + 1]
                 /\ UNCHANGED <<logStart, checkpoint, table, gap, up, phase>>

(* retention.ms: the oldest record goes, read or not.                      *)
Expire(t, p) == /\ logStart[t][p] < logEnd[t][p]
                /\ logStart' = [logStart EXCEPT ![t][p] = @ + 1]
                /\ UNCHANGED <<logEnd, checkpoint, table, gap, up, phase>>

-----------------------------------------------------------------------------
(* The driver.                                                             *)

Fresh == {t \in Topics : ~kept[t]}

StartOneBefore(t) == [p \in Partitions |-> logStart[t][p] - 1]   \* mutant: off by one
StartAtLatest(t) == logEnd[t]                \* mutant: startingOffsets = "latest"
StartingOffsets(t) == logStart[t]            \* "earliest"

ResumeAfter(t) == "idle"                     \* mutant: the open batch counts as done
Resume(t) == IF t \in Fresh \/ committed[t] THEN "idle" ELSE "planned"

(* ingest(): start every query.  Without a checkpoint a query is a new one *)
(* and reads from startingOffsets = "earliest"; with one, the option is    *)
(* ignored and an uncommitted batch is resumed with its recorded range.    *)
Launch ==
    /\ ~up
    /\ \A t \in Fresh : run[t] < MaxRuns
    /\ up' = TRUE
    /\ kept' = [t \in Topics |-> TRUE]
    /\ run' = [t \in Topics |-> IF t \in Fresh THEN run[t] + 1 ELSE run[t]]
    /\ batch' = [t \in Topics |-> IF t \in Fresh THEN -1 ELSE batch[t]]
    /\ start' = [t \in Topics |-> IF t \in Fresh THEN StartingOffsets(t) ELSE start[t]]
    /\ end' = [t \in Topics |-> IF t \in Fresh THEN StartingOffsets(t) ELSE end[t]]
    /\ committed' = [t \in Topics |-> t \in Fresh \/ committed[t]]
    /\ gap' = [t \in Topics |-> [p \in Partitions |->
                  IF t \in Fresh THEN gap[t][p] \cup {o \in Offsets : o < logStart[t][p]}
                                 ELSE gap[t][p]]]
    /\ phase' = [t \in Topics |-> Resume(t)]
    /\ UNCHANGED <<kafka, table>>

(* The offset a batch that follows `end` aims for in a partition:          *)
(* everything published, or, over maxOffsetsPerTrigger, a share in         *)
(* proportion to the backlog but never less than one record.               *)
Backlog(t) == [p \in Partitions |-> logEnd[t][p] - end[t][p]]

Target(t, p) ==
    LET total == SumFunctionOnSet(Backlog(t), Partitions)
        prorated == (MaxOffsetsPerTrigger * Backlog(t)[p]) \div total
    IN  IF total <= MaxOffsetsPerTrigger THEN logEnd[t][p]
        ELSE end[t][p] + (IF prorated = 0 THEN 1 ELSE prorated)

(* A range never runs backwards nor past the log.                          *)
UncappedEnds(t) == {logEnd[t]}               \* mutant: no maxOffsetsPerTrigger
NextEnds(t) ==
    {e \in Cursors : \A p \in Partitions :
        /\ end[t][p] <= e[p] /\ e[p] <= logEnd[t][p]
        /\ IF Target(t, p) <= logEnd[t][p] THEN e[p] = Target(t, p) ELSE e[p] = logEnd[t][p]}

(* The trigger fires and there is something to read: the range of the next *)
(* batch goes to the offset log before any of it is read.                  *)
PlanBatch(t) ==
    /\ up /\ phase[t] = "idle"
    /\ \E e \in NextEnds(t) \ {end[t]} : /\ start' = [start EXCEPT ![t] = end[t]]
                                         /\ end' = [end EXCEPT ![t] = e]
    /\ batch' = [batch EXCEPT ![t] = @ + 1]
    /\ committed' = [committed EXCEPT ![t] = FALSE]
    /\ phase' = [phase EXCEPT ![t] = "planned"]
    /\ UNCHANGED <<kafka, kept, run, table, gap, up>>

NoFailOnDataLoss(t) == {}                    \* mutant: failOnDataLoss = false
Expired(t) == {p \in Partitions : start[t][p] < end[t][p] /\ start[t][p] < logStart[t][p]}

NotIdempotent(t) == FALSE                    \* mutant: a sink with no marker
AlreadyInTable(t) == txn[t][run[t]] >= batch[t]

(* The records of the batch the broker can still serve.                    *)
Readable(t, p) == {o \in Offsets : /\ start[t][p] <= o /\ o < end[t][p]
                                   /\ logStart[t][p] <= o}

(* The Delta commit: the rows of the range and the (query, batch) marker,  *)
(* atomically.                                                             *)
AppendBatch(t) ==
    /\ up /\ phase[t] = "planned"
    /\ ~AlreadyInTable(t)
    /\ Expired(t) = {}
    /\ copies' = [copies EXCEPT ![t] = [p \in Partitions |-> [o \in Offsets |->
                     IF o \in Readable(t, p) THEN copies[t][p][o] + 1 ELSE copies[t][p][o]]]]
    /\ txn' = [txn EXCEPT ![t][run[t]] = batch[t]]
    /\ phase' = [phase EXCEPT ![t] = "written"]
    /\ UNCHANGED <<kafka, checkpoint, gap, up>>

(* A replayed batch whose marker is in the Delta log is not written again. *)
SkipBatch(t) ==
    /\ up /\ phase[t] = "planned"
    /\ AlreadyInTable(t)
    /\ phase' = [phase EXCEPT ![t] = "written"]
    /\ UNCHANGED <<kafka, checkpoint, table, gap, up>>

CommitBatch(t) ==
    /\ up /\ phase[t] = "written"
    /\ committed' = [committed EXCEPT ![t] = TRUE]
    /\ phase' = [phase EXCEPT ![t] = "idle"]
    /\ UNCHANGED <<kafka, kept, run, batch, start, end, table, gap, up>>

(* The whole process goes: awaitAnyTermination returns with the first      *)
(* query that fails, main ends, and the other queries end with it.         *)
Die == /\ up
       /\ up' = FALSE
       /\ phase' = [t \in Topics |-> "idle"]
       /\ UNCHANGED <<kafka, checkpoint, table, gap>>

(* failOnDataLoss = true: the range holds an offset the broker dropped.    *)
FailOnDataLoss(t) == /\ phase[t] = "planned"
                     /\ ~AlreadyInTable(t)
                     /\ Expired(t) # {}
                     /\ Die

Crash == Die

(* The recovery of runbooks/consumer_lag_high.md for data loss, or the     *)
(* mistake it warns of: the checkpoint directory is removed.               *)
ResetCheckpoint(t) ==
    /\ ~up /\ kept[t]
    /\ run[t] < MaxRuns
    /\ kept' = [kept EXCEPT ![t] = FALSE]
    /\ UNCHANGED <<kafka, run, batch, start, end, committed, table, gap, up, phase>>

Broker == \E t \in Topics, p \in Partitions : Publish(t, p) \/ Expire(t, p)

Step(t) == PlanBatch(t) \/ AppendBatch(t) \/ SkipBatch(t) \/ CommitBatch(t) \/ FailOnDataLoss(t)

Next == \/ Broker
        \/ Launch
        \/ \E t \in Topics : Step(t) \/ ResetCheckpoint(t)
        \/ Crash

Spec == Init /\ [][Next]_vars

(* The 10-second trigger keeps every query going and a dead job is         *)
(* restarted (runbooks/consumer_lag_high.md, section 3).  The process may  *)
(* be killed any finite number of times; a query that fails on lost data   *)
(* may do so for ever, after every restart.                                *)
LiveSpec == /\ Spec
            /\ WF_vars(Launch)
            /\ \A t \in Topics : WF_vars(Step(t))
            /\ <>[][Crash => \E t \in Topics : FailOnDataLoss(t)]_vars

-----------------------------------------------------------------------------
(* Properties.                                                             *)

(* The first offset bronze does not hold yet, under the current checkpoint *)
Frontier == [t \in Topics |-> IF run[t] > 0 /\ AlreadyInTable(t) THEN end[t] ELSE start[t]]

(* Bronze holds at most one row per record and checkpoint: crashes and     *)
(* replays never duplicate (bronze_ingest.py, 13-19), and a deleted        *)
(* checkpoint costs at most one more copy of what is still retained.       *)
ExactlyOnce == \A t \in Topics, p \in Partitions, o \in Offsets : copies[t][p][o] <= run[t]

(* No record below the frontier is missing unless it was already expired   *)
(* when a checkpoint was started afresh: failOnDataLoss leaves no silent   *)
(* hole (bronze_ingest.py, 149-153).                                       *)
NoSilentLoss == \A t \in Topics, p \in Partitions, o \in Offsets :
                    o < Frontier[t][p] => copies[t][p][o] > 0 \/ o \in gap[t][p]

(* The marker of the running query is the open batch's or the one before,  *)
(* a committed batch is in the table, and ids not yet used left no marker. *)
Bookkeeping(t) ==
    /\ kept[t] => run[t] > 0
    /\ up => kept[t] /\ (phase[t] = "idle" <=> committed[t])
    /\ ~up => phase[t] = "idle"
    /\ \A r \in Runs : r > run[t] => txn[t][r] = -1
    /\ run[t] > 0 => /\ txn[t][run[t]] \in {batch[t] - 1, batch[t]}
                     /\ committed[t] \/ phase[t] = "written" => AlreadyInTable(t)

RangesInOrder(t) ==
    \A p \in Partitions : /\ start[t][p] <= end[t][p] /\ end[t][p] <= logEnd[t][p]
                          /\ logStart[t][p] <= logEnd[t][p]

NothingAhead(t) ==
    \A p \in Partitions, o \in Offsets :
        /\ run[t] > 0 /\ o >= Frontier[t][p] => copies[t][p][o] < run[t]
        /\ run[t] = 0 => copies[t][p][o] = 0 /\ Frontier[t][p] = 0

(* What a restart relies on: the Delta log is never behind the checkpoint  *)
(* by more than the open batch nor ahead of it, ranges follow each other,  *)
(* and past the frontier no record has a row of the current run.           *)
RestartContract == \A t \in Topics : Bookkeeping(t) /\ RangesInOrder(t) /\ NothingAhead(t)

(* A recovering job drains its backlog in bounded batches: a batch exceeds *)
(* maxOffsetsPerTrigger at most by the one record no partition is denied.  *)
BoundedBatch ==
    \A t \in Topics :
        SumFunctionOnSet([p \in Partitions |-> end[t][p] - start[t][p]], Partitions)
            < MaxOffsetsPerTrigger + Cardinality(Partitions)

(* Every published record reaches bronze, unless retention overtakes a     *)
(* query first: one topic's data loss stops every topic's stream.          *)
DataLost == \E t \in Topics, p \in Partitions : Frontier[t][p] < logStart[t][p]

EveryRecordArrives ==
    \A t \in Topics, p \in Partitions : \A o \in 0 .. Quota[t][p] - 1 :
        o < logEnd[t][p] ~> (copies[t][p][o] > 0 \/ DataLost \/ o \in gap[t][p])

(* The bronze layer implements the log of ExactlyOnceLog.                  *)
Log == INSTANCE ExactlyOnceLog WITH cursor <- Frontier
ImplementsLog == Log!Spec
=============================================================================
