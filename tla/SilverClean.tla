----------------------------- MODULE SilverClean -----------------------------
(***************************************************************************)
(* streaming/silver_clean.py for one topic: two queries over the same      *)
(* bronze table, each with its own checkpoint.  The silver query validates *)
(* each micro-batch and deduplicates the clean half within a watermark;    *)
(* the dead-letter query validates the same rows again and keeps the rest. *)
(*                                                                         *)
(* A record is what one row of bronze holds.  The broker or a re-ingestion *)
(* delivers the same record again; a producer run once more with its seed  *)
(* publishes another record of the same event, under the same event_id but *)
(* with another event_time.  The (query, batch) marker that makes the      *)
(* Delta sink idempotent is modelled in BronzeIngest; here a batch is      *)
(* durably planned, sunk or committed.                                     *)
(*                                                                         *)
(* Modelled: arbitrary arrival order and redelivery, arbitrary cuts into   *)
(* micro-batches, the watermark as Spark computes and recovers it, state   *)
(* eviction, batches without data, crashes.  Left out: which predicate     *)
(* rejects a row (SilverValidation), the columns, schema evolution.        *)
(***************************************************************************)
EXTENDS Integers, Sequences, FiniteSets

CONSTANTS Records,         \* the different rows there are
          EventId,         \* event_id of each record
          EventTime,       \* event_time of each record that has a valid one
          Malformed,       \* records the topic's validator rejects
          WatermarkDelay,  \* WATERMARK_DELAY
          MaxRows          \* bound: rows that ever reach bronze

ASSUME SilverAssumption == /\ EventTime \in [Records -> Nat \ {0}]
                           /\ Malformed \subseteq Records
                           /\ WatermarkDelay \in Nat
                           /\ MaxRows \in Nat

VARIABLES
    bronze,            \* the bronze table, rows in commit order
    up,                \* is the driver process running?
    pos, stop,         \* silver query: its open batch reads bronze[pos+1 .. stop]
    stage,             \* what of that batch is durable
    lateMark, mark,    \* its watermarks: to drop late rows, to evict state
    nextMark,          \* the watermark the next batch will get
    ran,               \* has this process run that batch (or skipped it)?
    seen,              \* state store: the record each event_id was first seen in
    silver,            \* rows of the silver table per record
    deadPos, deadStop, deadStage,   \* the dead-letter query's open batch
    dead               \* rows of the dead_letter table per record

dedupQuery == <<pos, stop, stage, lateMark, mark, nextMark, ran, seen, silver>>
deadQuery  == <<deadPos, deadStop, deadStage, dead>>
vars       == <<bronze, up, dedupQuery, deadQuery>>

Stages == {"planned", "sunk", "committed"}

Types  == /\ bronze \in Seq(Records) /\ up \in BOOLEAN
          /\ pos \in Nat /\ stop \in Nat /\ stage \in Stages
          /\ lateMark \in Int /\ mark \in Int /\ nextMark \in Int
          /\ ran \in BOOLEAN
          /\ seen \subseteq Records /\ silver \in [Records -> Nat]
          /\ deadPos \in Nat /\ deadStop \in Nat /\ deadStage \in Stages
          /\ dead \in [Records -> Nat]

(* No batch reads past the end of bronze.                                  *)
Positions == /\ pos <= stop /\ stop <= Len(bronze)
             /\ deadPos <= deadStop /\ deadStop <= Len(bronze)

TypeOK == Types /\ Positions

Init == /\ bronze = <<>> /\ up = FALSE
        /\ pos = 0 /\ stop = 0 /\ stage = "committed"
        /\ lateMark = 0 /\ mark = 0 /\ nextMark = 0
        /\ ran = FALSE
        /\ seen = {} /\ silver = [r \in Records |-> 0]
        /\ deadPos = 0 /\ deadStop = 0 /\ deadStage = "committed"
        /\ dead = [r \in Records |-> 0]

(* Bronze appends a row: an event for the first time, or one more copy.    *)
Arrive(r) == /\ Len(bronze) < MaxRows
             /\ bronze' = Append(bronze, r)
             /\ UNCHANGED <<up, dedupQuery, deadQuery>>

-----------------------------------------------------------------------------
(* clean_topic: validate, then deduplicate what is clean.                  *)

Rows(from, to) == {bronze[i] : i \in (from + 1) .. to}

Unvalidated(rows) == rows                    \* mutant: dedup before validation
Clean(rows) == rows \ Malformed

(* Rows at or below the watermark of the batch before are dropped here.    *)
KeepLate(rows) == rows                       \* mutant: the late filter is gone
NotLate(rows) == {r \in rows : EventTime[r] > lateMark}

(* dropDuplicatesWithinWatermark: of an event_id that is not in the state  *)
(* store one copy passes, whichever the shuffle brings first, and is       *)
(* remembered until WatermarkDelay after its own event_time.               *)
SameEvent(r, s) == EventId[r] = EventId[s]

Unknown(rows) == {r \in NotLate(rows) : \A s \in seen : ~SameEvent(r, s)}
Deduplicate(rows) ==
    {fresh \in SUBSET Unknown(rows) :
        \A r \in Unknown(rows) : \E s \in fresh : {q \in fresh : SameEvent(q, r)} = {s}}

NeverEvict(known) == known                   \* mutant: plain dropDuplicates
Forget(known) == {}                          \* mutant: each batch on its own
Unexpired(known) == {r \in known : EventTime[r] + WatermarkDelay > mark}

(* Watermarks a batch may be followed by: the largest event time seen,     *)
(* less the delay, and never lower than before.                            *)
NoDelay(rows) == {mark} \cup {EventTime[r] : r \in Clean(rows)}   \* mutant
Marks(rows) == {mark} \cup {EventTime[r] - WatermarkDelay : r \in Clean(rows)}

MaxMark(rows) == {m \in Marks(rows) : \A n \in Marks(rows) : n <= m}

-----------------------------------------------------------------------------
(* The silver query: write_silver_stream.                                  *)

Ends == stop .. Len(bronze)

(* A batch is planned when there are rows to read, or state to evict that  *)
(* the process knows of from a batch of its own; the range of the batch    *)
(* and both watermarks go to the offset log.                               *)
Plan == /\ up /\ stage = "committed"
        /\ \E n \in Ends : /\ n > stop \/ (ran /\ nextMark > mark)
                          /\ stop' = n
        /\ pos' = stop
        /\ lateMark' = mark /\ mark' = nextMark
        /\ stage' = "planned" /\ ran' = FALSE
        /\ UNCHANGED <<bronze, up, nextMark, seen, silver, deadQuery>>

(* The batch runs: the state store's new version is saved, then the rows   *)
(* are committed to Delta.  A crash in between leaves a version that the   *)
(* replay, which starts from the old one, writes again.                    *)
Sink == /\ up /\ stage = "planned"
        /\ \E fresh \in Deduplicate(Clean(Rows(pos, stop))) :
               /\ silver' = [r \in Records |-> IF r \in fresh THEN silver[r] + 1 ELSE silver[r]]
               /\ seen' = Unexpired(seen \cup fresh)
        /\ stage' = "sunk" /\ ran' = TRUE
        /\ UNCHANGED <<bronze, up, pos, stop, lateMark, mark, nextMark, deadQuery>>

(* The commit log entry carries the next watermark.  A batch replayed only *)
(* to find its rows already in the table never ran, and observes no times. *)
Commit == /\ up /\ stage = "sunk"
          /\ stage' = "committed" /\ ran' = TRUE
          /\ IF ran THEN nextMark' \in MaxMark(Rows(pos, stop)) ELSE nextMark' = mark
          /\ UNCHANGED <<bronze, up, pos, stop, lateMark, mark, seen, silver, deadQuery>>

-----------------------------------------------------------------------------
(* The dead-letter query: write_dead_letter_stream.                        *)

DeadPlan == /\ up /\ deadStage = "committed"
            /\ deadStop' \in (deadStop + 1) .. Len(bronze)
            /\ deadPos' = deadStop
            /\ deadStage' = "planned"
            /\ UNCHANGED <<bronze, up, dedupQuery, dead>>

Copies(r, from, to) == {i \in (from + 1) .. to : bronze[i] = r}

(* Every rejected row, copies included: nothing deduplicates this half.    *)
DeadSink == /\ up /\ deadStage = "planned"
            /\ dead' = [r \in Records |->
                  IF r \in Malformed THEN dead[r] + Cardinality(Copies(r, deadPos, deadStop))
                                     ELSE dead[r]]
            /\ deadStage' = "sunk"
            /\ UNCHANGED <<bronze, up, deadPos, deadStop, dedupQuery>>

DeadCommit == /\ up /\ deadStage = "sunk"
              /\ deadStage' = "committed"
              /\ UNCHANGED <<bronze, up, deadPos, deadStop, dead, dedupQuery>>

-----------------------------------------------------------------------------
(* main(): both queries live and die with the process.                     *)

Start == /\ ~up /\ up' = TRUE
         /\ UNCHANGED <<bronze, dedupQuery, deadQuery>>

Crash == /\ up /\ up' = FALSE
         /\ ran' = FALSE
         /\ UNCHANGED <<bronze, pos, stop, stage, lateMark, mark, nextMark, seen, silver, deadQuery>>

DeadNeverCommits == DeadPlan \/ DeadSink      \* mutant: a batch is never committed
SilverStep == Plan \/ Sink \/ Commit
DeadStep   == DeadPlan \/ DeadSink \/ DeadCommit

Next == \/ \E r \in Records : Arrive(r)
        \/ SilverStep \/ DeadStep
        \/ Start \/ Crash

Spec == Init /\ [][Next]_vars

(* The triggers fire every 10 seconds, a dead job is restarted, and        *)
(* crashes stop sometime.                                                  *)
LiveSpec == /\ Spec
            /\ WF_vars(SilverStep) /\ WF_vars(DeadStep) /\ WF_vars(Start)
            /\ <>[][~Crash]_vars

-----------------------------------------------------------------------------
(* Properties.                                                             *)

Done     == IF stage = "planned" THEN pos ELSE stop
DeadDone == IF deadStage = "planned" THEN deadPos ELSE deadStop

(* However often and however late copies of an event arrive, no record is  *)
(* in silver twice, and two records of one event only when their event     *)
(* times are more than WatermarkDelay apart: within that window dedup      *)
(* holds for ever, since what the state store has forgotten the watermark  *)
(* drops (silver_clean.py, 97-111).                                        *)
NoDuplicates ==
    \A r, s \in Records :
        /\ silver[r] <= 1
        /\ r # s /\ SameEvent(r, s) /\ silver[r] > 0 /\ silver[s] > 0 =>
              \/ EventTime[r] > EventTime[s] + WatermarkDelay
              \/ EventTime[s] > EventTime[r] + WatermarkDelay

(* A clean row that is no older than WatermarkDelay behind every clean row *)
(* before it is never dropped as late, wherever the batches are cut: its   *)
(* event is in silver, in this record or another (silver_clean.py, 25-31). *)
OnTime(i) == /\ bronze[i] \notin Malformed
             /\ \A j \in 1 .. (i - 1) :
                   bronze[j] \notin Malformed =>
                       EventTime[bronze[i]] > EventTime[bronze[j]] - WatermarkDelay

OnTimeKept == \A i \in 1 .. Done : OnTime(i) =>
                  \E r \in Records : SameEvent(r, bronze[i]) /\ silver[r] > 0

(* Validation comes before dedup: every copy of a malformed record is      *)
(* dead-lettered, exactly once each, and none reaches silver (144-155).    *)
MalformedQuarantined ==
    \A r \in Malformed : /\ silver[r] = 0
                         /\ dead[r] = Cardinality(Copies(r, 0, DeadDone))

(* Why neither dedup nor watermark can fail the other: a record that is in *)
(* silver is remembered, or so old that the late filter of the next batch  *)
(* drops whatever is within WatermarkDelay of it; and a watermark never    *)
(* outruns the rows before the batch.                                      *)
Remembered == /\ \A r \in Records : silver[r] > 0 =>
                     \/ r \in seen
                     \/ EventTime[r] + WatermarkDelay <=
                            (IF stage = "planned" THEN lateMark ELSE mark)
              /\ \A r \in seen : silver[r] > 0

Behind(m, n) == m > 0 => \E j \in 1 .. n : /\ bronze[j] \notin Malformed
                                           /\ m <= EventTime[bronze[j]] - WatermarkDelay

WatermarkJustified == /\ lateMark <= mark /\ mark <= nextMark
                      /\ Behind(lateMark, pos) /\ Behind(nextMark, stop)
                      /\ stage = "committed" \/ nextMark = mark

(* The state is bounded: once silver has caught up and its last batch has  *)
(* moved no watermark, it remembers only records within twice the delay of *)
(* the newest one it met (97-108).  After a restart that may take until    *)
(* the next row comes.                                                     *)
Quiet == stage = "committed" /\ stop = Len(bronze) /\ nextMark = mark
StateBounded == Quiet => \A r \in seen : EventTime[r] + WatermarkDelay > mark

(* Every row is eventually settled by both queries.                        *)
EveryRowSettled == \A n \in 1 .. MaxRows : n <= Len(bronze) ~> (Done >= n /\ DeadDone >= n)
=============================================================================
