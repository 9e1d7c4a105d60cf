----------------------------- MODULE ZoneWindows -----------------------------
(***************************************************************************)
(* streaming/gold_aggregates.py, query 1: orders per 5-minute window and   *)
(* zone, appended to a Delta table when the watermark has passed the end   *)
(* of the window.  silver_orders is read one or more commits at a time; a  *)
(* commit is a set of rows.  An Order is one row of silver_orders, and     *)
(* occurs once: silver keeps no record twice, and two records of one order *)
(* are two Orders (SilverClean, NoDuplicates).  A row of gold is the set   *)
(* of Orders it counts: every column of it is a function of that set.      *)
(*                                                                         *)
(* Modelled: orders out of event-time order, arbitrary micro-batches,      *)
(* batches without data, the watermark and its recovery, crashes between   *)
(* offset log, Delta commit and commit log, and whether Spark starts the   *)
(* query at all: the plan counts distinct stores and customers (56-57),    *)
(* which a streaming query must not.  With PlanAccepted the model says     *)
(* what the query does once these two columns are counted approximately.   *)
(***************************************************************************)
EXTENDS Integers, Sequences, FiniteSets

CONSTANTS Orders,
          EventTime,       \* event_time of each order
          Zone,            \* zone of each order
          WindowLength,    \* WINDOW_DURATION
          Watermark,       \* WATERMARK
          PlanAccepted     \* does Spark take the plan of the query?

ASSUME WindowAssumption == /\ EventTime \in [Orders -> Nat]
                           /\ PlanAccepted \in BOOLEAN
                           /\ WindowLength \in Nat \ {0}
                           /\ Watermark \in Nat

VARIABLES
    silver,            \* silver_orders: its commits
    up,                \* is the gold process running?
    pos, stop,         \* the open batch reads commits pos+1 .. stop
    stage,             \* what of that batch is durable
    lateMark, mark,    \* its watermarks: to drop late orders, to close windows
    nextMark,          \* the watermark the next batch will get
    ran,               \* has this process run that batch (or skipped it)?
    open,              \* state store: orders in windows still open
    gold               \* orders_by_zone_5min: its commits, sets of rows

query == <<pos, stop, stage, lateMark, mark, nextMark, ran, open, gold>>
vars  == <<silver, up, query>>

TypeOK == /\ silver \in Seq(SUBSET Orders) /\ up \in BOOLEAN
          /\ pos \in 0 .. stop /\ stop \in 0 .. Len(silver)
          /\ stage \in {"planned", "sunk", "committed"}
          /\ lateMark \in Int /\ mark \in Int /\ nextMark \in Int
          /\ ran \in BOOLEAN
          /\ open \subseteq Orders /\ gold \in Seq(SUBSET SUBSET Orders)

Init == /\ silver = <<>> /\ up = FALSE
        /\ pos = 0 /\ stop = 0 /\ stage = "committed"
        /\ lateMark = 0 /\ mark = 0 /\ nextMark = 0
        /\ ran = FALSE /\ open = {} /\ gold = <<>>

Read(from, to) == UNION {silver[i] : i \in (from + 1) .. to}

(* The silver query commits a batch.                                       *)
Arrive(commit) == /\ commit # {} /\ commit \cap Read(0, Len(silver)) = {}
                   /\ silver' = Append(silver, commit)
                   /\ UNCHANGED <<up, query>>

-----------------------------------------------------------------------------
(* orders_by_zone_window.                                                  *)

(* F.window: [start, start + WindowLength), aligned to the epoch.          *)
WindowEnd(o) == ((EventTime[o] \div WindowLength) + 1) * WindowLength
SameRow(o, p) == WindowEnd(o) = WindowEnd(p) /\ Zone[o] = Zone[p]

(* An order is late if its window ended at or before the watermark.        *)
KeepLate(orders) == orders                    \* mutant: late orders reopen windows
NotLate(orders) == {o \in orders : WindowEnd(o) > lateMark}

(* The windows the watermark has passed are reported and forgotten.        *)
CloseEarly(orders) == {o \in orders : WindowEnd(o) - WindowLength <= mark}  \* mutant: at window.start
Closing(orders) == {o \in orders : WindowEnd(o) <= mark}

ReportRows(orders) == {{p \in orders : SameRow(o, p)} : o \in orders}

NoDelay(orders) == {mark} \cup {EventTime[o] : o \in orders}   \* mutant
Marks(orders) == {mark} \cup {EventTime[o] - Watermark : o \in orders}
MaxMark(orders) == {m \in Marks(orders) : \A n \in Marks(orders) : n <= m}

-----------------------------------------------------------------------------
(* The query.                                                              *)

(* A batch is planned when there is something to read, or windows to close *)
(* that the process knows of from a batch of its own.                      *)
NeedsData == (stop + 1) .. Len(silver)                         \* mutant: no batch without data
Ends == {n \in stop .. Len(silver) : n > stop \/ (ran /\ nextMark > mark)}

Plan == /\ up /\ stage = "committed"
        /\ stop' \in Ends
        /\ pos' = stop
        /\ lateMark' = mark /\ mark' = nextMark
        /\ stage' = "planned" /\ ran' = FALSE
        /\ UNCHANGED <<silver, up, nextMark, open, gold>>

(* The batch runs: state store version, then the Delta commit.             *)
Sink == /\ up /\ stage = "planned"
        /\ LET held == open \cup NotLate(Read(pos, stop))
           IN  /\ open' = held \ Closing(held)
               /\ gold' = IF Closing(held) = {} THEN gold
                           ELSE Append(gold, ReportRows(Closing(held)))
        /\ stage' = "sunk" /\ ran' = TRUE
        /\ UNCHANGED <<silver, up, pos, stop, lateMark, mark, nextMark>>

(* A batch replayed only to find its rows in the table observes no times.  *)
Commit == /\ up /\ stage = "sunk"
          /\ stage' = "committed" /\ ran' = TRUE
          /\ IF ran THEN nextMark' \in MaxMark(Read(pos, stop)) ELSE nextMark' = mark
          /\ UNCHANGED <<silver, up, pos, stop, lateMark, mark, open, gold>>

(* start() checks the plan before the first batch, on every start; if it   *)
(* raises, the process ends there.                                         *)
Start == /\ PlanAccepted /\ ~up /\ up' = TRUE
         /\ UNCHANGED <<silver, query>>
Crash == /\ up /\ up' = FALSE
         /\ ran' = FALSE
         /\ UNCHANGED <<silver, pos, stop, stage, lateMark, mark, nextMark, open, gold>>

QueryStep == Plan \/ Sink \/ Commit

Next == (\E commit \in SUBSET Orders : Arrive(commit)) \/ QueryStep \/ Start \/ Crash

Spec == Init /\ [][Next]_vars

(* The 30-second trigger keeps the query going, a dead job is restarted,   *)
(* and crashes stop sometime.                                              *)
LiveSpec == Spec /\ WF_vars(QueryStep) /\ WF_vars(Start) /\ <>[][~Crash]_vars

-----------------------------------------------------------------------------
(* Properties.                                                             *)

Done == IF stage = "planned" THEN pos ELSE stop

Reported == UNION {UNION gold[i] : i \in DOMAIN gold}

(* A window of a zone has one row, ever: a window, once reported, is not   *)
(* reported again, neither for a late order nor by a replayed batch, so    *)
(* the rows sum to the total of the orders counted (38-43).                *)
WindowReportedOnce ==
    \A i, j \in DOMAIN gold : \A r \in gold[i], q \in gold[j] :
        (\E o \in r, p \in q : SameRow(o, p)) => i = j /\ r = q

(* No earlier commit of silver put the watermark past the order's window.  *)
OnTime(o, i) == \A p \in Read(0, i - 1) : WindowEnd(o) > EventTime[p] - Watermark

(* An order on time is counted, wherever the batches are cut.              *)
OnTimeCounted ==
    \A i \in 1 .. Done : \A o \in silver[i] : OnTime(o, i) => o \in open \cup Reported

(* A row is final: no order of its window that is on time is missing, not  *)
(* even one the query has yet to read.                                     *)
RowsComplete ==
    \A i \in 1 .. Len(silver), j \in DOMAIN gold :
        \A o \in silver[i], r \in gold[j] :
            OnTime(o, i) /\ (\E p \in r : SameRow(o, p)) => o \in r

(* A window is reported once the watermark has passed its end, though no   *)
(* order comes after that (gold_aggregates.py, 41-42), unless the process  *)
(* was started again since: then the window waits for the next order.      *)
Waiting == stage = "committed" /\ stop = Len(silver) /\ ~ran

WindowsClose ==
    \A o \in Orders : <>[](o \in open /\ WindowEnd(o) <= nextMark) => <>[]Waiting
=============================================================================
