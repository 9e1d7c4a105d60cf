----------------------------- MODULE OrdersPath -----------------------------
(***************************************************************************)
(* The path of an order: streaming/silver_clean.py's query for the topic   *)
(* orders (SilverClean) and the zone query of streaming/gold_aggregates.py *)
(* (ZoneWindows, whose variables these are), two processes joined by the   *)
(* Delta table silver_orders.                                              *)
(*                                                                         *)
(* Each has a watermark of its own, computed over what it reads: the       *)
(* cleaner over clean rows of bronze, the zone query over the rows the     *)
(* cleaner lets through, in its commits.  Neither knows of the other's,    *)
(* nor of its crashes and replays.                                         *)
(*                                                                         *)
(* The dead-letter query shares nothing but the process with this path: it *)
(* is left where it starts.                                                *)
(***************************************************************************)
EXTENDS ZoneWindows

CONSTANTS EventId,           \* order of each record
          Malformed,         \* records the validator rejects
          WatermarkDelay,    \* of the cleaner
          MaxRows            \* bound: rows that ever reach bronze

ASSUME PathAssumption == /\ EventTime \in [Orders -> Nat \ {0}] /\ Malformed \subseteq Orders
                         /\ MaxRows \in Nat /\ WatermarkDelay \in Nat
                         /\ WatermarkDelay <= Watermark       \* both are 10 minutes
                         /\ WindowLength <= WatermarkDelay    \* 5 minutes

VARIABLES
    bronze,          \* bronze_orders
    cleanerUp, cleanerPos, cleanerStop, cleanerStage,
    cleanerLate, cleanerMark, cleanerNext, cleanerRan, seen

cleaner == <<cleanerUp, cleanerPos, cleanerStop, cleanerStage,
             cleanerLate, cleanerMark, cleanerNext, cleanerRan, seen>>
path_vars == <<bronze, cleaner, vars>>

InSilver == [o \in Orders |-> Cardinality({i \in DOMAIN silver : o \in silver[i]})]

S == INSTANCE SilverClean WITH
        Records <- Orders, silver <- InSilver,
        up <- cleanerUp, pos <- cleanerPos, stop <- cleanerStop, stage <- cleanerStage,
        lateMark <- cleanerLate, mark <- cleanerMark, nextMark <- cleanerNext, ran <- cleanerRan,
        deadPos <- 0, deadStop <- 0, deadStage <- "committed", dead <- [o \in Orders |-> 0]

PathInit == Init /\ S!Init

-----------------------------------------------------------------------------
(* The cleaner.                                                            *)

Deliver(o) == UNCHANGED vars /\ S!Arrive(o)

(* What is fresh in its batch becomes one commit of silver_orders; a batch *)
(* that has nothing fresh adds no file.                                    *)
CleanerSink ==
    /\ \E fresh \in S!Deduplicate(S!Clean(S!Rows(cleanerPos, cleanerStop))) :
          silver' = IF fresh = {} THEN silver ELSE Append(silver, fresh)
    /\ S!Sink
    /\ UNCHANGED <<up, query>>

CleanerStep == CleanerSink \/ (UNCHANGED vars /\ (S!Plan \/ S!Commit))
CleanerStart == UNCHANGED vars /\ S!Start
CleanerCrash == UNCHANGED vars /\ S!Crash

-----------------------------------------------------------------------------
(* The zone query.                                                         *)

ZoneStep  == QueryStep /\ UNCHANGED <<bronze, cleaner>>
ZoneStart == Start /\ UNCHANGED <<bronze, cleaner>>
ZoneCrash == Crash /\ UNCHANGED <<bronze, cleaner>>

PathNext == \/ \E o \in Orders : Deliver(o)
            \/ CleanerStep \/ CleanerStart \/ CleanerCrash
            \/ ZoneStep \/ ZoneStart \/ ZoneCrash

PathSpec == PathInit /\ [][PathNext]_path_vars

(* As in the two modules: triggers fire, dead jobs are restarted, crashes  *)
(* stop sometime.                                                          *)
PathLiveSpec == /\ PathSpec
                /\ WF_path_vars(CleanerStep) /\ WF_path_vars(CleanerStart)
                /\ WF_path_vars(ZoneStep) /\ WF_path_vars(ZoneStart)
                /\ <>[][~(CleanerCrash \/ ZoneCrash)]_path_vars

-----------------------------------------------------------------------------
(* Properties.                                                             *)

(* silver_orders is the stream ZoneWindows is written for: whatever is     *)
(* delivered again, crashes or is replayed upstream, it only grows, and no *)
(* row of it comes in two commits (silver_clean.py, 97-111).               *)
SilverFeedsGold == Spec

(* Another record of the same order made it into silver in its place.      *)
Superseded(o) == \E k \in DOMAIN silver : \E p \in silver[k] : p # o /\ EventId[p] = EventId[o]

Counted == open \cup Reported

(* An order on time in bronze is on time for both watermarks: what the     *)
(* cleaner has read of it is in silver, unless that held another record of *)
(* the order, and what the zone query has read of it is counted, wherever  *)
(* either cuts its batches (silver_clean.py, 31; gold_aggregates.py, 25).  *)
OnTimeReachesGold ==
    \A i \in 1 .. S!Done : S!OnTime(i) =>
        \/ \E k \in DOMAIN silver : /\ bronze[i] \in silver[k]
                                    /\ k <= Done => bronze[i] \in Counted
        \/ Superseded(bronze[i])

(* A row is final with respect to bronze: once gold has reported a window, *)
(* no order of it that is on time is missing, wherever it still is         *)
(* (gold_aggregates.py, 38-43).                                            *)
RowsFinal ==
    \A i \in 1 .. Len(bronze), j \in DOMAIN gold : S!OnTime(i) =>
        \A r \in gold[j] : (\E p \in r : SameRow(p, bronze[i])) =>
            bronze[i] \in r \/ Superseded(bronze[i])

(* The cleaner forgets an order after 10 minutes, but a window is only 5:  *)
(* two records of an order are never counted in one row                    *)
(* (silver_clean.py, 97-111 and gold_aggregates.py, 38-43).                *)
NoOrderTwice ==
    \A j \in DOMAIN gold : \A r \in gold[j] :
        \A o, p \in r : EventId[o] = EventId[p] => o = p

(* Every order on time in bronze is counted sometime, through crashes of   *)
(* both processes (silver_clean.py, 173 and gold_aggregates.py, 254).      *)
EveryOrderCounted ==
    \A i \in 1 .. MaxRows :
        i <= Len(bronze) /\ S!OnTime(i)
            ~> i <= Len(bronze) /\ (bronze[i] \in Counted \/ Superseded(bronze[i]))
=============================================================================
