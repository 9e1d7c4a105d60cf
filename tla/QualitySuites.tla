---------------------------- MODULE QualitySuites ----------------------------
(***************************************************************************)
(* quality/expectations/suites.py and the metrics the nightly DAG computes *)
(* for it (airflow/dags/batch_backfill_dag.py, compute_gold_metrics) from  *)
(* the rows of gold_orders_by_zone_5min.  Ratios are multiplied out, so    *)
(* every verdict is exact.  A row is a record of a window and zone; the    *)
(* bounds of cancel_rate hold for every row, as cancelled orders are       *)
(* orders.  Left out: the wording of results.                              *)
(***************************************************************************)
EXTENDS Integers, FiniteSetsExt, Functions

CONSTANTS TicksPerDay,  \* resolution of the clock
          MaxAge,       \* 120 minutes, in ticks
          ZThreshold,   \* 3
          History       \* 14 days

ASSUME SuiteAssumption == /\ TicksPerDay \in Nat \ {0} /\ MaxAge \in Nat
                          /\ ZThreshold \in Nat /\ History \in Nat

GoldRow == [start : Nat, orders : Nat \ {0}, value : Nat, zoneless : BOOLEAN]

Date(time) == time \div TicksPerDay
OnDate(rows, d) == {r \in rows : Date(r.start) = d}
Orders(rows) == SumFunction([r \in rows |-> r.orders])
Lowest(numbers) == IF numbers = {} THEN 0 ELSE Min(numbers)

(* compute_gold_metrics: the rows of the current date, whatever date the   *)
(* run is for, against the last days before that have any.  With no row    *)
(* there is no latest one, and the age is 0.                               *)
TrailingDates(rows, now) ==
    LET days == {Date(r.start) : r \in rows} \cap 0 .. (Date(now) - 1)
    IN  {d \in days : Cardinality({e \in days : e >= d}) <= History}

Metrics(rows, now) ==
    LET today == OnDate(rows, Date(now))
    IN  [latestAge |-> IF today = {} THEN 0 ELSE now - Max({r.start : r \in today}),
         todayCount |-> Orders(today),
         trailing |-> [d \in TrailingDates(rows, now) |-> Orders(OnDate(rows, d))],
         minOrders |-> Lowest({r.orders : r \in today}),
         minValue |-> Lowest({r.value : r \in today}),
         nullZones |-> Cardinality({r \in today : r.zoneless})]

(* check_volume_anomaly: |z| <= ZThreshold by the population's deviation,  *)
(* both sides times n^2 and squared; no verdict on less than two days or   *)
(* on days that are all alike.                                             *)
Days(trailing)    == Cardinality(DOMAIN trailing)
Squares(trailing) == [d \in DOMAIN trailing |-> trailing[d] * trailing[d]]
Deviation(count, trailing) == Days(trailing) * count - SumFunction(trailing)
Spread(trailing) == Days(trailing) * SumFunction(Squares(trailing))
                    - SumFunction(trailing) * SumFunction(trailing)

VolumeOrdinary(count, trailing) ==
    \/ Days(trailing) < 2 \/ Spread(trailing) = 0
    \/ Deviation(count, trailing) * Deviation(count, trailing)
         <= ZThreshold * ZThreshold * Spread(trailing)

NullRateAcceptable(nulls, total) == total = 0 \/ nulls = 0

(* build_gold_suite_results and summarize: a failed check of this suite    *)
(* always has the severity of an error.                                    *)
GoldSuitePasses(m) ==
    /\ m.latestAge <= MaxAge
    /\ VolumeOrdinary(m.todayCount, m.trailing)
    /\ m.minOrders >= 0 /\ m.minValue >= 0
    /\ NullRateAcceptable(m.nullZones, m.todayCount)
=============================================================================
