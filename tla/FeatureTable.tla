---------------------------- MODULE FeatureTable ----------------------------
(***************************************************************************)
(* ml_handoff/feature_table.py on top of the silver_orders table that      *)
(* Backfill keeps: per store/SKU and date, lags and rolling aggregates of  *)
(* the units sold, rebuilt over all dates and written by dynamic partition *)
(* overwrite.                                                              *)
(*                                                                         *)
(* A week and a fortnight are constants so that an instance can have dates *)
(* inside, at the edge of and outside the windows.  An average is the pair *)
(* of its sum and its count.  Left out: revenue (aggregated like units),   *)
(* calendar columns (functions of the date), the time of the build.        *)
(***************************************************************************)
EXTENDS Backfill, FiniteSetsExt, Functions

CONSTANTS Pairs,      \* store/SKU pairs
          Units,      \* units in a row's order lines of a pair, Null if it has no such line
          Cancelled,  \* rows whose status is cancelled, or null
          Week, Fortnight,   \* 7 and 14 days
          Null

ASSUME FeatureAssumption == /\ OrderDates \subseteq Nat
                            /\ Units \in [Rows -> [Pairs -> Nat \cup {Null}]]
                            /\ Cancelled \subseteq Rows
                            /\ Week \in Nat /\ Fortnight \in Nat /\ Week <= Fortnight
                            /\ Null \notin Int /\ Null \notin Int \X Int

VARIABLE features    \* the feature table: its partitions by feature_date

AllLines(orders, d) == Day(orders, d)              \* mutant: cancelled orders count
DemandRows(orders, d) == Day(orders, d) \ Cancelled

(* daily_store_sku_demand: a date has a row of a pair if an order line of  *)
(* the pair was sold on it, be it of quantity 0; a date without such a     *)
(* line has no row, not a zero.                                            *)
LinesOf(k, rows)  == {r \in rows : Units[r][k] # Null}
SoldOn(orders, k) == {d \in OrderDates : LinesOf(k, DemandRows(orders, d)) # {}}

UnitsIn(rows, k) == SumFunction([r \in LinesOf(k, rows) |-> Units[r][k]])
DailyUnits(orders, d, k) == UnitsIn(DemandRows(orders, d), k)

(* lag("units", n): the n-th row before, however many days that is ago.    *)
SoldBefore(orders, d, k) == {e \in SoldOn(orders, k) : e < d}
NthBack(days, n) == {e \in days : Cardinality({f \in days : f >= e}) = n}
Lag(orders, d, k, n) ==
    LET nth == NthBack(SoldBefore(orders, d, k), n)
    IN  IF nth = {} THEN Null ELSE DailyUnits(orders, CHOOSE e \in nth : TRUE, k)

(* rangeBetween(-n days, -1 day).                                          *)
IncludingToday(orders, d, k, n) == {e \in SoldOn(orders, k) : d - n <= e /\ e <= d}   \* mutant
DaysBefore(orders, d, k, n) == {e \in SoldOn(orders, k) : d - n <= e /\ e <= d - 1}

Series(orders, days, k) == [e \in days |-> DailyUnits(orders, e, k)]
Largest(series) == IF DOMAIN series = {} THEN Null ELSE Max({series[e] : e \in DOMAIN series})
Average(series) == IF DOMAIN series = {} THEN Null
                   ELSE <<SumFunction(series), Cardinality(DOMAIN series)>>

(* The trend is last week's average over the fortnight's, if that is more  *)
(* than 0.                                                                 *)
FeatureRow(orders, d, k) ==
    LET week == Series(orders, DaysBefore(orders, d, k, Week), k)
        avg  == Average(week)
        base == Average(Series(orders, DaysBefore(orders, d, k, Fortnight), k))
    IN  [lag_1d |-> Lag(orders, d, k, 1), lag_7d |-> Lag(orders, d, k, Week),
         avg_7d |-> avg, max_7d |-> Largest(week), avg_14d |-> base,
         trend_7d |-> IF avg = Null \/ base = Null \/ base[1] = 0 THEN Null
                      ELSE <<avg[1] * base[2], avg[2] * base[1]>>]

NoRows == [k \in Pairs |-> Null]

AddLagFeatures(orders, d) ==
    [k \in Pairs |-> IF d \in SoldOn(orders, k) THEN FeatureRow(orders, d, k) ELSE Null]

(* main(): all of silver is read; dates that have rows are replaced, a     *)
(* date that no longer has any keeps what it had.                          *)
Rebuild == /\ layout # "none"
           /\ features' = [d \in OrderDates |->
                 LET rows == AddLagFeatures(silver, d)
                 IN  IF rows = NoRows THEN features[d] ELSE rows]
           /\ UNCHANGED table_vars

FeatureInit == TableInit /\ features = [d \in OrderDates |-> NoRows]
FeatureNext == Rebuild \/ (TableNext /\ UNCHANGED features)
FeatureSpec == FeatureInit /\ [][FeatureNext]_<<table_vars, features>>

-----------------------------------------------------------------------------
(* Properties.                                                             *)

(* Every feature for date D is what the orders of dates before D alone     *)
(* yield: same-day and later orders, however late or corrected, do not     *)
(* leak into it (feature_table.py, 15-20).                                 *)
Before(orders, d) == {r \in orders : DateOf[r] \in OrderDates /\ DateOf[r] < d}
PointInTime ==
    [][\A d \in OrderDates, k \in Pairs : features'[d][k] \notin {features[d][k], Null} =>
          features'[d][k] = FeatureRow(Before(silver, d), d, k)]_features

(* Unknown is null and null only: a rebuilt row has null lags exactly if   *)
(* the pair was never sold before, null rolling features exactly if it was *)
(* not sold in their window, a null trend exactly if there is none of last *)
(* week or no unit in the fortnight to compare it with; and a cancelled    *)
(* order never makes anything known (feature_table.py, 21-24, 41-44 and    *)
(* 91-93).                                                                 *)
Known(d, k, from) == \E r \in silver \ Cancelled :
                         /\ DateOf[r] \in OrderDates /\ from <= DateOf[r] /\ DateOf[r] < d
                         /\ Units[r][k] # Null
NullIsUnknown ==
    [][\A d \in OrderDates, k \in Pairs : features'[d][k] \notin {features[d][k], Null} =>
          LET row == features'[d][k] IN
          /\ row.lag_1d = Null  <=> ~Known(d, k, 0)
          /\ row.avg_7d = Null  <=> ~Known(d, k, d - Week)
          /\ row.max_7d = Null  <=> row.avg_7d = Null
          /\ row.avg_14d = Null <=> ~Known(d, k, d - Fortnight)
          /\ row.trend_7d = Null <=> row.avg_7d = Null \/ row.avg_14d[1] = 0]_features
=============================================================================
