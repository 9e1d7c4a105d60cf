-------------------------- MODULE StockoutDetector --------------------------
(***************************************************************************)
(* streaming/gold_aggregates.py, order_velocity_per_store_sku and          *)
(* detect_stockouts: the scheduled batch job that joins the inventory      *)
(* table to the order velocity, for one store/SKU.  Time is counted in     *)
(* windows of 5 minutes, so the horizon is 3 windows.                      *)
(*                                                                         *)
(* Modelled: late order lines, inventory events of any order, the join     *)
(* with every window there is, NULL levels, and the division in double     *)
(* precision.  Left out: ranking and rounding of the figures reported.     *)
(***************************************************************************)
EXTENDS Integers

CONSTANTS Quantities,   \* of an order line
          StockLevels,  \* an inventory event may report
          MaxUnits,     \* bound: units ordered in one window
          LastWindow,   \* bound: windows
          NULL

VARIABLES
    now,      \* the current window
    units,    \* velocity: units ordered per window, 0: no row
    level,    \* current_level in the inventory table
    alerts    \* rows the last run of the detector produced

detector_vars == <<now, units, level, alerts>>

Windows == 0 .. LastWindow

DetectorInit == /\ now = 0
                /\ units = [w \in Windows |-> 0]
                /\ level \in StockLevels
                /\ alerts = {}

(* silver_orders gets a line; by its event_time it may belong to an        *)
(* earlier window.                                                         *)
Order(w, qty) == /\ w <= now /\ units[w] + qty <= MaxUnits
                 /\ units' = [units EXCEPT ![w] = @ + qty]
                 /\ UNCHANGED <<now, level, alerts>>

(* The MERGE writes a level.  One that did not parse is NULL, and no       *)
(* validator rejects it (SilverValidation).                                *)
Report(l) == /\ level' = l
             /\ UNCHANGED <<now, units, alerts>>

Tick == /\ now < LastWindow /\ now' = now + 1
        /\ UNCHANGED <<units, level, alerts>>

-----------------------------------------------------------------------------
(* minutes_to_stockout = current_level / (units_ordered / 5.0).            *)

Horizon == 3

(* Both divisions round.  Only a quotient of exactly 15 can come out on    *)
(* the wrong side of the horizon: u / 5.0 lies between 2^(e-3) and         *)
(* 2^(e-2) and is rounded down by m fifths of its last bit, 2^(e-55), and  *)
(* 15 is exceeded if that error, magnified, is over half a bit of 15.      *)
PowerOfTwo[e \in 0 .. 31] == IF e = 0 THEN 1 ELSE 2 * PowerOfTwo[e - 1]

Exponent(u) == CHOOSE e \in 0 .. 28 : 5 * PowerOfTwo[e] <= 8 * u /\ 8 * u < 5 * PowerOfTwo[e + 1]

FifthsRoundedDown(u) == LET r == (u * PowerOfTwo[(55 - Exponent(u)) % 4]) % 5
                        IN  IF r \in {1, 2} THEN r ELSE 0

ExceedsHorizon(u) == 15 * FifthsRoundedDown(u) * PowerOfTwo[Exponent(u)] > 32 * u

(* is_stockout_risk.                                                       *)
IsStockoutRisk(l, u) ==
    /\ u > 0 /\ l # NULL
    /\ \/ l < Horizon * u
       \/ l = Horizon * u /\ ~ExceedsHorizon(u)

(* The inner join: a row per window in which the pair was ordered.         *)
Velocity == {w \in Windows : units[w] > 0}

Detect == /\ alerts' = {[window |-> w, level |-> level, units |-> units[w], at |-> now] :
                            w \in {v \in Velocity : IsStockoutRisk(level, units[v])}}
          /\ UNCHANGED <<now, units, level>>

DetectorNext == \/ \E w \in Windows, qty \in Quantities : Order(w, qty)
                \/ \E l \in StockLevels : Report(l)
                \/ Tick \/ Detect

DetectorSpec == DetectorInit /\ [][DetectorNext]_detector_vars
-----------------------------------------------------------------------------
(* Properties.                                                             *)

(* The demand that counts is the one of the recent window: taken here to   *)
(* be the current one or, as that may have just begun, the one before it.  *)
Recent(w) == w >= now - 1

(* What is ordered in a window, carried on for the horizon, takes all the  *)
(* stock there is.                                                         *)
Exhausts(w) == units[w] > 0 /\ level # NULL /\ level <= Horizon * units[w]

(* A run alerts for the pair when its recent demand empties the stock      *)
(* within the horizon, at its very end included, and only then: "Units     *)
(* ordered per store/SKU in the recent window", "a store/SKU with no       *)
(* recent orders ... correctly produces no alert" (gold_aggregates.py, 73  *)
(* and 125-127), "Right at the 15-min horizon should alert"                *)
(* (test_gold_aggregates.py, 101).                                         *)
AlertsAsDocumented ==
    [][Detect => (alerts' # {} <=> \E w \in Windows : Recent(w) /\ Exhausts(w))]_detector_vars
=============================================================================
