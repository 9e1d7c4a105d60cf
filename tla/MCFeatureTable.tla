--------------------------- MODULE MCFeatureTable ---------------------------
(***************************************************************************)
(* An instance of FeatureTable, and with it of Backfill.  Order c of date  *)
(* 3 is corrected to a cancelled one; the two copies of the event of date  *)
(* 2 have the same ingest_time, and one of them fails validation;          *)
(* `undated` has no event_time.  Seen from date 5, date 3 is at the edge   *)
(* of the week, date 2 at that of the fortnight, date 1 outside both, and  *)
(* nothing was sold on date 4.  Order a has a line of quantity 0, so date  *)
(* 1 is one of the fortnight's days without a unit; `bad` has no line.     *)
(***************************************************************************)
EXTENDS FeatureTable, TLC

CONSTANTS a, b, bad, c, cancel, e, undated, milk

Some(f) == [r \in Rows |-> f[r]]
Events  == Some(a :> 1 @@ b :> 2 @@ bad :> 2 @@ c :> 3 @@ cancel :> 3 @@ e :> 5 @@ undated :> 6)
DatesOf == Some(a :> 1 @@ b :> 2 @@ bad :> 2 @@ c :> 3 @@ cancel :> 3 @@ e :> 5 @@ undated :> NoOrderDate)
Times   == Some(a :> 1 @@ b :> 2 @@ bad :> 2 @@ c :> 3 @@ cancel :> 4 @@ e :> 5 @@ undated :> 0)
Sold    == Some(a :> 0 @@ b :> 2 @@ bad :> Null @@ c :> 3 @@ cancel :> 3 @@ e :> 2 @@ undated :> 1)
UnitsOf == [r \in Rows |-> [k \in Pairs |-> Sold[r]]]
=============================================================================
