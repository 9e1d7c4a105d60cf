---------------------------- MODULE MCOrdersPath ----------------------------
(***************************************************************************)
(* Instances of OrdersPath: windows of 5, both watermarks of 10.  Records  *)
(* a and b share a window, and so does a2, the order of a published again; *)
(* `edge` brings both watermarks exactly to the end of that window, `past` *)
(* makes the cleaner forget a.                                             *)
(***************************************************************************)
EXTENDS OrdersPath, TLC

CONSTANTS a, a2, b, edge, past

Ids   == a :> 1 @@ a2 :> 1 @@ b :> 2 @@ edge :> 3 @@ past :> 4
Times == a :> 1 @@ a2 :> 3 @@ b :> 4 @@ edge :> 15 @@ past :> 23
Zones == [o \in Orders |-> "koramangala"]
=============================================================================
