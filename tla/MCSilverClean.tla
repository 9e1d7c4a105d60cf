---------------------------- MODULE MCSilverClean ----------------------------
(***************************************************************************)
(* An instance of SilverClean for the topic orders, with a delay of 2.     *)
(* Records a, edge and b are copies of one event: edge is as far from a as *)
(* dedup reaches, b is beyond.  Once c has been read a is forgotten, edge  *)
(* is late by nothing and b is on time.  `blank` and `torn` fail           *)
(* validation; b lost a column that no rule requires.                      *)
(***************************************************************************)
EXTENDS SilverValidation, TLC

CONSTANTS a, edge, b, c, blank, torn

Ids   == a :> 1 @@ edge :> 1 @@ b :> 1 @@ c :> 2 @@ blank :> 0 @@ torn :> 3
Times == a :> 1 @@ edge :> 3 @@ b :> 4 @@ c :> 5 @@ blank :> 5 @@ torn :> 5

Good  == [column \in Columns(Topic) |-> "good"]
Wires == b :> [Good EXCEPT !["order_value"] = "mistyped"]
         @@ blank :> [Good EXCEPT !["event_id"] = "absent"]
         @@ torn :> [Good EXCEPT !["line_count"] = "mistyped", !["status"] = "unknown"]
         @@ [r \in {a, edge, c} |-> Good]
Bad   == Rejected
=============================================================================
