--------------------------- MODULE MCBronzeIngest ---------------------------
(***************************************************************************)
(* A small instance of BronzeIngest for TLC: two topics in one process.    *)
(* The rate limit has to share a batch of orders between two partitions;   *)
(* one record of inventory is enough for either query to end the other.    *)
(***************************************************************************)
EXTENDS BronzeIngest, TLC

CONSTANTS orders, inventory, p0, p1

Published == [t \in {orders, inventory} |->
                 IF t = orders THEN (p0 :> 2) @@ (p1 :> 1) ELSE (p0 :> 1) @@ (p1 :> 0)]
=============================================================================
