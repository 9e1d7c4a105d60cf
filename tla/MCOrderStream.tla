--------------------------- MODULE MCOrderStream ---------------------------
(***************************************************************************)
(* An instance of OrderStream.  An order takes two units of the one SKU,   *)
(* more than some store has at first.                                      *)
(***************************************************************************)
EXTENDS OrderStream

SomeDeltas == {-1, 3}
TwoOfEach  == {[k \in Skus |-> 2]}
=============================================================================
