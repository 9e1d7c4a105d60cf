--------------------------- MODULE MCGoldInventory ---------------------------
(***************************************************************************)
(* Instances of GoldInventory: milk has two events of equal time and an    *)
(* older one, rice has one event of its own.                               *)
(***************************************************************************)
EXTENDS GoldInventory, TLC

CONSTANTS milk, rice, old, new, tie, other

KeyTable  == old :> milk @@ new :> milk @@ tie :> milk @@ other :> rice
TimeTable == old :> 1 @@ new :> 3 @@ tie :> 3 @@ other :> 2
KeysOf == [e \in Events |-> KeyTable[e]]
Times  == [e \in Events |-> TimeTable[e]]
=============================================================================
