--------------------------- MODULE MCBackfillDag ---------------------------
(***************************************************************************)
(* Instances of BackfillDag: days of two ticks, a window in each of days 0 *)
(* and 1 and one in day 2, of which a column is null.  The first two days  *)
(* differ, as no history of two equal days tells anything: a little in one *)
(* instance, by a factor of 3 in the other.                                *)
(***************************************************************************)
EXTENDS BackfillDag

Row(start, orders, zoneless) ==
    [start |-> start, orders |-> orders, value |-> orders, zoneless |-> zoneless]
SomeWindows == {Row(0, 3, FALSE), Row(2, 4, FALSE), Row(4, 3, TRUE)}
Swinging    == {Row(0, 1, FALSE), Row(2, 3, FALSE), Row(4, 3, TRUE)}
DaysOf      == [w \in Windows |-> Date(w.start)]
=============================================================================
