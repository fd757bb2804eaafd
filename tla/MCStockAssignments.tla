--------------------------- MODULE MCStockAssignments ---------------------------
(* An instance: one row, two tasks with an item each, three assignments:     *)
(* a2 of the second task, the others of the first.                           *)
EXTENDS StockAssignments, TLC

CONSTANTS r1, t1, t2, i1, i2, a1, a2, a3
MCItemOf == t1 :> i1 @@ t2 :> i2
MCRowOf  == [a \in Asgs |-> r1]
MCTaskOf == [a \in Asgs |-> IF a = a2 THEN t2 ELSE t1]
Symmetric == Permutations(Sessions)
=============================================================================
