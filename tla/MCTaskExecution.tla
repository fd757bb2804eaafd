--------------------------- MODULE MCTaskExecution ---------------------------
(* Instances of TaskExecution for TLC. *)
EXTENDS TaskExecution, TLC

CONSTANTS t1, t2, w1, w2, q1, q2

BothOnQ1   == (t1 :> q1) @@ (t2 :> q1)
OneEach    == (t1 :> q1) @@ (t2 :> q2)
OneOnQ1    == t1 :> q1
TwoServeQ1 == (w1 :> q1) @@ (w2 :> q1)
OneServesQ1 == w1 :> q1

OneDelay == <<1>>
=============================================================================
