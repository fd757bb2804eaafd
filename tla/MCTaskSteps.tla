------------------------------ MODULE MCTaskSteps ------------------------------
(* TaskSteps with the step a in one section and the others in a second one.      *)
EXTENDS TaskSteps, TLC

CONSTANTS a, s1, s2

MCWired     == {<<s1, s2>>}   \* s1 waits for s2
MCSectionOf == [s \in Steps |-> IF s = a THEN s1 ELSE s2]
Symmetric   == Permutations(Txns) \cup Permutations(Users)
================================================================================
