-------------------------- MODULE MCAutomationRun --------------------------
(* A graph with every kind of step: a compensable action, a high-impact    *)
(* action and the compensation of the first.                               *)
EXTENDS AutomationRun, TLC

CONSTANTS r1, w1, w2, wf1

MCWorkflowOf == r1 :> wf1
MCActionStep == {0, 1}
MCCompensateRef == 0 :> 2
MCAdapter == [i \in 0 .. 2 |-> "authorized"]
MCHighImpact == {1}

\* A longer graph: two compensable actions and a third step whose adapter is not
\* registered, so that a run gets as far as undoing both.
MCLongActionStep == {0, 1, 2}
MCLongCompensateRef == 0 :> 3 @@ 1 :> 4
MCLongAdapter == [i \in 0 .. 4 |-> IF i = 2 THEN "missing" ELSE "authorized"]

\* Worker identities are interchangeable: nothing orders or names them.
MCSymmetry == Permutations({w1, w2})
====
