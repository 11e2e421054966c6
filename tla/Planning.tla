------------------------------ MODULE Planning ------------------------------
(***************************************************************************)
(* The planning app: goals and budgets, which share only their owner.      *)
(***************************************************************************)
EXTENDS Goals, Budgets

vars == <<goalVars, budgetVars>>

Init == GoalsInit /\ BudgetsInit

Next == \/ GoalsNext /\ UNCHANGED budgetVars
        \/ BudgetsNext /\ UNCHANGED goalVars

Spec == Init /\ [][Next]_vars
=============================================================================
