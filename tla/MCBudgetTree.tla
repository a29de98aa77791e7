---------------------------- MODULE MCBudgetTree ----------------------------
(* Model-checking instances of BudgetTree; agents that may still be spawned are
   interchangeable *)
EXTENDS BudgetTree, TLC

SpawnedAlike == Permutations(Agents \ {Root})
=============================================================================
