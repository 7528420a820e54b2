----------------------------- MODULE MCBudgetGate -----------------------------
(* BudgetGate on a small instance: three threads, two midnights' worth of  *)
(* days, costs large enough for one call to pass the cap on its own.       *)
EXTENDS BudgetGate, TLC

Symmetry == Permutations(Callers)

=============================================================================
