----------------------------- MODULE MCTwoFactor -----------------------------
EXTENDS TwoFactor, TLC

\* No two tabs differ.
Symmetry == Permutations(Tabs)
=============================================================================
