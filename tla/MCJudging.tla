------------------------------ MODULE MCJudging ------------------------------
EXTENDS JudgingRefinement, TLC
Symmetry == Permutations(Tasks) \union Permutations(Servers)
=============================================================================
