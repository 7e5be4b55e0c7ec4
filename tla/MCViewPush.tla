------------------------------ MODULE MCViewPush ------------------------------
EXTENDS ViewPush, TLC

MCSymmetry == Permutations(Hosts) \cup Permutations(Options)
=============================================================================
