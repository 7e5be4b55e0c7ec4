-------------------------- MODULE MCSessionRegistry --------------------------
EXTENDS SessionRegistry, TLC

\* Threads are interchangeable: used by the runs that check invariants only.
ThreadSymmetry == Permutations(Threads)
=============================================================================
