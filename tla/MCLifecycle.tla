------------------------------ MODULE MCLifecycle ------------------------------
EXTENDS Lifecycle, TLC

HandlerSymmetry == Permutations(Callers)
================================================================================
