---------------------------- MODULE MCTaskManager ----------------------------
EXTENDS TaskManager
Symmetry == Permutations(Window) \cup Permutations(App)

\* The last step is not taken with a full queue before it is drained.
Few == steps = MaxSteps => Len(queue) < MaxQueued
=============================================================================
