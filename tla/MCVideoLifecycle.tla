-------------------------- MODULE MCVideoLifecycle --------------------------
(* VideoLifecycle for TLC: videos and request goroutines are alike.        *)
EXTENDS VideoLifecycle, TLC

Symmetry == Permutations(Videos) \cup Permutations(Procs)
=============================================================================
