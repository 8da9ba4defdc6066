----------------------------- MODULE MCLivestream -----------------------------
(* Instances of Livestream for TLC. Request goroutines, timers, stream keys *)
(* and replay ids are interchangeable.                                      *)
EXTENDS Livestream, TLC

Symmetry == Permutations(Procs) \cup Permutations(Timers) \cup Permutations(Videos) \cup Permutations(Keys)
=============================================================================
