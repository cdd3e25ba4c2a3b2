----------------------------- MODULE MCLongPoll -----------------------------
(* LongPoll with symmetry: its state space is finite as it is. *)
EXTENDS LongPoll, TLC

Symmetry ==
  Permutations(Sessions) \cup Permutations(Instruments) \cup Permutations(Threads)
=============================================================================
