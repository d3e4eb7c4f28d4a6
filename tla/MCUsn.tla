------------------------------- MODULE MCUsn -------------------------------
(* Usn on small instances: threads are interchangeable.                    *)
EXTENDS Usn, TLC

ThreadSymmetry == Permutations(Threads)
=============================================================================
