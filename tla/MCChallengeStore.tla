-------------------------- MODULE MCChallengeStore --------------------------
(* Symmetry for checking ChallengeStore with TLC. *)
EXTENDS ChallengeStore, TLC

\* Worker slots are interchangeable, and ids are random.
Symmetric == Permutations(Worker) \cup Permutations(Id)
=============================================================================
