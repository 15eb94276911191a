-------------------------- MODULE MCSessionRuntime ---------------------------
(***************************************************************************)
(* Instances of SessionRuntime for TLC.                                    *)
(***************************************************************************)
EXTENDS SessionRuntime, TLC

CONSTANT Locks, Windows, CountDowns, RepeatCounts

\* The settings a learner may choose, those that matter here.
EverySetting ==
  [lock : Locks, window : Windows, countdown : CountDowns, repeats : RepeatCounts]

\* Answers of full length differ in nothing but being different.
Symmetry == Permutations(Whole)

=============================================================================
