---------------------------- MODULE MCHistoryStore --------------------------
(***************************************************************************)
(* HistoryStore on a small instance: the copies of the app are alike, and  *)
(* what each copy's watch has seen decides nothing where looks come        *)
(* whatever it says.                                                       *)
(***************************************************************************)
EXTENDS HistoryStore, TLC

Alike == Permutations(Copies)

Seen == <<disk, app, queue, work, answers, left, loading, ghosts, counts>>
=============================================================================
