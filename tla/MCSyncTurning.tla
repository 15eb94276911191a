--------------------------- MODULE MCSyncTurning ----------------------------
(***************************************************************************)
(* Instances of SyncTurning for TLC.                                       *)
(***************************************************************************)
EXTENDS SyncTurning

CONSTANTS d1, d2, p1, p2

\* On one device the learner may enter another passphrase.
OneSure == [d \in Devices |-> IF d = d1 THEN {p1} ELSE Phrases]

=============================================================================
