--------------------------- MODULE MCSyncHistory ----------------------------
(***************************************************************************)
(* Instances of SyncHistory for TLC.                                       *)
(***************************************************************************)
EXTENDS SyncHistory, TLC

CONSTANTS d1, d2, r1, r2

NoFills  == {}
OneFill  == {<<r1, r2>>}
NoSkew   == [d \in Devices |-> 0]
FarAhead == [d \in Devices |-> IF d = d1 THEN 2 ELSE 0]

AlikeDevices == Permutations(Devices)

=============================================================================
