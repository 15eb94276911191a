-------------------------- MODULE MCSyncSettings ---------------------------
(***************************************************************************)
(* Instances of SyncSettings for TLC: settings that are one of two things, *)
(* and counts that are there or are not.                                   *)
(***************************************************************************)
EXTENDS SyncSettings

CONSTANTS d1, d2

TwoEach == [k \in Keys |-> IF k \in AppKeys THEN {1, 2} ELSE {0, 1}]

\* Clocks that go alike, and one that is ahead of the other.
Even  == [d \in Devices |-> 0]
Ahead == [d \in Devices |-> IF d = d2 THEN 2 ELSE 0]

\* Devices that use other settings, and one of which counts something.
SmallInit == /\ Init
             /\ using[d1] = [k \in Keys |-> 1]
             /\ \A k \in AppKeys : using[d2][k] = 2

SmallSpec == SmallInit /\ [][Next]_vars /\ Fairness

=============================================================================
