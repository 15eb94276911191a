------------------------- MODULE SharedHistory_proofs -----------------------
(***************************************************************************)
(* What follows from the promise of sync, for any devices and records: a   *)
(* specification shown to implement it has these properties too.           *)
(***************************************************************************)
EXTENDS SharedHistory, DriveState_proofs

Inv ==
  /\ history \in [Devices -> SUBSET Records]
  /\ word \in Word
  /\ byHand \in SUBSET Records
  /\ lost \in [Devices -> SUBSET Records]
  /\ \A r \in Records : word[r].tomb > 0 => r \in byHand

LEMMA InvInit == Init => Inv
<1>. SUFFICES ASSUME Init PROVE Inv
  OBVIOUS
<1>1. word \in Word
  BY BlankType DEF Init
<1>2. \A r \in Records : ~(word[r].tomb > 0)
  BY DEF Init, Blank
<1>3. lost \in [Devices -> SUBSET Records]
  BY DEF Init
<1>. QED BY <1>1, <1>2, <1>3 DEF Init, Inv

LEMMA InvNext == Inv /\ [Next]_vars => Inv'
<1>. SUFFICES ASSUME Inv, [Next]_vars PROVE Inv'
  OBVIOUS
<1>. USE DEF Inv
<1>1. CASE Tell
  <2>1. \A r \in Records : word'[r].tomb > 0 => r \in byHand
    BY <1>1 DEF Tell
  <2>. QED BY <1>1, <2>1 DEF Tell
<1>2. ASSUME NEW d \in Devices, Hand(d) PROVE Inv'
  BY <1>2 DEF Hand
<1>3. ASSUME NEW d \in Devices, Lose(d) PROVE Inv'
  BY <1>3 DEF Lose
<1>4. ASSUME NEW d \in Devices, Follow(d) PROVE Inv'
  BY <1>4 DEF Follow
<1>5. ASSUME NEW d \in Devices, Learn(d) \/ Forget(d) PROVE Inv'
  BY <1>5 DEF Learn, Forget
<1>6. CASE UNCHANGED vars
  BY <1>6 DEF vars
<1>. QED BY <1>1, <1>2, <1>3, <1>4, <1>5, <1>6 DEF Next

\* A session goes from a device only if it was deleted by hand somewhere, or
\* that device's store lost it (plan.rs, "missing is never deleted").
THEOREM NothingGoesUnaskedEver == Spec => NothingGoesUnasked
<1>1. ASSUME Inv, [Next]_vars
      PROVE  [\A d \in Devices : history[d] \ history'[d] \subseteq byHand' \cup lost'[d]]_vars
  <2>. SUFFICES ASSUME NEW d \in Devices, vars' # vars
                PROVE  history[d] \ history'[d] \subseteq byHand' \cup lost'[d]
    OBVIOUS
  <2>. USE <1>1 DEF Inv
  <2>1. CASE Tell
    BY <2>1 DEF Tell
  <2>2. ASSUME NEW e \in Devices, Hand(e) \/ Lose(e) \/ Learn(e) \/ Forget(e)
        PROVE  history[d] \ history'[d] \subseteq byHand' \cup lost'[d]
    BY <2>2 DEF Hand, Lose, Learn, Forget
  <2>3. ASSUME NEW e \in Devices, Follow(e)
        PROVE  history[d] \ history'[d] \subseteq byHand' \cup lost'[d]
    BY <2>3 DEF Follow
  <2>. QED BY <2>1, <2>2, <2>3 DEF Next
<1>. QED BY <1>1, InvInit, InvNext, PTL DEF Spec, NothingGoesUnasked

=============================================================================
