------------------------- MODULE SyncTurning_proofs --------------------------
(***************************************************************************)
(* That devices settle on one keyring, for any devices, passphrases and    *)
(* bounds, faults and all.                                                 *)
(*                                                                         *)
(* What makes it so is that a keyring is numbered past every one before it *)
(* and never comes back: one that is the first in the drive stays the first*)
(* until it is taken away.  So the invariant is of every keyring a device  *)
(* holds, whether it goes by it, keeps it, found it, is joining with it or *)
(* syncs by it: it is the first in the drive, or not in the drive at all.  *)
(***************************************************************************)
EXTENDS SyncTurning, TLAPS

Least(r, in) == r \in in /\ \A s \in in : r <= s

\* A keyring a device may hold: the first in the drive, or not there.
Sound == {r \in -1..Len(made) : r \in rings => \A s \in rings : r <= s}

\* Any keyrings in the drive, the learner's deletions past, have a first.
HaveFirst == \A some \in SUBSET rings : some # {} => \E r \in some : Least(r, some)

HeldAreSound ==
  \A d \in Devices :
    /\ {state[d], disk[d], found[d], task[d].first, sync[d].ring} \subseteq Sound
    /\ task[d].ring <= Len(made)

\* Who makes a keyring has a passphrase for it.
HasPhrase == \A d \in Devices : AtStep(d, "creating") => task[d].phrase \in Phrases

Inv == TypeOK /\ HasPhrase /\ HaveFirst /\ HeldAreSound

-----------------------------------------------------------------------------
(***************************************************************************)
(* The first of the keyrings.                                              *)
(***************************************************************************)
LEMMA FirstIsLeast ==
  ASSUME TypeOK, HaveFirst, rings # {}
  PROVE  Least(First(rings), rings)
<1>1. \E r \in rings : Least(r, rings)
  BY DEF HaveFirst
<1>. QED BY <1>1 DEF First, Least

LEMMA FirstIsSound ==
  ASSUME TypeOK, HaveFirst
  PROVE  First(rings) \in Sound /\ First(rings) \in Nat
<1>0. rings \subseteq 1..Len(made) /\ Len(made) \in Nat
  BY DEF TypeOK
<1>1. CASE rings = {}
  BY <1>0, <1>1 DEF First, Sound, Nothing
<1>2. CASE rings # {}
  <2>1. First(rings) \in rings /\ \A s \in rings : First(rings) <= s
    BY <1>2, FirstIsLeast DEF Least
  <2>2. First(rings) \in 1..Len(made)
    BY <1>0, <2>1
  <2>. QED BY <1>0, <2>1, <2>2 DEF Sound
<1>. QED BY <1>1, <1>2

\* One that stands where the drive's first is its own, or there is none.
LEMMA RingIsSound ==
  ASSUME TypeOK, HaveFirst, NEW r \in Nat, r <= Len(made), First(rings) \in {r, Nothing}
  PROVE  r \in Sound
<1>0. rings \subseteq 1..Len(made) /\ Len(made) \in Nat
  BY DEF TypeOK
<1>1. CASE rings = {}
  BY <1>0, <1>1 DEF Sound
<1>2. CASE rings # {}
  <2>1. First(rings) \in rings
    BY <1>2, FirstIsLeast DEF Least
  <2>2. First(rings) = r
    BY <1>0, <2>1 DEF Nothing
  <2>. QED BY <2>2, FirstIsSound
<1>. QED BY <1>1, <1>2

\* No keyring is made, but one may be taken away.
Shrinks == made' = made /\ rings' \subseteq rings

\* One is made.
Grows == \E phrase \in Phrases : /\ made' = Append(made, phrase)
                                 /\ rings' = rings \cup {Len(made) + 1}

\* A keyring taken away, or made, makes no other unsound.
LEMMA StaysSound ==
  ASSUME TypeOK, Shrinks \/ Grows
  PROVE  Sound \subseteq Sound' /\ Len(made) <= Len(made)'
<1>1. rings \subseteq 1..Len(made) /\ Len(made) \in Nat
  BY DEF TypeOK
<1>2. CASE Shrinks
  BY <1>1, <1>2 DEF Sound, Shrinks
<1>3. CASE Grows
  <2>1. Len(made') = Len(made) + 1
    BY <1>3 DEF Grows, TypeOK
  <2>. QED BY <1>1, <1>3, <2>1 DEF Sound, Grows
<1>. QED BY <1>2, <1>3

LEMMA StillHaveFirst ==
  ASSUME TypeOK, HaveFirst, Shrinks \/ Grows
  PROVE  HaveFirst'
<1>. SUFFICES ASSUME NEW some \in SUBSET rings', some # {}
              PROVE  \E r \in some : Least(r, some)
  BY DEF HaveFirst
<1>1. rings \subseteq 1..Len(made) /\ Len(made) \in Nat
  BY DEF TypeOK
<1>2. CASE some \subseteq rings
  BY <1>2 DEF HaveFirst
<1>3. CASE Grows /\ some \cap rings = {}
  <2>1. some = {Len(made) + 1}
    BY <1>3 DEF Grows
  <2>. QED BY <2>1, <1>1 DEF Least
<1>4. CASE Grows /\ some \cap rings # {}
  <2>1. PICK r \in some \cap rings : Least(r, some \cap rings)
    BY <1>4 DEF HaveFirst
  <2>2. \A s \in some : s \in rings \/ s = Len(made) + 1
    BY <1>4 DEF Grows
  <2>3. \A s \in some \cap rings : r <= s
    BY <2>1 DEF Least
  <2>4. r \in 1..Len(made)
    BY <1>1
  <2>5. ASSUME NEW s \in some PROVE r <= s
    BY <2>2, <2>3, <2>4, <1>1
  <2>. QED BY <2>5 DEF Least
<1>. QED BY <1>2, <1>3, <1>4 DEF Shrinks

-----------------------------------------------------------------------------
(***************************************************************************)
(* Types.                                                                  *)
(***************************************************************************)
LEMMA CardTypes ==
  /\ \A at \in {"off", "signing in", "passphrase", "unlocking", "on", "turning off"} :
       Card(at) \in Cards
  /\ [Card("on") EXCEPT !.needs = TRUE] \in Cards
BY DEF Card, Cards

\* The steps of a task.
Steps == {"idle", "asking", "renewing", "looking", "opening", "creating", "checking",
          "removing", "fetching", "waiting", "deleting"}

LEMMA IdleType == Idle \in Tasks
BY CardTypes DEF Idle, Tasks

LEMMA TaskTypes ==
  ASSUME NEW t \in Tasks, NEW step \in Steps
  PROVE  /\ [t EXCEPT !.step = step] \in Tasks
         /\ \A ring \in Nat : [t EXCEPT !.step = step, !.ring = ring] \in Tasks
         /\ \A ring \in Nat : [t EXCEPT !.step = step, !.first = ring] \in Tasks
         /\ \A ring \in Nat, phrase \in Phrases :
              [t EXCEPT !.step = step, !.first = ring, !.phrase = phrase] \in Tasks
         /\ \A before \in Cards : [t EXCEPT !.step = step, !.before = before] \in Tasks
         /\ \A left \in SUBSET Nat : [t EXCEPT !.step = step, !.left = left] \in Tasks
         /\ \A left \in SUBSET Nat : [t EXCEPT !.left = left] \in Tasks
         /\ {t.ring, t.first} \subseteq Nat /\ t.left \in SUBSET Nat /\ t.before \in Cards
BY DEF Tasks, Steps

Syncing == [step : {"idle", "listing", "working"}, ring : Nat]

LEMMA SyncNowTypes ==
  ASSUME TypeOK, NEW d \in Devices, NEW kept \in Nat, NEW before \in Syncing,
         SyncNow(d, kept, before)
  PROVE  /\ sync' \in [Devices -> Syncing]
         /\ again' \in [Devices -> BOOLEAN] /\ asked' \in [Devices -> BOOLEAN]
BY DEF TypeOK, SyncNow, Syncing, NoSync, Nothing

LEMMA EndSyncTypes ==
  ASSUME TypeOK, NEW d \in Devices, NEW kept \in Nat, EndSync(d, kept)
  PROVE  /\ sync' \in [Devices -> Syncing]
         /\ again' \in [Devices -> BOOLEAN] /\ asked' \in [Devices -> BOOLEAN]
<1>1. NoSync \in Syncing
  BY DEF NoSync, Syncing
<1>2. CASE again[d]
  BY <1>1, <1>2, SyncNowTypes DEF EndSync
<1>3. CASE ~again[d]
  <2>1. sync \in [Devices -> Syncing]
    BY DEF TypeOK, Syncing
  <2>. QED BY <1>1, <1>3, <2>1 DEF EndSync, TypeOK
<1>. QED BY <1>2, <1>3

LEMMA TypeNext == Inv /\ [Next]_vars => TypeOK'
<1>. SUFFICES ASSUME Inv, [Next]_vars PROVE TypeOK'
  OBVIOUS
<1>1. ASSUME NEW d \in Devices, SignIn(d) PROVE TypeOK'
  <2>0. \A step \in Steps : [task[d] EXCEPT !.step = step] \in Tasks
    BY TaskTypes DEF TypeOK, Inv
  <2>1. task' \in [Devices -> Tasks]
    BY <1>1, <2>0 DEF TypeOK, Inv, SignIn, Step, Does, Steps
  <2>2. card' \in [Devices -> Cards]
    BY <1>1, CardTypes DEF TypeOK, Inv, SignIn, Step, Does, Show, AtStep, On, Syncing, Steps, drive, counts
  <2>3. state' \in [Devices -> Nat] /\ disk' \in [Devices -> Nat]
    BY <1>1 DEF TypeOK, Inv, SignIn, Step, Does, Show, AtStep, On, Syncing, Steps, drive, counts
  <2>4. token' \in [Devices -> BOOLEAN] /\ found' \in [Devices -> Nat \cup {NoneYet}]
    BY <1>1 DEF TypeOK, Inv, SignIn, Step, Does, Show, AtStep, On, Syncing, Steps, drive, counts
  <2>5. sync' \in [Devices -> Syncing] /\ again' \in [Devices -> BOOLEAN] /\ asked' \in [Devices -> BOOLEAN]
    BY <1>1 DEF TypeOK, Inv, SignIn, Step, Does, Show, AtStep, On, Syncing, Steps, drive, counts
  <2>6. /\ made' \in Seq(Phrases) /\ rings' \subseteq 1..Len(made') /\ soon' \in [Devices -> BOOLEAN]
       /\ asks' \in Nat /\ offs' \in Nat /\ faults' \in Nat
    BY <1>1 DEF TypeOK, Inv, SignIn, Step, Does, Show, AtStep, On, drive, counts
  <2>. QED BY <2>1, <2>2, <2>3, <2>4, <2>5, <2>6 DEF TypeOK, Syncing
<1>2. ASSUME NEW d \in Devices, SignedIn(d) PROVE TypeOK'
  BY <1>2, CardTypes, IdleType, TaskTypes DEF TypeOK, Inv, SignedIn, Step, Does, AtStep, Syncing, Steps, drive, counts
<1>3. ASSUME NEW d \in Devices, Renewed(d) PROVE TypeOK'
  BY <1>3, SyncNowTypes, CardTypes, IdleType, TaskTypes DEF TypeOK, Inv, Renewed, AtStep, Does, Show, On, Syncing, Steps, drive, counts
<1>4. ASSUME NEW d \in Devices, NotSignedIn(d) PROVE TypeOK'
  BY <1>4, CardTypes, IdleType, TaskTypes DEF TypeOK, Inv, NotSignedIn, Does, Show, AtStep, Syncing, Steps, drive, counts
<1>5. ASSUME NEW d \in Devices, Cancel(d) PROVE TypeOK'
  BY <1>5, CardTypes, IdleType, TaskTypes DEF TypeOK, Inv, Cancel, AtStep, Does, Show, Syncing, Steps, drive, counts
<1>6. ASSUME NEW d \in Devices, Stored(d) PROVE TypeOK'
  <2>1. task' \in [Devices -> Tasks]
    BY <1>6, IdleType, TaskTypes DEF TypeOK, Inv, Stored, Soon, Syncing, Steps, drive, counts
  <2>2. card' \in [Devices -> Cards]
    BY <1>6, CardTypes DEF TypeOK, Inv, Stored, Soon, Syncing, Steps, drive, counts
  <2>3. state' \in [Devices -> Nat] /\ disk' \in [Devices -> Nat]
    BY <1>6 DEF TypeOK, Inv, Stored, Soon, Syncing, Steps, drive, counts
  <2>4. token' \in [Devices -> BOOLEAN] /\ found' \in [Devices -> Nat \cup {NoneYet}]
    BY <1>6 DEF TypeOK, Inv, Stored, Soon, Syncing, Steps, drive, counts
  <2>5. sync' \in [Devices -> Syncing] /\ again' \in [Devices -> BOOLEAN] /\ asked' \in [Devices -> BOOLEAN]
    BY <1>6 DEF TypeOK, Inv, Stored, Soon, Syncing, Steps, drive, counts
  <2>6. /\ made' \in Seq(Phrases) /\ rings' \subseteq 1..Len(made') /\ soon' \in [Devices -> BOOLEAN]
       /\ asks' \in Nat /\ offs' \in Nat /\ faults' \in Nat
    BY <1>6 DEF TypeOK, Inv, Stored, Soon, drive, counts
  <2>. QED BY <2>1, <2>2, <2>3, <2>4, <2>5, <2>6 DEF TypeOK, Syncing
<1>7. ASSUME NEW d \in Devices, TurnOffHere(d) PROVE TypeOK'
  <2>1. task' \in [Devices -> Tasks]
    BY <1>7, IdleType, TaskTypes DEF TypeOK, Inv, TurnOffHere, Forget, Keep, Show, Nothing, Syncing, Steps, drive, counts
  <2>2. card' \in [Devices -> Cards]
    BY <1>7, CardTypes DEF TypeOK, Inv, TurnOffHere, Forget, Keep, Show, Nothing, Syncing, Steps, drive, counts
  <2>3. state' \in [Devices -> Nat] /\ disk' \in [Devices -> Nat]
    BY <1>7 DEF TypeOK, Inv, TurnOffHere, Forget, Keep, Show, Nothing, Syncing, Steps, drive, counts
  <2>4. token' \in [Devices -> BOOLEAN] /\ found' \in [Devices -> Nat \cup {NoneYet}]
    BY <1>7 DEF TypeOK, Inv, TurnOffHere, Forget, Keep, Show, Nothing, Syncing, Steps, drive, counts
  <2>5. sync' \in [Devices -> Syncing] /\ again' \in [Devices -> BOOLEAN] /\ asked' \in [Devices -> BOOLEAN]
    BY <1>7 DEF TypeOK, Inv, TurnOffHere, Forget, Keep, Show, Nothing, Syncing, Steps, drive, counts
  <2>6. /\ made' \in Seq(Phrases) /\ rings' \subseteq 1..Len(made') /\ soon' \in [Devices -> BOOLEAN]
       /\ asks' \in Nat /\ offs' \in Nat /\ faults' \in Nat
    BY <1>7 DEF TypeOK, Inv, TurnOffHere, Forget, Keep, Show, Nothing, drive, counts
  <2>. QED BY <2>1, <2>2, <2>3, <2>4, <2>5, <2>6 DEF TypeOK, Syncing
<1>8. ASSUME NEW d \in Devices, TurnOffEverywhere(d) PROVE TypeOK'
  <2>1. task' \in [Devices -> Tasks]
    BY <1>8, IdleType, TaskTypes, CardTypes DEF TypeOK, Inv, TurnOffEverywhere, Does, Show, On, Syncing, Steps, drive, counts
  <2>2. card' \in [Devices -> Cards]
    BY <1>8, CardTypes DEF TypeOK, Inv, TurnOffEverywhere, Does, Show, On, Syncing, Steps, drive, counts
  <2>3. state' \in [Devices -> Nat] /\ disk' \in [Devices -> Nat]
    BY <1>8 DEF TypeOK, Inv, TurnOffEverywhere, Does, Show, On, Syncing, Steps, drive, counts
  <2>4. token' \in [Devices -> BOOLEAN] /\ found' \in [Devices -> Nat \cup {NoneYet}]
    BY <1>8 DEF TypeOK, Inv, TurnOffEverywhere, Does, Show, On, Syncing, Steps, drive, counts
  <2>5. sync' \in [Devices -> Syncing] /\ again' \in [Devices -> BOOLEAN] /\ asked' \in [Devices -> BOOLEAN]
    BY <1>8 DEF TypeOK, Inv, TurnOffEverywhere, Does, Show, On, Syncing, Steps, drive, counts
  <2>6. /\ made' \in Seq(Phrases) /\ rings' \subseteq 1..Len(made') /\ soon' \in [Devices -> BOOLEAN]
       /\ asks' \in Nat /\ offs' \in Nat /\ faults' \in Nat
    <3>1. /\ offs' = offs + 1
          /\ UNCHANGED <<made, rings, soon, asks, faults>>
      BY <1>8 DEF TurnOffEverywhere, drive
    <3>. QED BY <3>1 DEF TypeOK, Inv
  <2>. QED BY <2>1, <2>2, <2>3, <2>4, <2>5, <2>6 DEF TypeOK, Syncing
<1>9. ASSUME NEW d \in Devices, Looked(d) PROVE TypeOK'
  BY <1>9, FirstIsSound, CardTypes, IdleType, TaskTypes DEF TypeOK, Inv, Looked, AtStep, Does, Show, Syncing, Steps, drive, counts
<1>10. ASSUME NEW d \in Devices, Open(d) PROVE TypeOK'
  <2>0. task[d].first \in Nat
    BY TaskTypes DEF TypeOK, Inv, Steps
  <2>1. task' \in [Devices -> Tasks]
    BY <1>10, IdleType, TaskTypes DEF TypeOK, Inv, Open, AtStep, TurnedOn, NotTurnedOn, Keep, Show, Does, Syncing, Steps, drive, counts
  <2>2. card' \in [Devices -> Cards]
    BY <1>10, CardTypes DEF TypeOK, Inv, Open, AtStep, TurnedOn, NotTurnedOn, Keep, Show, Does, Syncing, Steps, drive, counts
  <2>3. state' \in [Devices -> Nat] /\ disk' \in [Devices -> Nat]
    BY <1>10, <2>0 DEF TypeOK, Inv, Open, TurnedOn, NotTurnedOn, Keep
  <2>4. token' \in [Devices -> BOOLEAN] /\ found' \in [Devices -> Nat \cup {NoneYet}]
    BY <1>10 DEF TypeOK, Inv, Open, AtStep, TurnedOn, NotTurnedOn, Keep, Show, Does, Syncing, Steps, drive, counts
  <2>5. sync' \in [Devices -> Syncing] /\ again' \in [Devices -> BOOLEAN] /\ asked' \in [Devices -> BOOLEAN]
    BY <1>10, SyncNowTypes, TaskTypes DEF TypeOK, Inv, Open, AtStep, TurnedOn, NotTurnedOn, Keep, Show, Does, Syncing, Steps, drive, counts
  <2>6. /\ made' \in Seq(Phrases) /\ rings' \subseteq 1..Len(made') /\ soon' \in [Devices -> BOOLEAN]
       /\ asks' \in Nat /\ offs' \in Nat /\ faults' \in Nat
    BY <1>10 DEF TypeOK, Inv, Open, AtStep, TurnedOn, NotTurnedOn, Keep, Show, Does, drive, counts
  <2>. QED BY <2>1, <2>2, <2>3, <2>4, <2>5, <2>6 DEF TypeOK, Syncing
<1>11. ASSUME NEW d \in Devices, Create(d) PROVE TypeOK'
  <2>0. Len(made) + 1 \in Nat /\ task[d].phrase \in Phrases
    BY <1>11 DEF TypeOK, Inv, HasPhrase, Create
  <2>1. task' \in [Devices -> Tasks]
    <3>1. [task[d] EXCEPT !.step = "checking", !.ring = Len(made) + 1] \in Tasks
      BY <2>0, TaskTypes DEF TypeOK, Inv, Steps
    <3>. QED BY <1>11, <3>1 DEF TypeOK, Inv, Create, Does
  <2>2. card' \in [Devices -> Cards]
    BY <1>11, CardTypes DEF TypeOK, Inv, Create, AtStep, Does, Syncing, Steps, drive, counts
  <2>3. state' \in [Devices -> Nat] /\ disk' \in [Devices -> Nat]
    BY <1>11 DEF TypeOK, Inv, Create, AtStep, Does, Syncing, Steps, drive, counts
  <2>4. token' \in [Devices -> BOOLEAN] /\ found' \in [Devices -> Nat \cup {NoneYet}]
    BY <1>11 DEF TypeOK, Inv, Create, AtStep, Does, Syncing, Steps, drive, counts
  <2>5. sync' \in [Devices -> Syncing] /\ again' \in [Devices -> BOOLEAN] /\ asked' \in [Devices -> BOOLEAN]
    BY <1>11 DEF TypeOK, Inv, Create, AtStep, Does, Syncing, Steps, drive, counts
  <2>6. /\ made' \in Seq(Phrases) /\ rings' \subseteq 1..Len(made') /\ soon' \in [Devices -> BOOLEAN]
       /\ asks' \in Nat /\ offs' \in Nat /\ faults' \in Nat
    <3>1. Len(made') = Len(made) + 1 /\ made' \in Seq(Phrases)
      BY <1>11, <2>0 DEF TypeOK, Inv, Create
    <3>. QED BY <1>11, <2>0, <3>1 DEF TypeOK, Inv, Create, counts
  <2>. QED BY <2>1, <2>2, <2>3, <2>4, <2>5, <2>6 DEF TypeOK, Syncing
<1>12. ASSUME NEW d \in Devices, Check(d) PROVE TypeOK'
  <2>0. task[d].ring \in Nat
    BY TaskTypes DEF TypeOK, Inv, Steps
  <2>1. task' \in [Devices -> Tasks]
    <3>1. [task[d] EXCEPT !.step = "removing", !.first = First(rings)] \in Tasks
      BY FirstIsSound, TaskTypes DEF TypeOK, Inv, Steps
    <3>. QED BY <1>12, <3>1, IdleType DEF TypeOK, Inv, Check, Does
  <2>2. card' \in [Devices -> Cards]
    BY <1>12, CardTypes DEF TypeOK, Inv, Check, AtStep, TurnedOn, Keep, Show, Does, Syncing, Steps, drive, counts
  <2>3. state' \in [Devices -> Nat] /\ disk' \in [Devices -> Nat]
    BY <1>12, <2>0 DEF TypeOK, Inv, Check, TurnedOn, Keep
  <2>4. token' \in [Devices -> BOOLEAN] /\ found' \in [Devices -> Nat \cup {NoneYet}]
    BY <1>12, FirstIsSound DEF TypeOK, Inv, Check, AtStep, TurnedOn, Keep, Show, Does, Syncing, Steps, drive, counts
  <2>5. sync' \in [Devices -> Syncing] /\ again' \in [Devices -> BOOLEAN] /\ asked' \in [Devices -> BOOLEAN]
    BY <1>12, SyncNowTypes, FirstIsSound, TaskTypes DEF TypeOK, Inv, Check, AtStep, TurnedOn, Keep, Show, Does, Syncing, Steps, drive, counts
  <2>6. /\ made' \in Seq(Phrases) /\ rings' \subseteq 1..Len(made') /\ soon' \in [Devices -> BOOLEAN]
       /\ asks' \in Nat /\ offs' \in Nat /\ faults' \in Nat
    BY <1>12 DEF TypeOK, Inv, Check, AtStep, TurnedOn, Keep, Show, Does, drive, counts
  <2>. QED BY <2>1, <2>2, <2>3, <2>4, <2>5, <2>6 DEF TypeOK, Syncing
<1>13. ASSUME NEW d \in Devices, Remove(d) PROVE TypeOK'
  BY <1>13, CardTypes, IdleType, TaskTypes DEF TypeOK, Inv, Remove, AtStep, Step, Does, Syncing, Steps, drive, counts
<1>14. ASSUME NEW d \in Devices, JoinFails(d) PROVE TypeOK'
  <2>1. task' \in [Devices -> Tasks]
    BY <1>14, IdleType, TaskTypes DEF TypeOK, Inv, JoinFails, Does, NotTurnedOn, Show, MayFault, AtStep, Syncing, Steps, drive, counts
  <2>2. card' \in [Devices -> Cards]
    BY <1>14, CardTypes DEF TypeOK, Inv, JoinFails, Does, NotTurnedOn, Show, MayFault, AtStep, Syncing, Steps, drive, counts
  <2>3. state' \in [Devices -> Nat] /\ disk' \in [Devices -> Nat]
    BY <1>14 DEF TypeOK, Inv, JoinFails, Does, NotTurnedOn, Show, MayFault, AtStep, Syncing, Steps, drive, counts
  <2>4. token' \in [Devices -> BOOLEAN] /\ found' \in [Devices -> Nat \cup {NoneYet}]
    BY <1>14 DEF TypeOK, Inv, JoinFails, Does, NotTurnedOn, Show, MayFault, AtStep, Syncing, Steps, drive, counts
  <2>5. sync' \in [Devices -> Syncing] /\ again' \in [Devices -> BOOLEAN] /\ asked' \in [Devices -> BOOLEAN]
    BY <1>14 DEF TypeOK, Inv, JoinFails, Does, NotTurnedOn, Show, MayFault, AtStep, Syncing, Steps, drive, counts
  <2>6. /\ made' \in Seq(Phrases) /\ rings' \subseteq 1..Len(made') /\ soon' \in [Devices -> BOOLEAN]
       /\ asks' \in Nat /\ offs' \in Nat /\ faults' \in Nat
    BY <1>14 DEF TypeOK, Inv, JoinFails, Does, NotTurnedOn, Show, MayFault, AtStep, drive, counts
  <2>. QED BY <2>1, <2>2, <2>3, <2>4, <2>5, <2>6 DEF TypeOK, Syncing
<1>15. ASSUME NEW d \in Devices, ListDrive(d) PROVE TypeOK'
  <2>1. task' \in [Devices -> Tasks]
    BY <1>15, IdleType, TaskTypes DEF TypeOK, Inv, ListDrive, Forget, Keep, Show, Nothing, Syncing, Steps, drive, counts
  <2>2. card' \in [Devices -> Cards]
    BY <1>15, CardTypes DEF TypeOK, Inv, ListDrive, Forget, Keep, Show, Nothing, Syncing, Steps, drive, counts
  <2>3. state' \in [Devices -> Nat] /\ disk' \in [Devices -> Nat]
    <3>1. UNCHANGED <<state, disk>> \/ Keep(d, Nothing)
      BY <1>15 DEF ListDrive, Forget
    <3>2. state \in [Devices -> Nat] /\ disk \in [Devices -> Nat]
      BY DEF TypeOK, Inv
    <3>. QED BY <3>1, <3>2 DEF Keep, Nothing
  <2>4. token' \in [Devices -> BOOLEAN] /\ found' \in [Devices -> Nat \cup {NoneYet}]
    BY <1>15 DEF TypeOK, Inv, ListDrive, Forget, Keep, Show, Nothing, Syncing, Steps, drive, counts
  <2>5. sync' \in [Devices -> Syncing] /\ again' \in [Devices -> BOOLEAN] /\ asked' \in [Devices -> BOOLEAN]
    <3>1. \/ /\ sync' = [sync EXCEPT ![d].step = "working"]
             /\ again' = again /\ asked' = asked
          \/ EndSync(d, Nothing)
      BY <1>15 DEF ListDrive
    <3>2. CASE EndSync(d, Nothing)
      BY <3>2, EndSyncTypes DEF Inv, Nothing
    <3>3. CASE /\ sync' = [sync EXCEPT ![d].step = "working"]
               /\ again' = again /\ asked' = asked
      BY <3>3 DEF TypeOK, Inv, Syncing
    <3>. QED BY <3>1, <3>2, <3>3
  <2>6. /\ made' \in Seq(Phrases) /\ rings' \subseteq 1..Len(made') /\ soon' \in [Devices -> BOOLEAN]
       /\ asks' \in Nat /\ offs' \in Nat /\ faults' \in Nat
    BY <1>15 DEF TypeOK, Inv, ListDrive, Forget, Keep, Show, Nothing, drive, counts
  <2>. QED BY <2>1, <2>2, <2>3, <2>4, <2>5, <2>6 DEF TypeOK, Syncing
<1>16. ASSUME NEW d \in Devices, SyncEnds(d) PROVE TypeOK'
  BY <1>16, EndSyncTypes, CardTypes, IdleType, TaskTypes DEF TypeOK, Inv, SyncEnds, Keep, Show, On, Running, Syncing, Steps, drive, counts
<1>17. ASSUME NEW d \in Devices, SyncSignedOut(d) PROVE TypeOK'
  BY <1>17, EndSyncTypes, CardTypes, IdleType, TaskTypes DEF TypeOK, Inv, SyncSignedOut, Keep, Show, On, Running, Syncing, Steps, drive, counts
<1>18. ASSUME NEW d \in Devices, ListCopy(d) PROVE TypeOK'
  <2>1. task' \in [Devices -> Tasks]
    <3>1. rings \cup {Rest} \in SUBSET Nat
      BY DEF TypeOK, Inv, Rest
    <3>2. [task[d] EXCEPT !.step = "deleting", !.left = rings \cup {Rest}] \in Tasks
      BY <3>1, TaskTypes DEF TypeOK, Inv, Steps
    <3>. QED BY <1>18, <3>2 DEF TypeOK, Inv, ListCopy, Does
  <2>2. card' \in [Devices -> Cards]
    BY <1>18, CardTypes DEF TypeOK, Inv, ListCopy, AtStep, Does, Rest, Syncing, Steps, drive, counts
  <2>3. state' \in [Devices -> Nat] /\ disk' \in [Devices -> Nat]
    BY <1>18 DEF TypeOK, Inv, ListCopy, AtStep, Does, Rest, Syncing, Steps, drive, counts
  <2>4. token' \in [Devices -> BOOLEAN] /\ found' \in [Devices -> Nat \cup {NoneYet}]
    BY <1>18 DEF TypeOK, Inv, ListCopy, AtStep, Does, Rest, Syncing, Steps, drive, counts
  <2>5. sync' \in [Devices -> Syncing] /\ again' \in [Devices -> BOOLEAN] /\ asked' \in [Devices -> BOOLEAN]
    BY <1>18 DEF TypeOK, Inv, ListCopy, AtStep, Does, Rest, Syncing, Steps, drive, counts
  <2>6. /\ made' \in Seq(Phrases) /\ rings' \subseteq 1..Len(made') /\ soon' \in [Devices -> BOOLEAN]
       /\ asks' \in Nat /\ offs' \in Nat /\ faults' \in Nat
    BY <1>18 DEF TypeOK, Inv, ListCopy, AtStep, Does, Rest, drive, counts
  <2>. QED BY <2>1, <2>2, <2>3, <2>4, <2>5, <2>6 DEF TypeOK, Syncing
<1>19. ASSUME NEW d \in Devices, DeleteNext(d) PROVE TypeOK'
  <2>1. task' \in [Devices -> Tasks]
    <3>1. PICK file \in task[d].left : Does(d, [task[d] EXCEPT !.left = @ \ {file}])
      BY <1>19 DEF DeleteNext
    <3>2. task[d].left \ {file} \in SUBSET Nat
      BY TaskTypes DEF TypeOK, Inv, Steps
    <3>3. [task[d] EXCEPT !.left = task[d].left \ {file}] \in Tasks
      BY <3>2, TaskTypes DEF TypeOK, Inv, Steps
    <3>. QED BY <3>1, <3>3 DEF TypeOK, Inv, Does
  <2>2. card' \in [Devices -> Cards]
    BY <1>19, CardTypes DEF TypeOK, Inv, DeleteNext, AtStep, Does, Rest, Syncing, Steps, drive, counts
  <2>3. state' \in [Devices -> Nat] /\ disk' \in [Devices -> Nat]
    BY <1>19 DEF TypeOK, Inv, DeleteNext, AtStep, Does, Rest, Syncing, Steps, drive, counts
  <2>4. token' \in [Devices -> BOOLEAN] /\ found' \in [Devices -> Nat \cup {NoneYet}]
    BY <1>19 DEF TypeOK, Inv, DeleteNext, AtStep, Does, Rest, Syncing, Steps, drive, counts
  <2>5. sync' \in [Devices -> Syncing] /\ again' \in [Devices -> BOOLEAN] /\ asked' \in [Devices -> BOOLEAN]
    BY <1>19 DEF TypeOK, Inv, DeleteNext, AtStep, Does, Rest, Syncing, Steps, drive, counts
  <2>6. /\ made' \in Seq(Phrases) /\ rings' \subseteq 1..Len(made') /\ soon' \in [Devices -> BOOLEAN]
       /\ asks' \in Nat /\ offs' \in Nat /\ faults' \in Nat
    BY <1>19 DEF TypeOK, Inv, DeleteNext, AtStep, Does, Rest, drive, counts
  <2>. QED BY <2>1, <2>2, <2>3, <2>4, <2>5, <2>6 DEF TypeOK, Syncing
<1>20. ASSUME NEW d \in Devices, CopyDeleted(d) PROVE TypeOK'
  BY <1>20, CardTypes, IdleType, TaskTypes DEF TypeOK, Inv, CopyDeleted, AtStep, Forget, Keep, Show, Does, Nothing, Syncing, Steps, drive, counts
<1>21. ASSUME NEW d \in Devices, DeletingFails(d) PROVE TypeOK'
  <2>1. task' \in [Devices -> Tasks]
    BY <1>21, IdleType, TaskTypes DEF TypeOK, Inv, DeletingFails, AtStep, MayFault, Show, Does, Syncing, Steps, drive, counts
  <2>2. card' \in [Devices -> Cards]
    BY <1>21, CardTypes, TaskTypes DEF TypeOK, Inv, DeletingFails, AtStep, MayFault, Show, Does, Syncing, Steps, drive, counts
  <2>3. state' \in [Devices -> Nat] /\ disk' \in [Devices -> Nat]
    BY <1>21 DEF TypeOK, Inv, DeletingFails, AtStep, MayFault, Show, Does, Syncing, Steps, drive, counts
  <2>4. token' \in [Devices -> BOOLEAN] /\ found' \in [Devices -> Nat \cup {NoneYet}]
    BY <1>21 DEF TypeOK, Inv, DeletingFails, AtStep, MayFault, Show, Does, Syncing, Steps, drive, counts
  <2>5. sync' \in [Devices -> Syncing] /\ again' \in [Devices -> BOOLEAN] /\ asked' \in [Devices -> BOOLEAN]
    BY <1>21 DEF TypeOK, Inv, DeletingFails, AtStep, MayFault, Show, Does, Syncing, Steps, drive, counts
  <2>6. /\ made' \in Seq(Phrases) /\ rings' \subseteq 1..Len(made') /\ soon' \in [Devices -> BOOLEAN]
       /\ asks' \in Nat /\ offs' \in Nat /\ faults' \in Nat
    BY <1>21 DEF TypeOK, Inv, DeletingFails, AtStep, MayFault, Show, Does, drive, counts
  <2>. QED BY <2>1, <2>2, <2>3, <2>4, <2>5, <2>6 DEF TypeOK, Syncing
<1>22. ASSUME NEW d \in Devices, SoonOver(d) PROVE TypeOK'
  BY <1>22, SyncNowTypes, CardTypes, IdleType, TaskTypes DEF TypeOK, Inv, SoonOver, Syncing, Steps, drive, counts
<1>23. ASSUME NEW d \in Devices, ComesIntoSight(d) PROVE TypeOK'
  BY <1>23, CardTypes, IdleType, TaskTypes DEF TypeOK, Inv, ComesIntoSight, Soon, Syncing, Steps, drive, counts
<1>24. ASSUME NEW d \in Devices, LookFails(d) PROVE TypeOK'
  <2>1. task' \in [Devices -> Tasks]
    BY <1>24, IdleType, TaskTypes DEF TypeOK, Inv, LookFails, AtStep, MayFault, Does, Show, Syncing, Steps, drive, counts
  <2>2. card' \in [Devices -> Cards]
    BY <1>24, CardTypes DEF TypeOK, Inv, LookFails, AtStep, MayFault, Does, Show, Syncing, Steps, drive, counts
  <2>3. state' \in [Devices -> Nat] /\ disk' \in [Devices -> Nat]
    BY <1>24 DEF TypeOK, Inv, LookFails, AtStep, MayFault, Does, Show, Syncing, Steps, drive, counts
  <2>4. token' \in [Devices -> BOOLEAN] /\ found' \in [Devices -> Nat \cup {NoneYet}]
    BY <1>24 DEF TypeOK, Inv, LookFails, AtStep, MayFault, Does, Show, Syncing, Steps, drive, counts
  <2>5. sync' \in [Devices -> Syncing] /\ again' \in [Devices -> BOOLEAN] /\ asked' \in [Devices -> BOOLEAN]
    BY <1>24 DEF TypeOK, Inv, LookFails, AtStep, MayFault, Does, Show, Syncing, Steps, drive, counts
  <2>6. /\ made' \in Seq(Phrases) /\ rings' \subseteq 1..Len(made') /\ soon' \in [Devices -> BOOLEAN]
       /\ asks' \in Nat /\ offs' \in Nat /\ faults' \in Nat
    BY <1>24 DEF TypeOK, Inv, LookFails, AtStep, MayFault, Does, Show, drive, counts
  <2>. QED BY <2>1, <2>2, <2>3, <2>4, <2>5, <2>6 DEF TypeOK, Syncing
<1>25. ASSUME NEW d \in Devices, CreateAnswerLost(d) PROVE TypeOK'
  <2>1. task' \in [Devices -> Tasks]
    BY <1>25, IdleType, TaskTypes DEF TypeOK, Inv, CreateAnswerLost, MayFault, AtStep, Does, NotTurnedOn, Show, Syncing, Steps, drive, counts
  <2>2. card' \in [Devices -> Cards]
    BY <1>25, CardTypes DEF TypeOK, Inv, CreateAnswerLost, MayFault, AtStep, Does, NotTurnedOn, Show, Syncing, Steps, drive, counts
  <2>3. state' \in [Devices -> Nat] /\ disk' \in [Devices -> Nat]
    BY <1>25 DEF TypeOK, Inv, CreateAnswerLost, MayFault, AtStep, Does, NotTurnedOn, Show, Syncing, Steps, drive, counts
  <2>4. token' \in [Devices -> BOOLEAN] /\ found' \in [Devices -> Nat \cup {NoneYet}]
    BY <1>25 DEF TypeOK, Inv, CreateAnswerLost, MayFault, AtStep, Does, NotTurnedOn, Show, Syncing, Steps, drive, counts
  <2>5. sync' \in [Devices -> Syncing] /\ again' \in [Devices -> BOOLEAN] /\ asked' \in [Devices -> BOOLEAN]
    BY <1>25 DEF TypeOK, Inv, CreateAnswerLost, MayFault, AtStep, Does, NotTurnedOn, Show, Syncing, Steps, drive, counts
  <2>6. /\ made' \in Seq(Phrases) /\ rings' \subseteq 1..Len(made') /\ soon' \in [Devices -> BOOLEAN]
       /\ asks' \in Nat /\ offs' \in Nat /\ faults' \in Nat
    <3>1. Len(made) + 1 \in Nat /\ task[d].phrase \in Phrases
      BY <1>25 DEF TypeOK, Inv, HasPhrase, CreateAnswerLost
    <3>2. Len(made') = Len(made) + 1 /\ made' \in Seq(Phrases)
      BY <1>25, <3>1 DEF TypeOK, Inv, CreateAnswerLost
    <3>3. /\ rings' = rings \cup {Len(made) + 1} /\ faults' = faults + 1
          /\ UNCHANGED <<soon, asks, offs>>
      BY <1>25 DEF CreateAnswerLost, MayFault
    <3>4. /\ rings \subseteq 1..Len(made) /\ Len(made) \in Nat
          /\ soon \in [Devices -> BOOLEAN] /\ asks \in Nat /\ offs \in Nat /\ faults \in Nat
      BY DEF TypeOK, Inv
    <3>5. ASSUME NEW r \in rings' PROVE r \in 1..Len(made')
      <4>1. r \in 1..Len(made) \/ r = Len(made) + 1
        BY <3>3, <3>4
      <4>. QED BY <3>2, <3>4, <4>1
    <3>6. soon' \in [Devices -> BOOLEAN] /\ asks' \in Nat /\ offs' \in Nat /\ faults' \in Nat
      BY <3>3, <3>4
    <3>. QED BY <3>2, <3>5, <3>6
  <2>. QED BY <2>1, <2>2, <2>3, <2>4, <2>5, <2>6 DEF TypeOK, Syncing
<1>26. ASSUME NEW d \in Devices, Expire(d) PROVE TypeOK'
  <2>1. task' \in [Devices -> Tasks]
    BY <1>26, IdleType, TaskTypes DEF TypeOK, Inv, Expire, MayFault, Syncing, Steps, drive, counts
  <2>2. card' \in [Devices -> Cards]
    BY <1>26, CardTypes DEF TypeOK, Inv, Expire, MayFault, Syncing, Steps, drive, counts
  <2>3. state' \in [Devices -> Nat] /\ disk' \in [Devices -> Nat]
    BY <1>26 DEF TypeOK, Inv, Expire, MayFault, Syncing, Steps, drive, counts
  <2>4. token' \in [Devices -> BOOLEAN] /\ found' \in [Devices -> Nat \cup {NoneYet}]
    BY <1>26 DEF TypeOK, Inv, Expire, MayFault, Syncing, Steps, drive, counts
  <2>5. sync' \in [Devices -> Syncing] /\ again' \in [Devices -> BOOLEAN] /\ asked' \in [Devices -> BOOLEAN]
    BY <1>26 DEF TypeOK, Inv, Expire, MayFault, Syncing, Steps, drive, counts
  <2>6. /\ made' \in Seq(Phrases) /\ rings' \subseteq 1..Len(made') /\ soon' \in [Devices -> BOOLEAN]
       /\ asks' \in Nat /\ offs' \in Nat /\ faults' \in Nat
    BY <1>26 DEF TypeOK, Inv, Expire, MayFault, drive, counts
  <2>. QED BY <2>1, <2>2, <2>3, <2>4, <2>5, <2>6 DEF TypeOK, Syncing
<1>27. ASSUME NEW d \in Devices, Crash(d) PROVE TypeOK'
  <2>1. task' \in [Devices -> Tasks]
    BY <1>27, IdleType, TaskTypes DEF TypeOK, Inv, Crash, MayFault, Show, Does, NoSync, Nothing, Syncing, Steps, drive, counts
  <2>2. card' \in [Devices -> Cards]
    BY <1>27, CardTypes DEF TypeOK, Inv, Crash, MayFault, Show, Does, NoSync, Nothing, Syncing, Steps, drive, counts
  <2>3. state' \in [Devices -> Nat] /\ disk' \in [Devices -> Nat]
    BY <1>27 DEF TypeOK, Inv, Crash, MayFault, Show, Does, NoSync, Nothing, Syncing, Steps, drive, counts
  <2>4. token' \in [Devices -> BOOLEAN] /\ found' \in [Devices -> Nat \cup {NoneYet}]
    BY <1>27 DEF TypeOK, Inv, Crash, MayFault, Show, Does, NoSync, Nothing, Syncing, Steps, drive, counts
  <2>5. sync' \in [Devices -> Syncing] /\ again' \in [Devices -> BOOLEAN] /\ asked' \in [Devices -> BOOLEAN]
    BY <1>27 DEF TypeOK, Inv, Crash, MayFault, Show, Does, NoSync, Nothing, Syncing, Steps, drive, counts
  <2>6. /\ made' \in Seq(Phrases) /\ rings' \subseteq 1..Len(made') /\ soon' \in [Devices -> BOOLEAN]
       /\ asks' \in Nat /\ offs' \in Nat /\ faults' \in Nat
    BY <1>27 DEF TypeOK, Inv, Crash, MayFault, Show, Does, NoSync, Nothing, drive, counts
  <2>. QED BY <2>1, <2>2, <2>3, <2>4, <2>5, <2>6 DEF TypeOK, Syncing
<1>28. ASSUME NEW d \in Devices, NEW phrase \in Tried[d], Enter(d, phrase) PROVE TypeOK'
  BY <1>28, TriedAssumption, CardTypes, IdleType, TaskTypes DEF TypeOK, Inv, Enter, AtStep, Does, Show, NoneYet, Nothing, Syncing, Steps, drive, counts
<1>29. CASE UNCHANGED vars
  BY <1>29 DEF Inv, TypeOK, vars
<1>. QED BY <1>1, <1>2, <1>3, <1>4, <1>5, <1>6, <1>7, <1>8, <1>9, <1>10, <1>11, <1>12, <1>13, <1>14, <1>15, <1>16, <1>17, <1>18, <1>19, <1>20, <1>21, <1>22, <1>23, <1>24, <1>25, <1>26, <1>27, <1>28, <1>29
  DEF Next, Learner, Joins, Syncs, Deletes, Fault

-----------------------------------------------------------------------------
(***************************************************************************)
(* What a step leaves in the drive, and each device with.                  *)
(***************************************************************************)
LEMMA DriveNext == Inv /\ [Next]_vars => Shrinks \/ Grows
<1>. SUFFICES ASSUME Inv, [Next]_vars PROVE Shrinks \/ Grows
  OBVIOUS
<1>1. ASSUME NEW d \in Devices, Create(d) \/ CreateAnswerLost(d) PROVE Grows
  <2>1. task[d].phrase \in Phrases
    BY <1>1 DEF Inv, HasPhrase, Create, CreateAnswerLost
  <2>. QED BY <1>1, <2>1 DEF Create, CreateAnswerLost, Grows
<1>2. ASSUME NEW d \in Devices, Remove(d) \/ DeleteNext(d) PROVE Shrinks
  BY <1>2 DEF Remove, DeleteNext, Shrinks
<1>3. ASSUME NEW d \in Devices, Learner(d) \/ SoonOver(d) \/ ComesIntoSight(d) PROVE Shrinks
  BY <1>3 DEF Learner, SignIn, SignedIn, Renewed, NotSignedIn, Cancel, Enter, Stored, TurnOffHere,
              TurnOffEverywhere, SoonOver, ComesIntoSight, Shrinks, drive
<1>4. ASSUME NEW d \in Devices,
             Looked(d) \/ Open(d) \/ Check(d) \/ JoinFails(d) \/ Syncs(d) \/ LookFails(d)
      PROVE  Shrinks
  BY <1>4 DEF Looked, Open, Check, JoinFails, Syncs, ListDrive, SyncEnds, SyncSignedOut, LookFails,
              Shrinks, drive
<1>5. ASSUME NEW d \in Devices,
             ListCopy(d) \/ CopyDeleted(d) \/ DeletingFails(d) \/ Expire(d) \/ Crash(d)
      PROVE  Shrinks
  BY <1>5 DEF ListCopy, CopyDeleted, DeletingFails, Expire, Crash, Shrinks, drive
<1>6. CASE UNCHANGED vars
  BY <1>6 DEF vars, Shrinks
<1>. QED BY <1>1, <1>2, <1>3, <1>4, <1>5, <1>6 DEF Next, Joins, Deletes, Fault

LEMMA NothingIsSound ==
  ASSUME TypeOK
  PROVE  {Nothing, NoneYet} \subseteq Sound
<1>1. rings \subseteq 1..Len(made) /\ Len(made) \in Nat
  BY DEF TypeOK
<1>. QED BY <1>1 DEF Nothing, NoneYet, Sound

\* What a device goes by, keeps or has found.
LEMMA KeptNext ==
  ASSUME Inv, [Next]_vars, NEW e \in Devices
  PROVE  {state'[e], disk'[e], found'[e]} \subseteq Sound
<1>1. {state[e], disk[e], found[e]} \subseteq Sound
  BY DEF Inv, HeldAreSound
<1>2. {Nothing, NoneYet} \subseteq Sound
  BY NothingIsSound DEF Inv
<1>3. /\ DOMAIN state = Devices /\ DOMAIN disk = Devices /\ DOMAIN found = Devices
  BY DEF Inv, TypeOK
<1>4. ASSUME NEW d \in Devices, Renewed(d) PROVE {state'[e], disk'[e], found'[e]} \subseteq Sound
  BY <1>1, <1>3, <1>4 DEF Renewed
<1>5. ASSUME NEW d \in Devices, Looked(d) PROVE {state'[e], disk'[e], found'[e]} \subseteq Sound
  <2>1. First(rings) \in Sound
    BY FirstIsSound DEF Inv
  <2>. QED BY <1>1, <1>3, <1>5, <2>1 DEF Looked
<1>6. ASSUME NEW d \in Devices, Cancel(d) PROVE {state'[e], disk'[e], found'[e]} \subseteq Sound
  BY <1>1, <1>2, <1>3, <1>6 DEF Cancel
<1>7. ASSUME NEW d \in Devices, Open(d) PROVE {state'[e], disk'[e], found'[e]} \subseteq Sound
  <2>1. task[d].first \in Sound
    BY DEF Inv, HeldAreSound
  <2>. QED BY <1>1, <1>2, <1>3, <1>7, <2>1 DEF Open, TurnedOn, NotTurnedOn, Keep
<1>8. ASSUME NEW d \in Devices, Check(d) PROVE {state'[e], disk'[e], found'[e]} \subseteq Sound
  <2>1. CASE First(rings) \in {task[d].ring, Nothing}
    <3>1. task[d].ring \in Sound
      <4>1. task[d].ring \in Nat /\ task[d].ring <= Len(made)
        BY TaskTypes DEF Inv, TypeOK, Steps, HeldAreSound
      <4>. QED BY <2>1, <4>1, RingIsSound DEF Inv
    <3>. QED BY <1>1, <1>2, <1>3, <1>8, <2>1, <3>1 DEF Check, TurnedOn, Keep
  <2>2. CASE First(rings) \notin {task[d].ring, Nothing}
    BY <1>1, <1>8, <2>2 DEF Check
  <2>. QED BY <2>1, <2>2
<1>9. ASSUME NEW d \in Devices, ListDrive(d) \/ TurnOffHere(d) \/ CopyDeleted(d)
      PROVE  {state'[e], disk'[e], found'[e]} \subseteq Sound
  BY <1>1, <1>2, <1>3, <1>9 DEF ListDrive, TurnOffHere, CopyDeleted, Forget, Keep
<1>10. ASSUME NEW d \in Devices, SyncEnds(d) \/ SyncSignedOut(d)
       PROVE  {state'[e], disk'[e], found'[e]} \subseteq Sound
  <2>1. sync[d].ring \in Sound
    BY DEF Inv, HeldAreSound
  <2>. QED BY <1>1, <1>3, <1>10, <2>1 DEF SyncEnds, SyncSignedOut, Keep
<1>11. ASSUME NEW d \in Devices, Crash(d) PROVE {state'[e], disk'[e], found'[e]} \subseteq Sound
  BY <1>1, <1>2, <1>3, <1>11 DEF Crash
<1>12. ASSUME NEW d \in Devices,
              \/ SignIn(d) \/ SignedIn(d) \/ NotSignedIn(d) \/ Stored(d) \/ TurnOffEverywhere(d)
              \/ \E phrase \in Tried[d] : Enter(d, phrase)
       PROVE  UNCHANGED <<state, disk, found>>
  BY <1>12 DEF SignIn, SignedIn, NotSignedIn, Stored, TurnOffEverywhere, Enter
<1>13. ASSUME NEW d \in Devices,
              \/ Create(d) \/ Remove(d) \/ JoinFails(d) \/ SoonOver(d) \/ ComesIntoSight(d)
              \/ ListCopy(d) \/ DeleteNext(d) \/ DeletingFails(d)
              \/ LookFails(d) \/ CreateAnswerLost(d) \/ Expire(d)
       PROVE  UNCHANGED <<state, disk, found>>
  BY <1>13 DEF Create, Remove, JoinFails, NotTurnedOn, SoonOver, ComesIntoSight, ListCopy, DeleteNext,
               DeletingFails, LookFails, CreateAnswerLost, Expire
<1>14. CASE UNCHANGED vars
  BY <1>1, <1>14 DEF vars
<1>. QED BY <1>1, <1>4, <1>5, <1>6, <1>7, <1>8, <1>9, <1>10, <1>11, <1>12, <1>13, <1>14
         DEF Next, Learner, Joins, Syncs, Deletes, Fault

\* A task holds sound keyrings, and a passphrase where it makes one.
TaskIsSound(t) ==
  t.first \in Sound /\ t.ring <= Len(made) /\ (t.step = "creating" => t.phrase \in Phrases)

LEMMA TaskNext ==
  ASSUME Inv, [Next]_vars, NEW e \in Devices
  PROVE  TaskIsSound(task'[e]) \/ (\E d \in Devices : Create(d) /\ e = d)
<1>1. TaskIsSound(task[e])
  BY DEF Inv, HeldAreSound, HasPhrase, AtStep, TaskIsSound
<1>2. TaskIsSound(Idle)
  BY NothingIsSound DEF Inv, TypeOK, Idle, Nothing, TaskIsSound
<1>3. task \in [Devices -> Tasks] /\ card \in [Devices -> Cards]
  BY DEF Inv, TypeOK
<1>4. ASSUME NEW d \in Devices, SignIn(d) \/ SignedIn(d) \/ Remove(d)
      PROVE  TaskIsSound(task'[e])
  <2>1. PICK step \in Steps \ {"creating"} : task' = [task EXCEPT ![d].step = step]
    BY <1>3, <1>4 DEF SignIn, SignedIn, Remove, Step, Does, Steps
  <2>2. TaskIsSound(task[d])
    BY DEF Inv, HeldAreSound, HasPhrase, AtStep, TaskIsSound
  <2>3. TaskIsSound([task[d] EXCEPT !.step = step])
    BY <1>3, <2>2 DEF TaskIsSound, Tasks
  <2>. QED BY <1>1, <1>3, <2>1, <2>3
<1>5. ASSUME NEW d \in Devices,
             \/ Renewed(d) \/ NotSignedIn(d) \/ Cancel(d) \/ Looked(d) \/ LookFails(d) \/ Open(d)
             \/ CreateAnswerLost(d) \/ JoinFails(d) \/ CopyDeleted(d) \/ DeletingFails(d) \/ Crash(d)
      PROVE  TaskIsSound(task'[e])
  <2>1. UNCHANGED task \/ task' = [task EXCEPT ![d] = Idle]
    BY <1>5 DEF Renewed, NotSignedIn, Cancel, Looked, LookFails, Open, CreateAnswerLost, JoinFails,
                CopyDeleted, DeletingFails, Crash, Does
  <2>. QED BY <1>1, <1>2, <1>3, <2>1
<1>6. ASSUME NEW d \in Devices, NEW phrase \in Tried[d], Enter(d, phrase)
      PROVE  TaskIsSound(task'[e])
  <2>1. PICK step \in {"creating", "opening"} :
          task' = [task EXCEPT ![d] = [Idle EXCEPT !.step = step, !.first = found[d], !.phrase = phrase]]
    BY <1>6 DEF Enter, Does
  <2>2. found[d] \in Sound /\ phrase \in Phrases
    BY TriedAssumption DEF Inv, HeldAreSound
  <2>3. TaskIsSound([Idle EXCEPT !.step = step, !.first = found[d], !.phrase = phrase])
    BY <2>2, <1>2 DEF Idle, TaskIsSound
  <2>. QED BY <1>1, <1>3, <2>1, <2>3
<1>7. ASSUME NEW d \in Devices, Check(d) PROVE TaskIsSound(task'[e])
  <2>1. TaskIsSound([task[d] EXCEPT !.step = "removing", !.first = First(rings)])
    <3>1. task[d] \in Tasks /\ task[d].ring <= Len(made) /\ First(rings) \in Sound
      BY <1>3, FirstIsSound DEF Inv, HeldAreSound
    <3>. QED BY <3>1 DEF TaskIsSound, Tasks
  <2>. QED BY <1>1, <1>2, <1>3, <1>7, <2>1 DEF Check, Does
<1>8. ASSUME NEW d \in Devices, TurnOffEverywhere(d) PROVE TaskIsSound(task'[e])
  <2>1. TaskIsSound([Idle EXCEPT !.step = "waiting", !.before = card[d]])
    BY <1>2 DEF Idle, TaskIsSound
  <2>. QED BY <1>1, <1>3, <1>8, <2>1 DEF TurnOffEverywhere, Does
<1>9. ASSUME NEW d \in Devices, ListCopy(d) \/ DeleteNext(d) PROVE TaskIsSound(task'[e])
  <2>1. CASE ListCopy(d)
    <3>1. rings \cup {Rest} \in SUBSET Nat
      BY DEF TypeOK, Inv, Rest
    <3>2. task' = [task EXCEPT ![d] = [task[d] EXCEPT !.step = "deleting", !.left = rings \cup {Rest}]]
      BY <2>1 DEF ListCopy, Does
    <3>3. TaskIsSound(task[d])
      BY DEF Inv, HeldAreSound, HasPhrase, AtStep, TaskIsSound
    <3>4. TaskIsSound([task[d] EXCEPT !.step = "deleting", !.left = rings \cup {Rest}])
      BY <1>3, <3>3 DEF TaskIsSound, Tasks
    <3>. QED BY <1>1, <1>3, <3>2, <3>4
  <2>2. CASE DeleteNext(d)
    <3>1. PICK file \in task[d].left :
            task' = [task EXCEPT ![d] = [task[d] EXCEPT !.left = task[d].left \ {file}]]
      BY <2>2 DEF DeleteNext, Does
    <3>2. TaskIsSound(task[d])
      BY DEF Inv, HeldAreSound, HasPhrase, AtStep, TaskIsSound
    <3>3. TaskIsSound([task[d] EXCEPT !.left = task[d].left \ {file}])
      BY <1>3, <3>2 DEF TaskIsSound, Tasks
    <3>. QED BY <1>1, <1>3, <3>1, <3>3
  <2>. QED BY <1>9, <2>1, <2>2
<1>10. ASSUME NEW d \in Devices, Create(d) PROVE TaskIsSound(task'[e]) \/ e = d
  BY <1>1, <1>3, <1>10 DEF Create, Does
<1>11. ASSUME NEW d \in Devices,
              Stored(d) \/ TurnOffHere(d) \/ Syncs(d) \/ SoonOver(d) \/ ComesIntoSight(d) \/ Expire(d)
       PROVE  UNCHANGED task
  BY <1>11 DEF Stored, TurnOffHere, Syncs, ListDrive, SyncEnds, SyncSignedOut, SoonOver,
               ComesIntoSight, Expire
<1>12. CASE UNCHANGED vars
  BY <1>1, <1>12 DEF vars
<1>. QED BY <1>1, <1>4, <1>5, <1>6, <1>7, <1>8, <1>9, <1>10, <1>11, <1>12
         DEF Next, Learner, Joins, Deletes, Fault

\* What a sync goes by.
LEMMA SyncNext ==
  ASSUME Inv, [Next]_vars, NEW e \in Devices
  PROVE  sync'[e].ring \in Sound
<1>1. \A d \in Devices : {state[d], task[d].first, sync[d].ring} \subseteq Sound
  BY DEF Inv, HeldAreSound
<1>2. Nothing \in Sound /\ NoSync.ring \in Sound
  BY NothingIsSound DEF Inv, NoSync, Nothing
<1>3. DOMAIN sync = Devices
  BY DEF Inv, TypeOK
<1>4. ASSUME NEW d \in Devices, NEW kept \in Sound, NEW before, before.ring \in Sound,
             SyncNow(d, kept, before)
      PROVE  sync'[e].ring \in Sound
  BY <1>1, <1>3, <1>4 DEF SyncNow
<1>5. ASSUME NEW d \in Devices, NEW kept \in Sound, EndSync(d, kept) PROVE sync'[e].ring \in Sound
  BY <1>1, <1>2, <1>3, <1>4, <1>5 DEF EndSync
<1>6. ASSUME NEW d \in Devices, Renewed(d) \/ SoonOver(d) PROVE sync'[e].ring \in Sound
  BY <1>1, <1>4, <1>6 DEF Renewed, SoonOver
<1>7. ASSUME NEW d \in Devices, Open(d) PROVE sync'[e].ring \in Sound
  BY <1>1, <1>4, <1>7 DEF Open, TurnedOn, NotTurnedOn
<1>8. ASSUME NEW d \in Devices, Check(d) PROVE sync'[e].ring \in Sound
  <2>1. CASE First(rings) \in {task[d].ring, Nothing}
    <3>1. task[d].ring \in Nat /\ task[d].ring <= Len(made)
      BY TaskTypes DEF Inv, TypeOK, Steps, HeldAreSound
    <3>2. task[d].ring \in Sound
      BY <2>1, <3>1, RingIsSound DEF Inv
    <3>. QED BY <1>1, <1>4, <1>8, <2>1, <3>2 DEF Check, TurnedOn
  <2>2. CASE First(rings) \notin {task[d].ring, Nothing}
    BY <1>1, <1>8, <2>2 DEF Check
  <2>. QED BY <2>1, <2>2
<1>9. ASSUME NEW d \in Devices, Syncs(d) PROVE sync'[e].ring \in Sound
  <2>1. CASE ListDrive(d)
    <3>1. CASE sync' = [sync EXCEPT ![d].step = "working"]
      <4>1. sync[d] \in [step : {"idle", "listing", "working"}, ring : Nat]
        BY DEF Inv, TypeOK
      <4>. QED BY <1>1, <1>3, <3>1, <4>1
    <3>2. CASE EndSync(d, Nothing)
      BY <1>2, <1>5, <3>2
    <3>. QED BY <2>1, <3>1, <3>2 DEF ListDrive
  <2>2. CASE SyncEnds(d) \/ SyncSignedOut(d)
    BY <1>1, <1>5, <2>2 DEF SyncEnds, SyncSignedOut
  <2>. QED BY <1>9, <2>1, <2>2 DEF Syncs
<1>10. ASSUME NEW d \in Devices, Crash(d) PROVE sync'[e].ring \in Sound
  BY <1>1, <1>2, <1>3, <1>10 DEF Crash
<1>11. ASSUME NEW d \in Devices,
              \/ SignIn(d) \/ SignedIn(d) \/ NotSignedIn(d) \/ Cancel(d) \/ Stored(d)
              \/ TurnOffHere(d) \/ TurnOffEverywhere(d) \/ Looked(d) \/ Create(d) \/ Remove(d)
              \/ \E phrase \in Tried[d] : Enter(d, phrase)
       PROVE  UNCHANGED sync
  BY <1>11 DEF SignIn, SignedIn, NotSignedIn, Cancel, Stored, TurnOffHere, TurnOffEverywhere, Looked,
               Create, Remove, Enter
<1>12. ASSUME NEW d \in Devices,
              \/ JoinFails(d) \/ ComesIntoSight(d) \/ Deletes(d)
              \/ LookFails(d) \/ CreateAnswerLost(d) \/ Expire(d)
       PROVE  UNCHANGED sync
  BY <1>12 DEF JoinFails, NotTurnedOn, ComesIntoSight, Deletes, ListCopy, DeleteNext, CopyDeleted,
               DeletingFails, LookFails, CreateAnswerLost, Expire
<1>13. CASE UNCHANGED vars
  BY <1>1, <1>13 DEF vars
<1>. QED BY <1>1, <1>6, <1>7, <1>8, <1>9, <1>10, <1>11, <1>12, <1>13
         DEF Next, Learner, Joins, Fault

-----------------------------------------------------------------------------
(***************************************************************************)
(* The theorems.                                                           *)
(***************************************************************************)
LEMMA InvInit == Init => Inv
<1>. SUFFICES ASSUME Init PROVE Inv
  OBVIOUS
<1>1. TypeOK
  <2>1. Card("off") \in Cards /\ Idle \in Tasks
    BY CardTypes, IdleType
  <2>2. made \in Seq(Phrases) /\ rings \subseteq 1..Len(made)
    BY DEF Init
  <2>. QED BY <2>1, <2>2 DEF Init, TypeOK, NoneYet, Nothing, NoSync
<1>2. HasPhrase
  BY DEF Init, HasPhrase, AtStep, Idle
<1>3. HaveFirst
  BY DEF Init, HaveFirst
<1>4. HeldAreSound
  <2>1. {Nothing, NoneYet, 0} \subseteq Sound
    BY <1>1, NothingIsSound DEF Nothing
  <2>. QED BY <2>1 DEF Init, HeldAreSound, Idle, NoSync
<1>. QED BY <1>1, <1>2, <1>3, <1>4 DEF Inv

LEMMA InvNext == Inv /\ [Next]_vars => Inv'
<1>. SUFFICES ASSUME Inv, [Next]_vars PROVE Inv'
  OBVIOUS
<1>1. TypeOK'
  BY TypeNext
<1>2. Sound \subseteq Sound' /\ Len(made) <= Len(made)'
  BY DriveNext, StaysSound DEF Inv
<1>3. HaveFirst'
  BY DriveNext, StillHaveFirst DEF Inv
<1>4. ASSUME NEW e \in Devices
      PROVE  /\ {state[e], disk[e], found[e], task[e].first, sync[e].ring}' \subseteq Sound'
             /\ task'[e].ring <= Len(made')
             /\ task'[e].step = "creating" => task'[e].phrase \in Phrases
  <2>1. {state'[e], disk'[e], found'[e], sync'[e].ring} \subseteq Sound'
    BY <1>2, KeptNext, SyncNext
  <2>2. CASE TaskIsSound(task'[e])
    <3>1. Len(made) \in Nat
      BY DEF Inv, TypeOK
    <3>2. Len(made') \in Nat /\ task'[e] \in Tasks
      BY <1>1 DEF TypeOK
    <3>3. task'[e].ring \in Nat
      BY <3>2 DEF Tasks
    <3>. QED BY <1>2, <2>1, <2>2, <3>1, <3>2, <3>3 DEF TaskIsSound
  <2>3. CASE Create(e)
    <3>1. /\ task[e] \in Tasks /\ DOMAIN task = Devices /\ Len(made') = Len(made) + 1
          /\ Len(made) \in Nat
      BY <2>3 DEF Inv, TypeOK, HasPhrase, Create
    <3>2. task'[e] = [task[e] EXCEPT !.step = "checking", !.ring = Len(made) + 1]
      BY <2>3, <3>1 DEF Create, Does
    <3>3. /\ task'[e].first = task[e].first /\ task'[e].ring = Len(made) + 1
          /\ task'[e].step = "checking"
      BY <3>1, <3>2 DEF Tasks
    <3>4. task[e].first \in Sound
      BY DEF Inv, HeldAreSound
    <3>. QED BY <1>2, <2>1, <3>1, <3>3, <3>4
  <2>. QED BY <2>2, <2>3, TaskNext
<1>. QED BY <1>1, <1>3, <1>4 DEF Inv, HeldAreSound, HasPhrase, AtStep

\* Whatever the learner and the drive do, the state is of its types: a keyring
\* is never taken for one not yet looked for, nor a card shown that is none.
THEOREM TypeCorrect == Spec => []TypeOK
<1>1. Inv => TypeOK
  BY DEF Inv
<1>. QED BY InvInit, InvNext, <1>1, PTL DEF Spec

\* Devices that turn sync on at once settle on the first keyring made: one
\* whose keyring is in the drive goes by the first there (join, first_keyring).
THEOREM OneKeyStands == Spec => []OneKey
<1>1. Inv => OneKey
  <2>. SUFFICES ASSUME Inv, NEW d \in Devices,
                       NEW r \in {state[d], disk[d], sync[d].ring} \cap rings
                PROVE  r = First(rings)
    BY DEF OneKey
  <2>1. r \in rings /\ \A s \in rings : r <= s
    BY DEF Inv, HeldAreSound, Sound
  <2>2. First(rings) \in rings /\ First(rings) <= r
    BY <2>1, FirstIsLeast DEF Inv, Least
  <2>3. rings \subseteq 1..Len(made) /\ Len(made) \in Nat
    BY DEF Inv, TypeOK
  <2>4. r <= First(rings) /\ r \in Int /\ First(rings) \in Int
    BY <2>1, <2>2, <2>3
  <2>. QED BY <2>2, <2>4
<1>. QED BY InvInit, InvNext, <1>1, PTL DEF Spec

-----------------------------------------------------------------------------
(***************************************************************************)
(* No change is forgotten.                                                 *)
(***************************************************************************)
\* A sync not under way goes by no keyring.
IdleIsNone == \A d \in Devices : Running(d) \/ sync[d] = NoSync

Waits == TypeOK /\ IdleIsNone /\ AskedIsOnItsWay

\* A device's own part of it, and that the others' is as it was.
WaitsAt(d)  == /\ Running(d)' \/ sync'[d] = NoSync
               /\ asked'[d] => soon'[d] \/ (Running(d)' /\ again'[d])
Elsewhere(d) == \A e \in Devices \ {d} : /\ sync'[e] = sync[e] /\ again'[e] = again[e]
                                         /\ soon'[e] = soon[e] /\ (asked'[e] => asked[e])

LEMMA WaitsStep ==
  ASSUME Waits, NEW d \in Devices, WaitsAt(d), Elsewhere(d), TypeOK'
  PROVE  Waits'
<1>1. IdleIsNone'
  BY DEF Waits, IdleIsNone, WaitsAt, Elsewhere, Running
<1>2. AskedIsOnItsWay'
  BY DEF Waits, AskedIsOnItsWay, WaitsAt, Elsewhere, Running
<1>. QED BY <1>1, <1>2 DEF Waits

\* Nothing is asked that was not, and no sync begins or ends.
LEMMA StillWaits ==
  ASSUME Waits, TypeOK', UNCHANGED <<sync, again, soon>>, \A d \in Devices : asked'[d] => asked[d]
  PROVE  Waits'
BY DEF Waits, IdleIsNone, AskedIsOnItsWay, Running

\* One asked for now begins, or follows the one under way.
LEMMA SyncNowWaits ==
  ASSUME Waits, TypeOK', NEW d \in Devices, NEW kept, SyncNow(d, kept, sync[d]),
         \A e \in Devices \ {d} : soon'[e] = soon[e]
  PROVE  Waits'
<1>1. sync'[d] = IF kept # Nothing /\ sync[d] = NoSync
                   THEN [step |-> "listing", ring |-> kept] ELSE sync[d]
  BY DEF SyncNow, Waits, TypeOK
<1>2. asked'[d] => kept # Nothing /\ sync[d] # NoSync
  BY DEF SyncNow, Waits, TypeOK
<1>3. kept # Nothing /\ sync[d] # NoSync => again'[d]
  BY DEF SyncNow, Waits, TypeOK
<1>4. Running(d) \/ sync[d] = NoSync
  BY DEF Waits, IdleIsNone
<1>5. Running(d)' \/ sync'[d] = NoSync
  BY <1>1, <1>4 DEF Running
<1>6. kept # Nothing /\ sync[d] # NoSync => Running(d)'
  BY <1>1, <1>4 DEF Running
<1>7. WaitsAt(d)
  BY <1>2, <1>3, <1>5, <1>6 DEF WaitsAt
<1>8. /\ sync' = [sync EXCEPT ![d] = sync'[d]]
      /\ again' = [again EXCEPT ![d] = again'[d]]
      /\ asked' = [asked EXCEPT ![d] = asked'[d]]
  BY DEF SyncNow, Waits, TypeOK
<1>9. Elsewhere(d)
  BY <1>8 DEF Elsewhere, Waits, TypeOK
<1>. QED BY <1>7, <1>9, WaitsStep

\* One that ends: another begins if one is asked for, and it has whatever was
\* asked; or else what is asked waits already.
LEMMA EndSyncWaits ==
  ASSUME Waits, TypeOK', NEW d \in Devices, NEW kept, EndSync(d, kept), UNCHANGED soon
  PROVE  Waits'
<1>1. CASE again[d]
  <2>1. SyncNow(d, kept, NoSync)
    BY <1>1 DEF EndSync
  <2>2. /\ sync'[d] = IF kept # Nothing THEN [step |-> "listing", ring |-> kept] ELSE NoSync
        /\ ~asked'[d]
        /\ \A e \in Devices \ {d} :
             sync'[e] = sync[e] /\ again'[e] = again[e] /\ asked'[e] = asked[e]
    BY <2>1 DEF SyncNow, Waits, TypeOK
  <2>3. WaitsAt(d)
    BY <2>2 DEF WaitsAt, Running
  <2>. QED BY <2>2, <2>3, WaitsStep DEF Elsewhere
<1>2. CASE ~again[d]
  <2>1. /\ sync'[d] = NoSync /\ (asked'[d] => asked[d]) /\ again' = again
        /\ \A e \in Devices \ {d} : sync'[e] = sync[e] /\ asked'[e] = asked[e]
    BY <1>2 DEF EndSync, Waits, TypeOK
  <2>2. WaitsAt(d)
    BY <1>2, <2>1 DEF WaitsAt, Waits, AskedIsOnItsWay
  <2>. QED BY <2>1, <2>2, WaitsStep DEF Elsewhere
<1>. QED BY <1>1, <1>2

LEMMA WaitsNext ==
  ASSUME Waits, TypeOK', [Next]_vars
  PROVE  Waits'
<1>1. ASSUME NEW d \in Devices,
             \/ SignIn(d) \/ SignedIn(d) \/ NotSignedIn(d) \/ Cancel(d)
             \/ \E phrase \in Tried[d] : Enter(d, phrase)
             \/ TurnOffEverywhere(d) \/ Looked(d) \/ Create(d) \/ Remove(d) \/ JoinFails(d)
             \/ ListCopy(d) \/ DeleteNext(d) \/ DeletingFails(d)
             \/ LookFails(d) \/ CreateAnswerLost(d) \/ Expire(d)
      PROVE  Waits'
  <2>1. UNCHANGED <<sync, again, soon, asked>>
    BY <1>1 DEF SignIn, SignedIn, NotSignedIn, Cancel, Enter, TurnOffEverywhere, Looked, Create,
                Remove, JoinFails, ListCopy, DeleteNext, DeletingFails, LookFails,
                CreateAnswerLost, Expire, NotTurnedOn
  <2>. QED BY <2>1, StillWaits
<1>2. ASSUME NEW d \in Devices, TurnOffHere(d) \/ CopyDeleted(d)
      PROVE  Waits'
  <2>1. UNCHANGED <<sync, again, soon>> /\ \A e \in Devices : asked'[e] => asked[e]
    BY <1>2 DEF TurnOffHere, CopyDeleted, Waits, TypeOK
  <2>. QED BY <2>1, StillWaits
<1>3. ASSUME NEW d \in Devices, Renewed(d)
      PROVE  Waits'
  BY <1>3, SyncNowWaits DEF Renewed
<1>4. ASSUME NEW d \in Devices, SoonOver(d)
      PROVE  Waits'
  <2>1. SyncNow(d, state[d], sync[d]) /\ \A e \in Devices \ {d} : soon'[e] = soon[e]
    BY <1>4 DEF SoonOver, Waits, TypeOK
  <2>. QED BY <2>1, SyncNowWaits
<1>5. ASSUME NEW d \in Devices, Open(d) \/ Check(d)
      PROVE  Waits'
  <2>1. /\ soon' = soon
        /\ \/ UNCHANGED <<sync, again, asked>> \/ \E kept : SyncNow(d, kept, sync[d])
    BY <1>5 DEF Open, Check, TurnedOn, NotTurnedOn
  <2>. QED BY <2>1, StillWaits, SyncNowWaits
<1>6. ASSUME NEW d \in Devices, ListDrive(d) \/ SyncEnds(d) \/ SyncSignedOut(d)
      PROVE  Waits'
  <2>1. CASE \E kept : EndSync(d, kept)
    BY <1>6, <2>1, EndSyncWaits DEF ListDrive, SyncEnds, SyncSignedOut
  <2>2. CASE ListDrive(d) /\ sync' = [sync EXCEPT ![d].step = "working"] /\ UNCHANGED <<again, asked>>
    <3>1. /\ sync'[d].step = "working" /\ UNCHANGED <<again, soon, asked>> /\ Running(d)
          /\ \A e \in Devices \ {d} : sync'[e] = sync[e]
      BY <2>2 DEF ListDrive, Waits, TypeOK, Running
    <3>2. WaitsAt(d)
      BY <3>1 DEF WaitsAt, Waits, AskedIsOnItsWay, Running
    <3>. QED BY <3>1, <3>2, WaitsStep DEF Elsewhere
  <2>. QED BY <1>6, <2>1, <2>2 DEF ListDrive, SyncEnds, SyncSignedOut
<1>7. ASSUME NEW d \in Devices, Stored(d) \/ ComesIntoSight(d)
      PROVE  Waits'
  <2>1. /\ UNCHANGED <<sync, again>> /\ soon'[d]
        /\ \A e \in Devices \ {d} : soon'[e] = soon[e] /\ asked'[e] = asked[e]
    BY <1>7 DEF Stored, ComesIntoSight, Soon, Waits, TypeOK
  <2>2. WaitsAt(d)
    BY <2>1 DEF WaitsAt, Waits, IdleIsNone, Running
  <2>. QED BY <2>1, <2>2, WaitsStep DEF Elsewhere
<1>8. ASSUME NEW d \in Devices, Crash(d)
      PROVE  Waits'
  <2>1. /\ sync'[d] = NoSync /\ (asked'[d] => soon'[d])
        /\ \A e \in Devices \ {d} : /\ sync'[e] = sync[e] /\ again'[e] = again[e]
                                    /\ soon'[e] = soon[e] /\ asked'[e] = asked[e]
    BY <1>8 DEF Crash, Waits, TypeOK
  <2>. QED BY <2>1, WaitsStep DEF WaitsAt, Elsewhere
<1>9. CASE UNCHANGED vars
  BY <1>9, StillWaits DEF vars
<1>. QED BY <1>1, <1>2, <1>3, <1>4, <1>5, <1>6, <1>7, <1>8, <1>9
         DEF Next, Learner, Joins, Syncs, Deletes, Fault

\* A change stored that asks to be synced is in no sync as yet only while one
\* is waiting to start, or follows the one under way: whatever ends, is turned
\* off, or stops meanwhile (sync_soon and sync_now of src/sync/ctx.rs).
THEOREM AskedIsOnItsWayEver == Spec => []AskedIsOnItsWay
<1>1. Init => Waits
  BY InvInit DEF Inv, Init, Waits, IdleIsNone, AskedIsOnItsWay
<1>2. Waits /\ TypeOK' /\ [Next]_vars => Waits'
  BY WaitsNext
<1>3. Waits => AskedIsOnItsWay
  BY DEF Waits
<1>. QED BY <1>1, <1>2, <1>3, TypeCorrect, PTL DEF Spec

=============================================================================
