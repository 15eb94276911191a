---------------------------- MODULE SharedHistory ---------------------------
(***************************************************************************)
(* What sync promises of the history: the drive holds one word on every    *)
(* record, which only ever grows; each device knows a part of it; and a    *)
(* session goes from a device only as the learner deletes it, there or on  *)
(* another device, or as its store loses it (docs/sync.md, "The history"). *)
(***************************************************************************)
EXTENDS DriveState

CONSTANT Devices

VARIABLES
  history,   \* the sessions each device lists
  word,      \* what the drive says of each record
  known,     \* what each device knows of that
  byHand,    \* the records ever deleted by hand, on any device
  lost       \* the records each store ever lost

vars == <<history, word, known, byHand, lost>>

Init ==
  /\ history \in [Devices -> SUBSET Records]
  /\ word = Blank
  /\ known = [d \in Devices |-> Blank]
  /\ byHand \in SUBSET Records
  /\ lost = [d \in Devices |-> {}]

\* The learner adds sessions to a device, puts some back and deletes some.
Hand(d) ==
  \E added, gone \in SUBSET Records :
    /\ history' = [history EXCEPT ![d] = (@ \ gone) \cup added]
    /\ byHand' = byHand \cup gone
    /\ UNCHANGED <<word, known, lost>>

Lose(d) ==
  \E gone \in SUBSET Records :
    /\ history' = [history EXCEPT ![d] = @ \ gone]
    /\ lost' = [lost EXCEPT ![d] = @ \cup gone]
    /\ UNCHANGED <<word, known, byHand>>

\* A device takes sessions the drive holds, and lets go of ones it deleted.
\* Where that fails, some it was to take may be missed.
Follow(d) ==
  \E added \in SUBSET {r \in Records : Held(word, r)},
     gone \in SUBSET {r \in Records : word[r].tomb > 0},
     missed \in SUBSET (Records \ history[d]) :
    /\ history' = [history EXCEPT ![d] = (@ \ gone) \cup added]
    /\ lost' = [lost EXCEPT ![d] = @ \cup missed]
    /\ UNCHANGED <<word, known, byHand>>

\* A device tells the drive: of a deletion only if someone made it.
Tell ==
  /\ word' \in Word
  /\ Leq(word, word')
  /\ \A r \in Records : word'[r].tomb # word[r].tomb => r \in byHand
  /\ UNCHANGED <<history, known, byHand, lost>>

\* A device comes to know more of what the drive says.
Learn(d) ==
  /\ known' = [known EXCEPT ![d] = known'[d]]
  /\ known'[d] \in Word
  /\ Leq(known[d], known'[d]) /\ Leq(known'[d], word)
  /\ UNCHANGED <<history, word, byHand, lost>>

\* A device forgets what it knew, as it leaves sync and joins again.
Forget(d) ==
  /\ known' = [known EXCEPT ![d] = Blank]
  /\ UNCHANGED <<history, word, byHand, lost>>

Next == Tell \/ \E d \in Devices : Hand(d) \/ Lose(d) \/ Follow(d) \/ Learn(d) \/ Forget(d)

Spec == Init /\ [][Next]_vars

-----------------------------------------------------------------------------
\* A session goes from a device only if it was deleted by hand, on some
\* device, or that store lost it: never for being missing from the drive or
\* from another device (plan.rs, "missing is never deleted").
NothingGoesUnasked ==
  [][\A d \in Devices : history[d] \ history'[d] \subseteq byHand' \cup lost'[d]]_vars

=============================================================================
