----------------------------- MODULE DriveState -----------------------------
(***************************************************************************)
(* What the drive says of each record, and what one sync makes of it: the  *)
(* DriveState and the plan of src/sync/plan.rs.                            *)
(*                                                                         *)
(* A word says, of each record, whether some pack holds it, and the latest *)
(* time it was deleted and put back.  Times are milliseconds since the     *)
(* epoch, so 0 stands for the entry a BTreeMap does not have.  A pack is   *)
(* itself a word: what it puts, forgets and revives.                       *)
(***************************************************************************)
EXTENDS Integers, FiniteSetsExt

CONSTANT Records        \* the sessions, each by its RecordId

Entry == [put : BOOLEAN, tomb : Nat, revive : Nat]
Word  == [Records -> Entry]

Blank == [r \in Records |-> [put |-> FALSE, tomb |-> 0, revive |-> 0]]

Later(s, t) == IF s < t THEN t ELSE s

\* A word with a pack taken in.
Take(w, p) ==
  [r \in Records |-> [put    |-> w[r].put \/ p[r].put,
                      tomb   |-> Later(w[r].tomb, p[r].tomb),
                      revive |-> Later(w[r].revive, p[r].revive)]]

Latest(T) == Max(T \cup {0})

\* The word of a set of packs, each taken in, in whatever order.
WordOf(P) ==
  [r \in Records |-> [put    |-> \E p \in P : p[r].put,
                      tomb   |-> Latest({p[r].tomb : p \in P}),
                      revive |-> Latest({p[r].revive : p \in P})]]

\* One word says no less than another: nothing is ever taken back.
Leq(w, x) ==
  \A r \in Records : /\ w[r].put => x[r].put
                     /\ w[r].tomb <= x[r].tomb
                     /\ w[r].revive <= x[r].revive

Deleted(w, r) == w[r].tomb > w[r].revive
Held(w, r)    == w[r].put \/ w[r].revive > 0
Alive(w)      == {r \in Records : Held(w, r) /\ ~Deleted(w, r)}

-----------------------------------------------------------------------------
(***************************************************************************)
(* The plan of one sync: "listed" are the records the store lists,         *)
(* "forgotten" those it deleted, "applied" when the drive made each        *)
(* deletion this device took from it, "revived" when each session put back *)
(* here by hand was.                                                       *)
(***************************************************************************)
Plan(w, listed, forgotten, applied, revived) ==
  LET Gone    == {r \in listed : Deleted(w, r)}
      Missing == Alive(w) \ listed
      Back(r) == applied[r] > 0 /\ w[r].revive > applied[r]
  IN  [take        |-> Missing \ forgotten,
       takeBack    |-> {r \in Missing \cap forgotten : Back(r)},
       letGo       |-> {r \in Gone : revived[r] <= w[r].tomb},
       send        |-> {r \in listed : ~Deleted(w, r) /\ ~Held(w, r)},
       sendDeleted |-> {r \in Missing \cap forgotten : applied[r] = 0},
       sendBack    |-> {r \in Gone : revived[r] > w[r].tomb}]

=============================================================================
