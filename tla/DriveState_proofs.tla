-------------------------- MODULE DriveState_proofs -------------------------
(***************************************************************************)
(* What the words of DriveState come to: the word of a set of packs does   *)
(* not depend on the order they are read in, nor on which were read before *)
(* and which after.                                                        *)
(***************************************************************************)
EXTENDS DriveState, FiniteSetTheorems, TLAPS

-----------------------------------------------------------------------------
(***************************************************************************)
(* The latest of some times.                                               *)
(***************************************************************************)

\* A finite set of naturals that is not empty has a greatest element: the one
\* with the fewest above it.
LEMMA MaxOfFinite ==
  ASSUME NEW S \in SUBSET Nat, IsFiniteSet(S), S # {}
  PROVE  Max(S) \in S /\ \A x \in S : x <= Max(S)
<1> DEFINE Above(x) == {y \in S : x < y}
           T == {Above(x) : x \in S}
           R == StrictSubsetOrdering(S)
<1>1. IsWellFoundedOn(R, SUBSET S)
  BY FS_FiniteSubsetsOfFinite, FS_StrictSubsetOrderingWellFounded
<1>2. T \subseteq SUBSET S
  OBVIOUS
<1>3. T # {}
  OBVIOUS
<1>4. \E t \in T : \A u \in T : ~ (<<u, t>> \in R)
  <2>. HIDE DEF T, R
  <2>. QED BY <1>1, <1>2, <1>3, WFMin
<1>5. PICK m \in S : \A x \in S : ~ (<<Above(x), Above(m)>> \in R)
  BY <1>4
<1>6. ASSUME NEW x \in S, m < x PROVE FALSE
  <2>1. x \in Above(m) /\ x \notin Above(x)
    BY <1>6
  <2>2. Above(x) \subseteq Above(m)
    <3>1. \A y \in S : y \in Nat /\ x \in Nat /\ m \in Nat
      OBVIOUS
    <3>2. \A y \in S : x < y => m < y
      BY <1>6, <3>1
    <3>. QED BY <3>2
  <2>3. Above(x) # Above(m)
    BY <2>1
  <2>4. Above(x) \in SUBSET S /\ Above(m) \in SUBSET S
    OBVIOUS
  <2>. QED BY <2>2, <2>3, <2>4, <1>5 DEF StrictSubsetOrdering
<1>7. \A x \in S : x <= m
  BY <1>6
<1>. QED BY <1>5, <1>7 DEF Max

LEMMA LatestIs ==
  ASSUME NEW S \in SUBSET Nat, IsFiniteSet(S)
  PROVE  /\ Latest(S) \in S \cup {0}
         /\ Latest(S) \in Nat
         /\ \A x \in S : x <= Latest(S)
<1>1. S \cup {0} \in SUBSET Nat /\ S \cup {0} # {}
  OBVIOUS
<1>2. IsFiniteSet(S \cup {0})
  BY FS_AddElement
<1>. QED BY <1>1, <1>2, MaxOfFinite DEF Latest

LEMMA LatestOfUnion ==
  ASSUME NEW S \in SUBSET Nat, IsFiniteSet(S), NEW T \in SUBSET Nat, IsFiniteSet(T)
  PROVE  Latest(S \cup T) = Later(Latest(S), Latest(T))
<1>1. IsFiniteSet(S \cup T)
  BY FS_Union
<1>2. /\ Latest(S \cup T) \in (S \cup T) \cup {0}
      /\ Latest(S \cup T) \in Nat
      /\ \A x \in S \cup T : x <= Latest(S \cup T)
  BY <1>1, LatestIs
<1>. QED BY <1>2, LatestIs DEF Later

-----------------------------------------------------------------------------
(***************************************************************************)
(* Words.                                                                  *)
(***************************************************************************)

LEMMA TakeType ==
  ASSUME NEW w \in Word, NEW x \in Word
  PROVE  Take(w, x) \in Word
BY DEF Word, Entry, Take, Later

LEMMA BlankType == Blank \in Word
BY DEF Word, Entry, Blank

LEMMA TimesFinite ==
  ASSUME NEW P \in SUBSET Word, IsFiniteSet(P), NEW r \in Records
  PROVE  /\ {p[r].tomb : p \in P} \in SUBSET Nat
         /\ {p[r].revive : p \in P} \in SUBSET Nat
         /\ IsFiniteSet({p[r].tomb : p \in P})
         /\ IsFiniteSet({p[r].revive : p \in P})
<1>1. \A p \in P : p[r].tomb \in Nat /\ p[r].revive \in Nat
  BY DEF Word, Entry
<1>2. IsFiniteSet({p[r].tomb : p \in P})
  <2> DEFINE f == [p \in P |-> p[r].tomb]
             I == {f[p] : p \in P}
  <2>1. f \in Surjection(P, I)
    BY DEF Surjection
  <2>2. IsFiniteSet(I)
    BY <2>1, FS_Surjection
  <2>. QED BY <2>2
<1>3. IsFiniteSet({p[r].revive : p \in P})
  <2> DEFINE f == [p \in P |-> p[r].revive]
             I == {f[p] : p \in P}
  <2>1. f \in Surjection(P, I)
    BY DEF Surjection
  <2>2. IsFiniteSet(I)
    BY <2>1, FS_Surjection
  <2>. QED BY <2>2
<1>. QED BY <1>1, <1>2, <1>3

LEMMA WordOfType ==
  ASSUME NEW P \in SUBSET Word, IsFiniteSet(P)
  PROVE  WordOf(P) \in Word
<1>1. \A r \in Records : /\ Latest({p[r].tomb : p \in P}) \in Nat
                         /\ Latest({p[r].revive : p \in P}) \in Nat
  BY TimesFinite, LatestIs
<1>. QED BY <1>1 DEF WordOf, Word, Entry

\* The order packs are read in makes no difference, nor does reading some
\* now and some later (plan.rs, "whatever order it read them in").
THEOREM WordOfUnion ==
  ASSUME NEW P \in SUBSET Word, IsFiniteSet(P), NEW Q \in SUBSET Word, IsFiniteSet(Q)
  PROVE  WordOf(P \cup Q) = Take(WordOf(P), WordOf(Q))
<1>1. ASSUME NEW r \in Records
      PROVE  /\ Latest({p[r].tomb : p \in P \cup Q}) =
                  Later(Latest({p[r].tomb : p \in P}), Latest({p[r].tomb : p \in Q}))
             /\ Latest({p[r].revive : p \in P \cup Q}) =
                  Later(Latest({p[r].revive : p \in P}), Latest({p[r].revive : p \in Q}))
  <2>1. /\ {p[r].tomb : p \in P \cup Q} = {p[r].tomb : p \in P} \cup {p[r].tomb : p \in Q}
        /\ {p[r].revive : p \in P \cup Q} = {p[r].revive : p \in P} \cup {p[r].revive : p \in Q}
    OBVIOUS
  <2>. QED BY <2>1, TimesFinite, LatestOfUnion
<1>. QED BY <1>1 DEF WordOf, Take

LEMMA WordOfOne ==
  ASSUME NEW p \in Word
  PROVE  WordOf({p}) = p
<1>1. ASSUME NEW n \in Nat PROVE Latest({n}) = n
  <2>1. Latest({n}) \in {n} \cup {0} /\ n <= Latest({n})
    BY LatestIs, FS_Singleton
  <2>. QED BY <2>1
<1>2. \A r \in Records : /\ {q[r].tomb : q \in {p}} = {p[r].tomb}
                         /\ {q[r].revive : q \in {p}} = {p[r].revive}
  OBVIOUS
<1>3. \A r \in Records : p[r] \in Entry
  BY DEF Word
<1>4. \A r \in Records : WordOf({p})[r] = p[r]
  BY <1>1, <1>2, <1>3 DEF WordOf, Entry
<1>5. WordOf({p}) = [r \in Records |-> WordOf({p})[r]] /\ p = [r \in Records |-> p[r]]
  BY DEF WordOf, Word
<1>. QED BY <1>4, <1>5

LEMMA WordOfNone == WordOf({}) = Blank
<1>1. Latest({}) = 0
  <2>1. Latest({}) \in {} \cup {0}
    BY LatestIs, FS_EmptySet
  <2>. QED BY <2>1
<1>. QED BY <1>1 DEF WordOf, Blank

\* A word with a pack taken in says no less, and none of a set of packs says
\* more than the word of them all.
LEMMA TakeGrows ==
  ASSUME NEW w \in Word, NEW x \in Word
  PROVE  Leq(w, Take(w, x)) /\ Leq(x, Take(w, x))
BY DEF Word, Entry, Leq, Take, Later

LEMMA WordOfGrows ==
  ASSUME NEW P \in SUBSET Word, IsFiniteSet(P), NEW Q \in SUBSET P
  PROVE  Leq(WordOf(Q), WordOf(P))
<1>1. IsFiniteSet(Q)
  BY FS_Subset
<1>2. P = Q \cup P
  OBVIOUS
<1>3. WordOf(P) = Take(WordOf(Q), WordOf(P))
  BY <1>1, <1>2, WordOfUnion
<1>. QED BY <1>1, <1>3, WordOfType, TakeGrows

=============================================================================
