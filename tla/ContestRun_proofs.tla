------------------------- MODULE ContestRun_proofs --------------------------
(***************************************************************************)
(* What is proved of ContestRun, for any finite set of callers, any calls, *)
(* phrases, run style and bounds.                                          *)
(*                                                                         *)
(* A side (the stations, whom you work and thanked, the log) is whole      *)
(* where what the log keeps is what the stations have noted as kept, once  *)
(* each.  Whatever may befall a side leaves it whole: the callers hear a   *)
(* message of any length, some are lost, a QSO is logged, some come.  The  *)
(* invariant says so of the side there is, and of the one Esc would leave. *)
(***************************************************************************)
EXTENDS ContestRun, FiniteSetTheorems, SequenceTheorems, WellFoundedInduction, TLAPS

-----------------------------------------------------------------------------
(***************************************************************************)
(* Numbers: what holds of 0, and of n + 1 where it holds of n, holds of    *)
(* all, as a set of numbers has a least.                                   *)
(***************************************************************************)
LEMMA LeastOf ==
  ASSUME NEW T, T \subseteq Nat, T # {}
  PROVE  \E x \in T : \A y \in T : ~(y < x)
<1>. DEFINE R == OpToRel(<, Nat)
<1>1. IsWellFoundedOn(R, Nat)
  BY NatLessThanWellFounded, Zenon
<1>2. \A x, y \in Nat : x < y => <<x, y>> \in R
  BY DEF OpToRel
<1>. HIDE DEF R
<1>3. \E x \in T : \A y \in T : ~(<<y, x>> \in R)
  BY <1>1, WFMin
<1>. QED BY <1>2, <1>3

LEMMA InductOn ==
  ASSUME NEW S, 0 \in S, \A n \in Nat : n \in S => n + 1 \in S
  PROVE  \A n \in Nat : n \in S
<1>. SUFFICES ASSUME Nat \ S # {} PROVE FALSE
  OBVIOUS
<1>1. PICK x \in Nat \ S : \A y \in Nat \ S : ~(y < x)
  BY LeastOf
<1>2. x # 0 /\ x - 1 \in Nat
  BY <1>1
<1>3. x - 1 \in S
  BY <1>1, <1>2
<1>4. (x - 1) + 1 \in S
  BY <1>2, <1>3
<1>. QED BY <1>1, <1>4

-----------------------------------------------------------------------------
(***************************************************************************)
(* The types.                                                              *)
(***************************************************************************)
Names == {"NotCome", "NeedQso", "NeedNr", "NeedCall", "NeedCallNr", "NeedEnd", "Done", "Gone"}

Station == [state : Names, other : BOOLEAN, partial : BOOLEAN, silent : BOOLEAN,
            waiting : BOOLEAN, engaged : BOOLEAN, recorded : BOOLEAN]

Some == Callers \cup {NoOne}

Row == [kind : {"qso", "nil", "lost"}, station : Some, copy : BOOLEAN, pending : BOOLEAN]

Sides == [stations : [Callers -> Station], working : Some, thanked : Some, entries : Seq(Row)]

\* What a station makes of a message.
Hearing == [s : Station, replies : {"by its state", "yes", "no"},
            addressed : {"no call", "it", "another"}, matched : BOOLEAN,
            called : BOOLEAN, took : BOOLEAN, rested : BOOLEAN]

-----------------------------------------------------------------------------
(***************************************************************************)
(* One station hears a message: it stays as it was where it is not on the  *)
(* frequency, and no message makes it one that has not come, nor touches   *)
(* what the log has of it.                                                 *)
(***************************************************************************)
Stems(s, h) ==
  /\ h \in Hearing
  /\ h.s.recorded = s.recorded
  /\ h.s.engaged = s.engaged
  /\ s.state # "NotCome" => h.s.state # "NotCome"
  /\ ~Active(s) => h.s.state = s.state /\ ~h.took /\ ~h.matched

LEMMA GoesIs ==
  ASSUME NEW h \in Hearing, NEW state \in Names
  PROVE  /\ Goes(h, state) \in Hearing
         /\ Goes(h, state).s.state = state
         /\ Goes(h, state).s.recorded = h.s.recorded
         /\ Goes(h, state).s.engaged = h.s.engaged
         /\ Goes(h, state).took = h.took
         /\ Goes(h, state).matched = h.matched
BY DEF Goes, Hearing, Station

LEMMA SaysIs ==
  ASSUME NEW h \in Hearing, NEW state \in Names
  PROVE  /\ Says(h, state) \in Hearing
         /\ Says(h, state).s.state = state
         /\ Says(h, state).s.recorded = h.s.recorded
         /\ Says(h, state).s.engaged = h.s.engaged
         /\ Says(h, state).took = h.took
         /\ Says(h, state).matched = h.matched
<1>1. PICK g \in Hearing : g = Goes(h, state)
  BY GoesIs
<1>2. Says(h, state) = [g EXCEPT !.replies = "yes"]
  BY <1>1 DEF Says, Goes, Hearing, Station
<1>3. Says(h, state) \in Hearing
  BY <1>2 DEF Hearing
<1>4. Says(h, state).s = g.s /\ Says(h, state).took = g.took /\ Says(h, state).matched = g.matched
  BY <1>2 DEF Hearing
<1>. QED BY <1>1, <1>3, <1>4, GoesIs

LEMMA FreedIs ==
  ASSUME NEW h \in Hearing
  PROVE  /\ Freed(h) \in Hearing
         /\ Freed(h).s.state = h.s.state
         /\ Freed(h).s.recorded = h.s.recorded
         /\ Freed(h).s.engaged = h.s.engaged
         /\ Freed(h).took = h.took
         /\ Freed(h).matched = h.matched
BY DEF Freed, Hearing, Station

LEMMA StateIs ==
  ASSUME NEW s, NEW h, Stems(s, h)
  PROVE  h \in Hearing /\ h.s \in Station /\ h.s.state \in Names
BY DEF Stems, Hearing, Station

LEMMA UnmovedStems ==
  ASSUME NEW s \in Station
  PROVE  Stems(s, Unmoved(s))
<1>. DEFINE t == [s EXCEPT !.silent = s.silent /\ ~Worked(s)]
<1>1. s.silent \in BOOLEAN /\ Worked(s) \in BOOLEAN
  BY DEF Station, Worked
<1>2. t \in Station
  BY <1>1 DEF Station
<1>3. t.state = s.state /\ t.recorded = s.recorded /\ t.engaged = s.engaged
  BY DEF Station
<1>. HIDE DEF t
<1>4. PICK no \in BOOLEAN : no = FALSE
  OBVIOUS
<1>. DEFINE u == [s |-> t, replies |-> "by its state", addressed |-> "no call", matched |-> no,
                  called |-> no, took |-> no, rested |-> no]
<1>5. Unmoved(s) = u
  BY <1>4 DEF Unmoved, t
<1>6. u \in Hearing /\ u.s = t /\ u.took = no /\ u.matched = no
  BY <1>2 DEF Hearing
<1>. HIDE DEF u
<1>. QED BY <1>3, <1>4, <1>5, <1>6 DEF Stems

\* A station goes on, to a state other than not having come, from one on the
\* frequency.
LEMMA GoesStems ==
  ASSUME NEW s, NEW h, Stems(s, h), NEW state \in Names \ {"NotCome"}, Active(h.s)
  PROVE  Stems(s, Goes(h, state)) /\ Stems(s, Says(h, state))
BY StateIs, GoesIs, SaysIs DEF Stems, Active, Worked

LEMMA SaysStems ==
  ASSUME NEW s, NEW h, Stems(s, h)
  PROVE  Stems(s, Says(h, h.s.state))
<1>. PICK state \in Names : state = h.s.state
  BY StateIs
<1>1. h \in Hearing
  BY StateIs
<1>2. Stems(s, Says(h, state))
  BY <1>1, SaysIs DEF Stems
<1>. QED BY <1>2

LEMMA FreedStems ==
  ASSUME NEW s, NEW h, Stems(s, h)
  PROVE  Stems(s, Freed(h)) /\ (Active(Freed(h).s) <=> Active(h.s))
BY FreedIs DEF Stems, Active, Worked

\* So it does where only what is not said of it changes.
LEMMA LikeStems ==
  ASSUME NEW s, NEW h, Stems(s, h), NEW g \in Hearing,
         g.s.state = h.s.state, g.s.recorded = h.s.recorded, g.s.engaged = h.s.engaged,
         ~Active(h.s) => g.took = h.took /\ g.matched = h.matched
  PROVE  Stems(s, g)
BY DEF Stems, Active, Worked

LEMMA CqStems ==
  ASSUME NEW s, NEW h, Stems(s, h)
  PROVE  Stems(s, HearCq(h))
<1>. DEFINE freed == [Freed(h) EXCEPT !.rested = Freed(h).rested \/ Waits(h.s)]
<1>1. h \in Hearing /\ h.s.state \in Names
  BY StateIs
<1>2. /\ freed \in Hearing /\ freed.s = Freed(h).s
      /\ freed.took = Freed(h).took /\ freed.matched = Freed(h).matched
  <2>1. Waits(h.s) \in BOOLEAN
    BY <1>1 DEF Waits, Hearing, Station
  <2>2. Freed(h) \in Hearing
    BY <1>1, FreedIs
  <2>. QED BY <2>1, <2>2 DEF Hearing
<1>3. HearCq(h) = CASE h.s.state = "NeedQso" -> Says(freed, "NeedQso")
                    [] h.s.state = "NeedEnd" -> Goes(freed, "Done")
                    [] h.s.state \in {"NeedNr", "NeedCall", "NeedCallNr"} -> Goes(freed, "Gone")
                    [] OTHER -> freed
  BY DEF HearCq
<1>. HIDE DEF freed
<1>4. Stems(s, freed) /\ freed.s.state = h.s.state
  BY <1>1, <1>2, FreedIs, FreedStems, LikeStems
<1>5. Active(h.s) => Active(freed.s)
  BY <1>4 DEF Active, Worked
<1>6. h.s.state \in {"NeedQso", "NeedEnd", "NeedNr", "NeedCall", "NeedCallNr"} => Active(freed.s)
  BY <1>5 DEF Active, Worked
<1>7. {"NeedQso", "Done", "Gone"} \subseteq Names \ {"NotCome"}
  BY DEF Names
<1>. QED BY <1>3, <1>4, <1>6, <1>7, GoesStems

LEMMA TuStems ==
  ASSUME NEW s, NEW h, Stems(s, h), NEW g \in HearTu(h)
  PROVE  Stems(s, g)
<1>1. Stems(s, Freed(h))
  BY FreedStems
<1>2. h.s.state = "NeedQso" \/ Worked(h.s) => Active(Freed(h).s)
  BY FreedStems DEF Active
<1>3. {"NeedQso", "Done"} \subseteq Names \ {"NotCome"}
  BY DEF Names
<1>. QED BY <1>1, <1>2, <1>3, GoesStems DEF HearTu

LEMMA CallStems ==
  ASSUME NEW s, NEW h, Stems(s, h), Active(h.s), NEW found, NEW g \in HearCall(h, found)
  PROVE  Stems(s, g)
<1>. DEFINE b == found # "No"
            c == found \in {"Exact", "Close"}
            a == IF found = "No" THEN "another" ELSE "it"
            named == [h EXCEPT !.addressed = a, !.matched = h.matched \/ b,
                               !.called = h.called \/ c, !.s.other = (found = "No"),
                               !.s.partial = h.s.partial /\ b]
            silent == [named EXCEPT !.replies = "no"]
<1>1. h \in Hearing /\ h.s \in Station /\ h.s.state \in Names
  BY StateIs
<1>2. named \in Hearing /\ named.s.state = h.s.state
      /\ named.s.recorded = h.s.recorded /\ named.s.engaged = h.s.engaged
  <2>. DEFINE t == [h.s EXCEPT !.other = (found = "No"), !.partial = h.s.partial /\ b]
  <2>1. b \in BOOLEAN /\ c \in BOOLEAN /\ (found = "No") \in BOOLEAN
        /\ a \in {"no call", "it", "another"}
    OBVIOUS
  <2>2. t \in Station /\ t.state = h.s.state /\ t.recorded = h.s.recorded
        /\ t.engaged = h.s.engaged
    BY <1>1, <2>1 DEF Station
  <2>3. named = [h EXCEPT !.addressed = a, !.matched = h.matched \/ b,
                          !.called = h.called \/ c, !.s = t]
    BY <1>1 DEF Hearing
  <2>. HIDE DEF t, a, b, c
  <2>. QED BY <1>1, <2>1, <2>2, <2>3 DEF Hearing
<1>3. silent \in Hearing /\ silent.s = named.s
  <2>. HIDE DEF named
  <2>. QED BY <1>2 DEF Hearing
<1>4. HearCall(h, found) =
        CASE found = "Partial" /\ h.s.state = "NeedNr"  -> {Says(named, "NeedCallNr")}
          [] found = "Partial" /\ h.s.state = "NeedEnd" -> {Says(named, "NeedCall")}
          [] found = "Partial" /\ h.s.state = "NeedQso" ->
               {Says(named, "NeedCallNr"), [Says(named, h.s.state) EXCEPT !.s.partial = TRUE]}
          [] found = "Partial" -> {Says(named, h.s.state)}
          [] found = "Exact" /\ h.s.state \in {"NeedQso", "NeedCallNr"} -> {Goes(named, "NeedNr")}
          [] found = "Exact" /\ h.s.state = "NeedCall" -> {Goes(named, "NeedEnd")}
          [] found = "Close" /\ h.s.state \in {"NeedQso", "NeedNr"} -> {Goes(named, "NeedCallNr")}
          [] found = "Close" /\ h.s.state = "NeedEnd" -> {Goes(named, "NeedCall")}
          [] found = "No" /\ style = "Pileup" /\ h.s.state = "NeedEnd" -> {Goes(silent, "Done")}
          [] found = "No" /\ style = "Pileup" /\ Worked(h.s) -> {Goes(silent, "NeedQso")}
          [] found = "No" -> {silent}
          [] OTHER -> {named}
  BY DEF HearCall
<1>. HIDE DEF named, silent
<1>5. Stems(s, named) /\ Active(named.s)
  BY <1>2, LikeStems DEF Active, Worked
<1>6. Stems(s, silent) /\ Active(silent.s)
  BY <1>2, <1>3, LikeStems DEF Active, Worked
<1>7. \A state \in Names \ {"NotCome"} : Stems(s, Says(named, state)) /\ Stems(s, Goes(named, state))
                                        /\ Stems(s, Goes(silent, state))
  BY <1>5, <1>6, GoesStems
<1>8. {"NeedQso", "NeedNr", "NeedCall", "NeedCallNr", "NeedEnd", "Done"} \subseteq Names \ {"NotCome"}
  BY DEF Names
<1>9. h.s.state \in Names \ {"NotCome"}
  BY <1>1 DEF Active, Worked
<1>10. Stems(s, [Says(named, h.s.state) EXCEPT !.s.partial = TRUE])
  <2>1. PICK q \in Hearing : q = Says(named, h.s.state) /\ Stems(s, q) /\ Active(q.s)
    <3>1. Says(named, h.s.state) \in Hearing /\ Says(named, h.s.state).s.state = h.s.state
      BY <1>1, <1>2, SaysIs
    <3>. QED BY <1>7, <1>9, <3>1 DEF Active, Worked
  <2>2. PICK yes \in BOOLEAN : yes = TRUE
    OBVIOUS
  <2>. DEFINE r == [q EXCEPT !.s.partial = yes]
  <2>3. r \in Hearing /\ r.s.state = q.s.state /\ r.s.recorded = q.s.recorded
        /\ r.s.engaged = q.s.engaged /\ r.took = q.took /\ r.matched = q.matched
    BY DEF Hearing, Station
  <2>4. Stems(s, r)
    <3>. HIDE DEF r
    <3>. QED BY <2>1, <2>3, LikeStems
  <2>. QED BY <2>1, <2>2, <2>4
<1>. QED BY <1>4, <1>5, <1>6, <1>7, <1>8, <1>9, <1>10

LEMMA ExchangeStems ==
  ASSUME NEW s, NEW h, Stems(s, h), NEW g \in HearExchange(h)
  PROVE  Stems(s, g)
<1>. DEFINE forIt == h.addressed = "it" \/ h.s.partial
            waits == h.s.state \in {"NeedNr", "NeedCallNr"} \/ (h.s.state = "NeedQso" /\ forIt)
            missed == Says(h, IF h.s.state = "NeedQso" THEN "NeedCallNr" ELSE h.s.state)
            took == [h EXCEPT !.took = h.took \/ Worked(h.s)]
            told == [Says(took, "NeedCall") EXCEPT !.took = TRUE]
            not == [took EXCEPT !.replies = "no", !.s.other = TRUE]
            on == CASE h.s.state = "NeedNr" -> Goes(took, "NeedEnd")
                    [] h.s.state = "NeedCallNr" -> Goes(took, "NeedCall")
                    [] h.s.state = "NeedQso" /\ forIt -> told
                    [] h.s.state = "NeedQso" -> not
                    [] OTHER -> took
<1>1. h \in Hearing /\ h.s \in Station /\ h.s.state \in Names
  BY StateIs
<1>2. took \in Hearing /\ took.s = h.s /\ took.matched = h.matched
      /\ took.took = (h.took \/ Worked(h.s))
  <2>1. Worked(h.s) \in BOOLEAN
    BY <1>1 DEF Worked
  <2>. QED BY <1>1, <2>1 DEF Hearing
<1>3. HearExchange(h) = (IF waits /\ style = "Pileup" THEN {missed} ELSE {}) \cup {on}
  BY DEF HearExchange
<1>4. h.s.state \in {"NeedNr", "NeedCallNr", "NeedQso"} => Active(h.s)
  BY DEF Active, Worked
<1>5. ~Active(h.s) => ~Worked(h.s)
  BY DEF Active
<1>. HIDE DEF took
<1>6. Stems(s, took)
  BY <1>1, <1>2, <1>5, LikeStems DEF Hearing
<1>7. {"NeedCall", "NeedCallNr", "NeedEnd", "NeedNr"} \subseteq Names \ {"NotCome"}
  BY DEF Names
<1>8. waits => Stems(s, missed)
  <2>. SUFFICES ASSUME waits PROVE Stems(s, missed)
    OBVIOUS
  <2>1. (IF h.s.state = "NeedQso" THEN "NeedCallNr" ELSE h.s.state) \in Names \ {"NotCome"}
    BY <1>7
  <2>. QED BY <1>4, <2>1, GoesStems
<1>9. h.s.state \in {"NeedNr", "NeedCallNr", "NeedQso"} =>
        \A state \in {"NeedCall", "NeedEnd"} : Stems(s, Goes(took, state)) /\ Stems(s, Says(took, state))
  BY <1>2, <1>4, <1>6, <1>7, GoesStems
<1>10. PICK yes \in BOOLEAN : yes = TRUE
  OBVIOUS
<1>11. h.s.state = "NeedQso" => Stems(s, told)
  <2>. SUFFICES ASSUME h.s.state = "NeedQso" PROVE Stems(s, told)
    OBVIOUS
  <2>1. PICK q \in Hearing : q = Says(took, "NeedCall") /\ Stems(s, q) /\ Active(q.s)
    <3>1. Says(took, "NeedCall") \in Hearing /\ Says(took, "NeedCall").s.state = "NeedCall"
      BY <1>2, <1>7, SaysIs
    <3>. QED BY <1>9, <3>1 DEF Active, Worked
  <2>. DEFINE r == [q EXCEPT !.took = yes]
  <2>2. r \in Hearing /\ r.s = q.s
    BY DEF Hearing
  <2>3. Stems(s, r)
    <3>. HIDE DEF r
    <3>. QED BY <2>1, <2>2, LikeStems
  <2>. QED BY <1>10, <2>1, <2>3
<1>12. h.s.state = "NeedQso" => Stems(s, not)
  <2>. SUFFICES ASSUME h.s.state = "NeedQso" PROVE Stems(s, not)
    OBVIOUS
  <2>. DEFINE r == [took EXCEPT !.replies = "no", !.s.other = yes]
  <2>1. r \in Hearing /\ r.s.state = took.s.state /\ r.s.recorded = took.s.recorded
        /\ r.s.engaged = took.s.engaged
    BY <1>2 DEF Hearing, Station
  <2>2. Active(took.s)
    BY <1>2, <1>4
  <2>3. Stems(s, r)
    <3>. HIDE DEF r
    <3>. QED BY <1>6, <2>1, <2>2, LikeStems
  <2>. QED BY <1>10, <2>3
<1>13. Stems(s, on)
  <2>. HIDE DEF told, not, forIt
  <2>. QED BY <1>6, <1>9, <1>11, <1>12
<1>. HIDE DEF on, missed, waits
<1>. QED BY <1>3, <1>8, <1>13

LEMMA OverStems ==
  ASSUME NEW s, NEW h, Stems(s, h), NEW part
  PROVE  Stems(s, HearOver(h, part))
<1>. DEFINE b == Freed(h).rested \/ (part = "Nil" /\ Waits(h.s))
            freed == [Freed(h) EXCEPT !.rested = b]
<1>1. h \in Hearing /\ h.s.state \in Names /\ Freed(h) \in Hearing
  BY StateIs, FreedIs
<1>2. b \in BOOLEAN
  BY <1>1 DEF Waits, Hearing, Station
<1>3. freed \in Hearing /\ freed.s = Freed(h).s
      /\ freed.took = Freed(h).took /\ freed.matched = Freed(h).matched
  <2>. HIDE DEF b
  <2>. QED BY <1>1, <1>2 DEF Hearing
<1>4. HearOver(h, part) =
        CASE h.s.state = "NeedQso" -> Says(freed, "NeedQso")
          [] part = "B4" /\ h.s.state \in {"NeedCall", "NeedCallNr"} -> h
          [] Worked(h.s) /\ h.addressed # "another" /\ ~h.s.other -> Goes(h, "Gone")
          [] OTHER -> h
  BY DEF HearOver
<1>. HIDE DEF freed
<1>5. Stems(s, freed) /\ freed.s.state = h.s.state
  BY <1>1, <1>3, FreedIs, FreedStems, LikeStems
<1>6. h.s.state = "NeedQso" => Active(freed.s)
  BY <1>5 DEF Active, Worked
<1>7. {"NeedQso", "Gone"} \subseteq Names \ {"NotCome"}
  BY DEF Names
<1>8. Worked(h.s) => Active(h.s)
  BY DEF Active
<1>. QED BY <1>4, <1>5, <1>6, <1>7, <1>8, GoesStems

LEMMA RepliesStems ==
  ASSUME NEW s, NEW h, Stems(s, h)
  PROVE  Stems(s, [h EXCEPT !.replies = "yes"])
<1>. DEFINE g == [h EXCEPT !.replies = "yes"]
<1>1. h \in Hearing
  BY StateIs
<1>2. g \in Hearing /\ g.s = h.s /\ g.took = h.took /\ g.matched = h.matched
  BY <1>1 DEF Hearing
<1>. HIDE DEF g
<1>3. Stems(s, g)
  BY <1>2, LikeStems
<1>. QED BY <1>3 DEF g

LEMMA PartStems ==
  ASSUME NEW s, NEW h, Stems(s, h), NEW st, NEW c, NEW part, NEW g \in HearPart(st, c, h, part)
  PROVE  Stems(s, g)
<1>1. ASSUME Active(h.s), NEW found, g \in HearCall(h, found) PROVE Stems(s, g)
  BY <1>1, CallStems
<1>2. /\ Stems(s, HearCq(h)) /\ Stems(s, HearOver(h, part.part))
      /\ Stems(s, [h EXCEPT !.replies = "yes"])
  BY CqStems, OverStems, RepliesStems
<1>3. g \in HearExchange(h) \cup HearTu(h) => Stems(s, g)
  BY ExchangeStems, TuStems
<1>. QED BY <1>1, <1>2, <1>3 DEF HearPart

LEMMA SpendStems ==
  ASSUME NEW s, NEW h, Stems(s, h), NEW g \in SpendTry(h)
  PROVE  Stems(s, g)
<1>1. "Gone" \in Names \ {"NotCome"}
  BY DEF Names
<1>. QED BY <1>1, GoesStems DEF SpendTry, Active

\* What it makes of the first parts of a message is a function of how many:
\* of none, and of each one more.
LEMMA HearsStems ==
  ASSUME NEW st, NEW c, st[c] \in Station, NEW message, Len(message) \in Nat,
         NEW g \in Hears(st, c, message)
  PROVE  Stems(st[c], g)
<1>. DEFINE After(hs, i) == UNION {HearPart(st, c, h, message[i]) : h \in hs}
            IsIt(f, n) == f = [i \in 0..n |-> IF i = 0 THEN {Unmoved(st[c])} ELSE After(f[i - 1], i)]
            S == {n \in Nat : \E f : IsIt(f, n)}
<1>1. \A n \in Nat : n \in S
  <2>1. 0 \in S
    <3>1. IsIt([i \in 0..0 |-> {Unmoved(st[c])}], 0)
      OBVIOUS
    <3>. QED BY <3>1
  <2>2. ASSUME NEW n \in Nat, n \in S PROVE n + 1 \in S
    <3>1. PICK f : IsIt(f, n)
      BY <2>2
    <3>2. f = [j \in 0..n |-> IF j = 0 THEN {Unmoved(st[c])} ELSE After(f[j - 1], j)]
      BY <3>1
    <3>. DEFINE k == [i \in 0..(n + 1) |-> IF i <= n THEN f[i] ELSE After(f[n], n + 1)]
    <3>. HIDE DEF After
    <3>3. ASSUME NEW i \in 0..(n + 1)
          PROVE  k[i] = IF i = 0 THEN {Unmoved(st[c])} ELSE After(k[i - 1], i)
      <4>1. CASE i = 0
        BY <3>1, <4>1
      <4>2. CASE i # 0 /\ i <= n
        <5>1. i \in 0..n
          BY <4>2
        <5>2. f[i] = After(f[i - 1], i)
          BY <3>2, <4>2, <5>1
        <5>3. k[i] = f[i] /\ k[i - 1] = f[i - 1]
          BY <4>2
        <5>. QED BY <4>2, <5>2, <5>3
      <4>3. CASE i = n + 1
        BY <4>3
      <4>. QED BY <4>1, <4>2, <4>3
    <3>4. IsIt(k, n + 1)
      BY <3>3
    <3>. HIDE DEF k, IsIt
    <3>. QED BY <3>4
  <2>. HIDE DEF S
  <2>. QED BY <2>1, <2>2, InductOn
<1>. DEFINE heard == CHOOSE f : IsIt(f, Len(message))
<1>2. IsIt(heard, Len(message))
  BY <1>1
<1>3. Hears(st, c, message) = UNION {SpendTry(h) : h \in heard[Len(message)]}
  BY DEF Hears
<1>. HIDE DEF heard
<1>. DEFINE T == {n \in Nat : n <= Len(message) => \A h \in heard[n] : Stems(st[c], h)}
<1>4. \A n \in Nat : n \in T
  <2>1. 0 \in T
    <3>1. heard[0] = {Unmoved(st[c])}
      BY <1>2
    <3>. QED BY <3>1, UnmovedStems
  <2>2. ASSUME NEW n \in Nat, n \in T PROVE n + 1 \in T
    <3>. SUFFICES ASSUME n + 1 <= Len(message), NEW h \in heard[n + 1] PROVE Stems(st[c], h)
      OBVIOUS
    <3>1. heard[n + 1] = After(heard[n], n + 1)
      <4>1. n + 1 \in 0..Len(message) /\ n + 1 # 0 /\ (n + 1) - 1 = n
        OBVIOUS
      <4>2. heard = [j \in 0..Len(message) |->
                       IF j = 0 THEN {Unmoved(st[c])} ELSE After(heard[j - 1], j)]
        BY <1>2
      <4>. HIDE DEF After
      <4>3. heard[n + 1] = After(heard[(n + 1) - 1], n + 1)
        BY <4>1, <4>2
      <4>. QED BY <4>1, <4>3
    <3>2. PICK k \in heard[n] : h \in HearPart(st, c, k, message[n + 1])
      BY <3>1
    <3>3. Stems(st[c], k)
      BY <2>2
    <3>. QED BY <3>2, <3>3, PartStems
  <2>. HIDE DEF T
  <2>. QED BY <2>1, <2>2, InductOn
<1>5. PICK h \in heard[Len(message)] : g \in SpendTry(h)
  BY <1>3
<1>6. Stems(st[c], h)
  BY <1>4
<1>. QED BY <1>5, <1>6, SpendStems

-----------------------------------------------------------------------------
(***************************************************************************)
(* Sides.  One is whole where what its stations have noted as kept is what *)
(* its log keeps, once each, and those who have not come take no part.     *)
(***************************************************************************)
Came(st, c) == st[c].state # "NotCome"

KeepsOf(logged, c, i) == logged[i].station = c /\ logged[i].copy

CopiesFit(st, logged) ==
  /\ \A c \in Callers : st[c].recorded => \E i \in DOMAIN logged : KeepsOf(logged, c, i)
  /\ \A c \in Callers : \A i \in DOMAIN logged : logged[i].station = c => st[c].recorded
  /\ \A c \in Callers : \A i, j \in DOMAIN logged :
       KeepsOf(logged, c, i) /\ KeepsOf(logged, c, j) => i = j

Whole(side) ==
  /\ side \in Sides
  /\ \A c \in Callers : ~Came(side.stations, c) =>
       ~side.stations[c].recorded /\ ~side.stations[c].engaged
  /\ side.working # NoOne => Came(side.stations, side.working)
  /\ side.thanked # NoOne => Came(side.stations, side.thanked)
  /\ CopiesFit(side.stations, side.entries)

\* Two logs with the same rows, whether their checks have shown or not.
SameRow(a, b) == a.kind = b.kind /\ a.station = b.station /\ a.copy = b.copy

\* A log goes on: rows come after those there are.
GoesOn(a, b) == Len(a) <= Len(b) /\ \A i \in 1..Len(a) : SameRow(a[i], b[i])

LEMMA SideTypes ==
  ASSUME NEW side \in Sides
  PROVE  /\ side.stations \in [Callers -> Station] /\ side.entries \in Seq(Row)
         /\ side.working \in Some /\ side.thanked \in Some
         /\ Len(side.entries) \in Nat /\ DOMAIN side.entries = 1..Len(side.entries)
         /\ \A i \in 1..Len(side.entries) : side.entries[i] \in Row
         /\ \A c \in Callers : side.stations[c] \in Station /\ side.stations[c].state \in Names
              /\ side.stations[c].recorded \in BOOLEAN /\ side.stations[c].engaged \in BOOLEAN
BY DEF Sides, Station

LEMMA KeptAs ==
  ASSUME NEW st, NEW logged \in Seq(Row), CopiesFit(st, logged), NEW st2, NEW logged2 \in Seq(Row),
         Len(logged2) = Len(logged), GoesOn(logged, logged2),
         \A c \in Callers : st2[c].recorded <=> st[c].recorded
  PROVE  CopiesFit(st2, logged2)
<1>1. DOMAIN logged = 1..Len(logged) /\ DOMAIN logged2 = 1..Len(logged)
  OBVIOUS
<1>2. \A c \in Callers : \A i \in 1..Len(logged) :
        /\ KeepsOf(logged2, c, i) <=> KeepsOf(logged, c, i)
        /\ logged2[i].station = c <=> logged[i].station = c
  BY DEF GoesOn, SameRow, KeepsOf
<1>. QED BY <1>1, <1>2 DEF CopiesFit

LEMMA WholeAs ==
  ASSUME NEW side, Whole(side), NEW t \in Sides,
         Len(t.entries) = Len(side.entries), GoesOn(side.entries, t.entries),
         \A c \in Callers : t.stations[c].recorded <=> side.stations[c].recorded,
         \A c \in Callers : ~Came(t.stations, c) =>
           ~Came(side.stations, c) /\ (t.stations[c].engaged <=> side.stations[c].engaged),
         t.working # NoOne => Came(t.stations, t.working),
         t.thanked # NoOne => Came(t.stations, t.thanked)
  PROVE  Whole(t)
<1>1. side.entries \in Seq(Row) /\ t.entries \in Seq(Row)
  BY SideTypes DEF Whole
<1>2. CopiesFit(t.stations, t.entries)
  BY <1>1, KeptAs DEF Whole
<1>. QED BY <1>2 DEF Whole

LEMMA GoesOnSelf ==
  ASSUME NEW a \in Seq(Row)
  PROVE  GoesOn(a, a)
BY DEF GoesOn, SameRow

LEMMA GoesOnAgain ==
  ASSUME NEW a \in Seq(Row), NEW b \in Seq(Row), NEW d \in Seq(Row), GoesOn(a, b), GoesOn(b, d)
  PROVE  GoesOn(a, d)
BY DEF GoesOn, SameRow

\* The stations that are lost come in an order, each once.
LEMMA OrderIs ==
  ASSUME NEW T \in SUBSET Callers
  PROVE  \E n \in Nat : /\ SetToSeq(T) \in [1..n -> T]
                        /\ \A c \in T : \E i \in 1..n : SetToSeq(T)[i] = c
                        /\ \A i, j \in 1..n : SetToSeq(T)[i] = SetToSeq(T)[j] => i = j
<1>. DEFINE n == Cardinality(T)
<1>1. IsFiniteSet(T)
  BY CallersAssumption, FS_Subset
<1>2. n \in Nat /\ ExistsBijection(1..n, T)
  BY <1>1, FS_CardinalityType
<1>3. \E f \in [1..n -> T] : IsInjective(f)
  BY <1>2 DEF ExistsBijection, Bijection, Injection
<1>4. SetToSeq(T) \in [1..n -> T] /\ IsInjective(SetToSeq(T))
  BY <1>3 DEF SetToSeq
<1>5. SetToSeq(T) \in Injection(1..n, T)
  BY <1>4 DEF Injection
<1>6. IsFiniteSet(1..n) /\ Cardinality(1..n) = Cardinality(T)
  BY <1>2, FS_Interval
<1>7. SetToSeq(T) \in Surjection(1..n, T)
  BY <1>1, <1>5, <1>6, FS_Injection
<1>. QED BY <1>2, <1>4, <1>7 DEF Surjection, IsInjective

\* All but what the log has of it, and of your QSO with it its own call.
SameSelf(a, b) == /\ a.state = b.state /\ a.other = b.other /\ a.silent = b.silent
                  /\ a.waiting = b.waiting /\ a.engaged = b.engaged

\* Rows of lost copies come after those there are.
LostRows(a, b) ==
  /\ Len(a) <= Len(b)
  /\ \A i \in 1..Len(a) : b[i] = a[i]
  /\ \A i \in 1..Len(b) : i > Len(a) => b[i].kind = "lost" /\ ~b[i].pending

\* Stations T are lost, and nothing else comes of it.
LosesJust(side, t, T) ==
  /\ t.working = side.working /\ t.thanked = side.thanked
  /\ \A c \in Callers : SameSelf(t.stations[c], side.stations[c])
  /\ \A c \in Callers : t.stations[c].recorded <=> side.stations[c].recorded \/ c \in T
  /\ LostRows(side.entries, t.entries)

LEMMA RecordedIs ==
  ASSUME NEW s \in Station
  PROVE  /\ [s EXCEPT !.recorded = TRUE] \in Station
         /\ [s EXCEPT !.recorded = TRUE].recorded
         /\ SameSelf([s EXCEPT !.recorded = TRUE], s)
<1>1. PICK yes \in BOOLEAN : yes = TRUE
  OBVIOUS
<1>2. /\ [s EXCEPT !.recorded = yes] \in Station
      /\ [s EXCEPT !.recorded = yes].recorded = yes
      /\ SameSelf([s EXCEPT !.recorded = yes], s)
  BY DEF Station, SameSelf
<1>. QED BY <1>1, <1>2

LEMMA EntryIs ==
  ASSUME NEW kind \in {"qso", "nil", "lost"}, NEW c \in Some, NEW copy \in BOOLEAN
  PROVE  /\ Entry(kind, c, copy) \in Row
         /\ Entry(kind, c, copy).kind = kind
         /\ Entry(kind, c, copy).station = c
         /\ Entry(kind, c, copy).copy = copy
         /\ Entry(kind, c, copy).pending <=> kind # "lost"
<1>1. PICK b \in BOOLEAN : b = (kind # "lost")
  OBVIOUS
<1>. DEFINE e == [kind |-> kind, station |-> c, copy |-> copy, pending |-> b]
<1>2. e \in Row /\ e.kind = kind /\ e.station = c /\ e.copy = copy /\ e.pending = b
  BY DEF Row
<1>3. Entry(kind, c, copy) = e
  BY <1>1 DEF Entry
<1>. HIDE DEF e
<1>. QED BY <1>1, <1>2, <1>3

LEMMA LoseAllIs ==
  ASSUME NEW side, Whole(side), NEW T \in SUBSET Callers,
         \A c \in T : Came(side.stations, c) /\ ~side.stations[c].recorded
  PROVE  Whole(LoseAll(side, T)) /\ LosesJust(side, LoseAll(side, T), T)
<1>. DEFINE st == side.stations
            order == SetToSeq(T)
            m == Len(side.entries)
            more == [i \in DOMAIN order |-> Entry("lost", order[i], ~st[order[i]].recorded)]
            st2 == [c \in Callers |-> IF c \in T THEN [st[c] EXCEPT !.recorded = TRUE] ELSE st[c]]
            t == [side EXCEPT !.entries = side.entries \o more, !.stations = st2]
<1>1. side \in Sides /\ st \in [Callers -> Station] /\ side.entries \in Seq(Row) /\ m \in Nat
      /\ DOMAIN side.entries = 1..m
  BY SideTypes DEF Whole
<1>2. PICK n \in Nat : /\ order \in [1..n -> T]
                       /\ \A c \in T : \E i \in 1..n : order[i] = c
                       /\ \A i, j \in 1..n : order[i] = order[j] => i = j
  BY OrderIs
<1>. HIDE DEF order
<1>3. ASSUME NEW i \in 1..n
      PROVE  more[i] \in Row /\ more[i].kind = "lost" /\ more[i].station = order[i]
             /\ more[i].copy /\ ~more[i].pending
  <2>1. order[i] \in T /\ order[i] \in Some /\ i \in DOMAIN order
    BY <1>2 DEF Some
  <2>2. (~st[order[i]].recorded) \in BOOLEAN /\ ~st[order[i]].recorded
    BY <2>1
  <2>3. PICK b \in BOOLEAN : b = (~st[order[i]].recorded)
    BY <2>2
  <2>4. more[i] = Entry("lost", order[i], b)
    BY <2>1, <2>3
  <2>5. PICK e : e = Entry("lost", order[i], b)
    OBVIOUS
  <2>6. e \in Row /\ e.kind = "lost" /\ e.station = order[i] /\ e.copy = b /\ (e.pending <=> e.kind # "lost")
    BY <2>1, <2>5, EntryIs
  <2>. HIDE DEF more
  <2>. QED BY <2>2, <2>3, <2>4, <2>5, <2>6
<1>4. more \in Seq(Row) /\ Len(more) = n
  <2>1. more = [i \in 1..n |-> more[i]]
    BY <1>2
  <2>. HIDE DEF more
  <2>. QED BY <1>3, <2>1, IsASeq
<1>. HIDE DEF more
<1>5. /\ side.entries \o more \in Seq(Row) /\ Len(side.entries \o more) = m + n
      /\ \A i \in 1..(m + n) : (side.entries \o more)[i] =
                                 IF i <= m THEN side.entries[i] ELSE more[i - m]
  BY <1>1, <1>4, ConcatProperties
<1>6. ASSUME NEW c \in Callers
      PROVE  /\ st2[c] \in Station /\ SameSelf(st2[c], st[c])
             /\ st2[c].recorded <=> st[c].recorded \/ c \in T
  <2>1. st[c] \in Station
    BY <1>1
  <2>. QED BY <2>1, RecordedIs DEF SameSelf
<1>. DEFINE l == side.entries \o more
<1>7. st2 \in [Callers -> Station]
  BY <1>6
<1>. HIDE DEF st2
<1>8. t \in Sides /\ t.entries = l /\ t.stations = st2 /\ t.working = side.working
      /\ t.thanked = side.thanked
  <2>. HIDE DEF l
  <2>1. l \in Seq(Row)
    BY <1>5 DEF l
  <2>. QED BY <1>1, <1>7, <2>1 DEF Sides, l
<1>9. t = LoseAll(side, T)
  BY DEF LoseAll, st2, more, order
<1>10. \A i \in 1..m : l[i] = side.entries[i]
  BY <1>1, <1>5
<1>11. \A i \in 1..(m + n) : i > m => i - m \in 1..n /\ l[i] = more[i - m]
  BY <1>1, <1>5
<1>12. Len(l) = m + n /\ DOMAIN l = 1..(m + n)
  BY <1>1, <1>5
<1>. HIDE DEF l, t
<1>13. LosesJust(side, t, T)
  <2>1. \A i \in 1..(m + n) : i > m => l[i].kind = "lost" /\ ~l[i].pending
    BY <1>3, <1>11
  <2>2. m <= m + n
    BY <1>1
  <2>. QED BY <1>6, <1>8, <1>10, <1>12, <2>1, <2>2 DEF LosesJust, LostRows
<1>14. CopiesFit(t.stations, t.entries)
  <2>1. CopiesFit(st, side.entries)
    BY DEF Whole
  <2>2. ASSUME NEW c \in Callers, NEW i \in 1..(m + n), KeepsOf(l, c, i)
        PROVE  st2[c].recorded /\ (i <= m => c \notin T /\ KeepsOf(side.entries, c, i))
                               /\ (i > m => c = order[i - m] /\ c \in T /\ i - m \in 1..n)
    <3>1. CASE i <= m
      <4>1. i \in 1..m
        BY <1>1, <3>1
      <4>2. KeepsOf(side.entries, c, i)
        BY <1>10, <2>2, <4>1 DEF KeepsOf
      <4>3. st[c].recorded
        BY <1>1, <2>1, <4>1, <4>2 DEF CopiesFit, KeepsOf
      <4>. QED BY <1>1, <1>6, <3>1, <4>2, <4>3
    <3>2. CASE i > m
      <4>1. c = order[i - m] /\ c \in T /\ i - m \in 1..n
        BY <1>2, <1>3, <1>11, <2>2, <3>2 DEF KeepsOf
      <4>. QED BY <1>1, <1>6, <3>2, <4>1
    <3>. QED BY <1>1, <3>1, <3>2
  <2>3. ASSUME NEW c \in Callers, st2[c].recorded
        PROVE  \E i \in 1..(m + n) : KeepsOf(l, c, i)
    <3>1. CASE st[c].recorded
      <4>1. PICK i \in 1..m : KeepsOf(side.entries, c, i)
        BY <1>1, <2>1, <3>1 DEF CopiesFit
      <4>2. i \in 1..(m + n) /\ KeepsOf(l, c, i)
        BY <1>1, <1>10, <4>1 DEF KeepsOf
      <4>. QED BY <4>2
    <3>2. CASE c \in T
      <4>1. PICK j \in 1..n : order[j] = c
        BY <1>2, <3>2
      <4>2. j + m \in 1..(m + n) /\ j + m > m /\ (j + m) - m = j
        BY <1>1
      <4>3. l[j + m] = more[j]
        BY <1>11, <4>2
      <4>4. KeepsOf(l, c, j + m)
        BY <1>3, <4>1, <4>3 DEF KeepsOf
      <4>. QED BY <4>2, <4>4
    <3>. QED BY <1>6, <2>3, <3>1, <3>2
  <2>4. ASSUME NEW c \in Callers, NEW i \in 1..(m + n), NEW j \in 1..(m + n),
               KeepsOf(l, c, i), KeepsOf(l, c, j)
        PROVE  i = j
    <3>1. CASE i <= m
      <4>1. j <= m
        BY <1>1, <2>2, <2>4, <3>1
      <4>2. i \in 1..m /\ j \in 1..m
        BY <1>1, <3>1, <4>1
      <4>3. KeepsOf(side.entries, c, i) /\ KeepsOf(side.entries, c, j)
        BY <2>2, <2>4, <3>1, <4>1
      <4>. QED BY <1>1, <2>1, <4>2, <4>3 DEF CopiesFit
    <3>2. CASE i > m
      <4>1. ~(j <= m)
        BY <2>2, <2>4, <3>2
      <4>2. j > m
        BY <1>1, <4>1
      <4>3. order[i - m] = order[j - m] /\ i - m \in 1..n /\ j - m \in 1..n
        BY <2>2, <2>4, <3>2, <4>2
      <4>4. i - m = j - m
        BY <1>2, <4>3
      <4>. QED BY <1>1, <4>4
    <3>. QED BY <1>1, <3>1, <3>2
  <2>5. ASSUME NEW c \in Callers, NEW i \in 1..(m + n), l[i].station = c
        PROVE  st2[c].recorded
    <3>1. CASE i <= m
      <4>1. i \in 1..m
        BY <1>1, <3>1
      <4>2. side.entries[i].station = c
        BY <1>10, <2>5, <4>1
      <4>3. st[c].recorded
        BY <1>1, <2>1, <4>1, <4>2 DEF CopiesFit
      <4>. QED BY <1>6, <4>3
    <3>2. CASE i > m
      <4>1. c = order[i - m] /\ i - m \in 1..n
        BY <1>3, <1>11, <2>5, <3>2
      <4>. QED BY <1>2, <1>6, <4>1
    <3>. QED BY <1>1, <3>1, <3>2
  <2>. QED BY <1>8, <1>12, <2>3, <2>4, <2>5 DEF CopiesFit
<1>15. Whole(t)
  <2>1. \A c \in Callers : st2[c].state = st[c].state /\ st2[c].engaged = st[c].engaged
    BY <1>6 DEF SameSelf
  <2>2. \A c \in Callers : ~Came(st2, c) => ~st2[c].recorded /\ ~st2[c].engaged
    <3>1. \A c \in Callers : ~Came(st2, c) => ~Came(st, c)
      BY <2>1 DEF Came
    <3>2. \A c \in Callers : ~Came(st2, c) => ~st[c].recorded /\ ~st[c].engaged /\ c \notin T
      BY <3>1 DEF Whole
    <3>. QED BY <1>6, <2>1, <3>2
  <2>3. \A c \in Some : c # NoOne => c \in Callers
    BY DEF Some
  <2>4. side.working \in Some /\ side.thanked \in Some
    BY <1>1, SideTypes
  <2>5. /\ t.working # NoOne => Came(st2, t.working)
        /\ t.thanked # NoOne => Came(st2, t.thanked)
    BY <1>8, <2>1, <2>3, <2>4 DEF Whole, Came
  <2>. QED BY <1>8, <1>14, <2>2, <2>5 DEF Whole
<1>. QED BY <1>9, <1>13, <1>15

LEMMA AppendKeeps ==
  ASSUME NEW st \in [Callers -> Station], NEW logged \in Seq(Row), CopiesFit(st, logged),
         NEW row \in Row, row.copy <=> row.station \in Callers /\ ~st[row.station].recorded,
         NEW st2 \in [Callers -> Station],
         \A c \in Callers : st2[c].recorded <=> st[c].recorded \/ c = row.station
  PROVE  CopiesFit(st2, Append(logged, row))
<1>. DEFINE m == Len(logged)
            l == Append(logged, row)
<1>1. m \in Nat /\ DOMAIN logged = 1..m /\ l \in Seq(Row) /\ Len(l) = m + 1 /\ DOMAIN l = 1..(m + 1)
      /\ l[m + 1] = row /\ \A i \in 1..m : l[i] = logged[i]
  BY AppendProperties
<1>. HIDE DEF l, m
<1>2. ASSUME NEW c \in Callers, NEW i \in 1..(m + 1), KeepsOf(l, c, i)
      PROVE  /\ i \in 1..m => KeepsOf(logged, c, i) /\ st[c].recorded
             /\ i \notin 1..m => i = m + 1 /\ row.copy /\ c = row.station
             /\ st2[c].recorded
  <2>1. CASE i \in 1..m
    <3>1. KeepsOf(logged, c, i)
      BY <1>1, <1>2, <2>1 DEF KeepsOf
    <3>2. st[c].recorded
      BY <1>1, <2>1, <3>1 DEF CopiesFit, KeepsOf
    <3>. QED BY <2>1, <3>1, <3>2
  <2>2. CASE i \notin 1..m
    <3>1. i = m + 1
      BY <1>1, <2>2
    <3>2. row.copy /\ c = row.station
      BY <1>1, <1>2, <3>1 DEF KeepsOf
    <3>. QED BY <2>2, <3>1, <3>2
  <2>. QED BY <2>1, <2>2
<1>3. ASSUME NEW c \in Callers, st2[c].recorded
      PROVE  \E i \in 1..(m + 1) : KeepsOf(l, c, i)
  <2>1. CASE st[c].recorded
    <3>1. PICK i \in 1..m : KeepsOf(logged, c, i)
      BY <1>1, <2>1 DEF CopiesFit
    <3>2. i \in 1..(m + 1) /\ KeepsOf(l, c, i)
      BY <1>1, <3>1 DEF KeepsOf
    <3>. QED BY <3>2
  <2>2. CASE row.copy /\ c = row.station
    <3>1. m + 1 \in 1..(m + 1) /\ KeepsOf(l, c, m + 1)
      BY <1>1, <2>2 DEF KeepsOf
    <3>. QED BY <3>1
  <2>. QED BY <1>3, <2>1, <2>2
<1>4. ASSUME NEW c \in Callers, NEW i \in 1..(m + 1), l[i].station = c
      PROVE  st2[c].recorded
  <2>1. CASE i \in 1..m
    BY <1>1, <1>4, <2>1 DEF CopiesFit
  <2>2. CASE i \notin 1..m
    <3>1. i = m + 1
      BY <1>1, <2>2
    <3>. QED BY <1>1, <1>4, <3>1
  <2>. QED BY <2>1, <2>2
<1>5. ASSUME NEW c \in Callers, NEW i \in 1..(m + 1), NEW j \in 1..(m + 1),
             KeepsOf(l, c, i), KeepsOf(l, c, j)
      PROVE  i = j
  <2>1. CASE i \in 1..m
    <3>1. KeepsOf(logged, c, i) /\ st[c].recorded
      BY <1>2, <1>5, <2>1
    <3>2. j \in 1..m
      BY <1>2, <1>5, <3>1
    <3>3. KeepsOf(logged, c, j)
      BY <1>2, <1>5, <3>2
    <3>. QED BY <1>1, <2>1, <3>1, <3>2, <3>3 DEF CopiesFit
  <2>2. CASE i \notin 1..m
    <3>1. i = m + 1 /\ row.copy /\ c = row.station
      BY <1>2, <1>5, <2>2
    <3>2. ~st[c].recorded
      BY <3>1
    <3>3. j \notin 1..m
      BY <1>2, <1>5, <3>2
    <3>. QED BY <1>2, <1>5, <3>1, <3>3
  <2>. QED BY <2>1, <2>2
<1>. QED BY <1>1, <1>3, <1>4, <1>5 DEF CopiesFit, l

\* A row comes after those there are, that keeps the copy of c if any is left.
Recorded(side, t, kind, c) ==
  /\ t.working = side.working /\ t.thanked = side.thanked
  /\ \A d \in Callers : SameSelf(t.stations[d], side.stations[d])
  /\ \A d \in Callers : t.stations[d].recorded <=> side.stations[d].recorded \/ d = c
  /\ Len(t.entries) = Len(side.entries) + 1
  /\ \A i \in 1..Len(side.entries) : t.entries[i] = side.entries[i]
  /\ t.entries[Len(t.entries)].kind = kind
  /\ t.entries[Len(t.entries)].pending <=> kind # "lost"

LEMMA RecordIs ==
  ASSUME NEW side, Whole(side), NEW kind \in {"qso", "nil", "lost"}, NEW c \in Some,
         c # NoOne => Came(side.stations, c)
  PROVE  Whole(Record(side, kind, c)) /\ Recorded(side, Record(side, kind, c), kind, c)
<1>. DEFINE st == side.stations
            m == Len(side.entries)
            st2 == IF c # NoOne /\ ~st[c].recorded THEN [st EXCEPT ![c].recorded = TRUE] ELSE st
<1>1. side \in Sides /\ st \in [Callers -> Station] /\ side.entries \in Seq(Row) /\ m \in Nat
      /\ DOMAIN side.entries = 1..m /\ side.working \in Some /\ side.thanked \in Some
  BY SideTypes DEF Whole
<1>2. (c # NoOne /\ ~st[c].recorded) \in BOOLEAN
  OBVIOUS
<1>3. PICK copy \in BOOLEAN : copy = (c # NoOne /\ ~st[c].recorded)
  BY <1>2
<1>4. copy => c \in Callers
  BY <1>3 DEF Some
<1>5. ASSUME NEW d \in Callers
      PROVE  /\ st2[d] \in Station /\ SameSelf(st2[d], st[d])
             /\ st2[d].recorded <=> st[d].recorded \/ d = c
  <2>1. st[d] \in Station
    BY <1>1
  <2>2. CASE copy /\ d = c
    <3>1. st2[d] = [st[d] EXCEPT !.recorded = TRUE]
      BY <1>1, <1>3, <2>2
    <3>. HIDE DEF st2
    <3>. QED BY <2>1, <2>2, <3>1, RecordedIs
  <2>3. CASE ~(copy /\ d = c)
    <3>1. st2[d] = st[d]
      BY <1>1, <1>3, <2>3
    <3>2. d = c => st[d].recorded
      <4>1. d # NoOne
        BY NoOneAssumption
      <4>. QED BY <1>3, <2>3, <4>1
    <3>. HIDE DEF st2
    <3>. QED BY <2>1, <2>3, <3>1, <3>2 DEF SameSelf
  <2>. QED BY <2>2, <2>3
<1>6. st2 \in [Callers -> Station]
  <2>1. st2 = [d \in Callers |-> st2[d]]
    BY <1>1
  <2>. HIDE DEF st2
  <2>. QED BY <1>5, <2>1
<1>7. PICK row \in Row : /\ row = Entry(kind, c, copy) /\ row.kind = kind /\ row.station = c
                         /\ row.copy = copy /\ (row.pending <=> kind # "lost")
  BY EntryIs
<1>. DEFINE l == Append(side.entries, row)
            t == [side EXCEPT !.entries = l, !.stations = st2]
<1>8. l \in Seq(Row) /\ Len(l) = m + 1 /\ DOMAIN l = 1..(m + 1)
      /\ l[m + 1] = row /\ \A i \in 1..m : l[i] = side.entries[i]
  BY <1>1, AppendProperties
<1>9. Record(side, kind, c) = t
  BY <1>3, <1>7 DEF Record
<1>10. CopiesFit(st2, l)
  <2>1. row.copy <=> row.station \in Callers /\ ~st[row.station].recorded
    BY <1>3, <1>4, <1>7, NoOneAssumption
  <2>2. \A d \in Callers : st2[d].recorded <=> st[d].recorded \/ d = row.station
    BY <1>5, <1>7
  <2>3. CopiesFit(st, side.entries)
    BY DEF Whole
  <2>. HIDE DEF st2
  <2>. QED BY <1>1, <1>6, <2>1, <2>2, <2>3, AppendKeeps
<1>. HIDE DEF st2, l
<1>11. t \in Sides /\ t.entries = l /\ t.stations = st2 /\ t.working = side.working
       /\ t.thanked = side.thanked
  BY <1>1, <1>6, <1>8 DEF Sides
<1>. HIDE DEF t
<1>12. Recorded(side, t, kind, c)
  BY <1>5, <1>7, <1>8, <1>11 DEF Recorded
<1>13. Whole(t)
  <2>1. \A d \in Callers : st2[d].state = st[d].state /\ st2[d].engaged = st[d].engaged
    BY <1>5 DEF SameSelf
  <2>2. \A d \in Callers : ~Came(st2, d) => ~st2[d].recorded /\ ~st2[d].engaged
    <3>1. \A d \in Callers : ~Came(st2, d) => ~Came(st, d)
      BY <2>1 DEF Came
    <3>2. \A d \in Callers : ~Came(st2, d) => ~st[d].recorded /\ ~st[d].engaged /\ d # c
      BY <3>1, NoOneAssumption DEF Whole
    <3>. QED BY <1>5, <2>1, <3>2
  <2>3. \A d \in Some : d # NoOne => d \in Callers
    BY DEF Some
  <2>4. /\ t.working # NoOne => Came(st2, t.working)
        /\ t.thanked # NoOne => Came(st2, t.thanked)
    BY <1>1, <1>11, <2>1, <2>3 DEF Whole, Came
  <2>. QED BY <1>10, <1>11, <2>2, <2>4 DEF Whole
<1>. QED BY <1>9, <1>12, <1>13

\* The same side, but for whom you work and whom your TU closed.
With(side, with, closed) == [side EXCEPT !.working = with, !.thanked = closed]

LEMMA WithWhole ==
  ASSUME NEW side, Whole(side), NEW with \in Some, NEW closed \in Some,
         with # NoOne => Came(side.stations, with), closed # NoOne => Came(side.stations, closed)
  PROVE  /\ Whole(With(side, with, closed))
         /\ With(side, with, closed).stations = side.stations
         /\ With(side, with, closed).entries = side.entries
         /\ With(side, with, closed).working = with
         /\ With(side, with, closed).thanked = closed
<1>. DEFINE t == With(side, with, closed)
<1>1. side \in Sides
  BY DEF Whole
<1>2. t \in Sides /\ t.stations = side.stations /\ t.entries = side.entries
      /\ t.working = with /\ t.thanked = closed
  BY <1>1 DEF Sides, With
<1>. HIDE DEF t
<1>3. Whole(t)
  BY <1>2 DEF Whole
<1>. QED BY <1>2, <1>3 DEF t

LEMMA WorkingAlone ==
  ASSUME NEW side \in Sides, NEW c
  PROVE  /\ [side EXCEPT !.working = c] = With(side, c, side.thanked)
         /\ [side EXCEPT !.thanked = c] = With(side, side.working, c)
BY DEF Sides, With

\* Every station you worked is in the log, on the frequency, or thanked.
NoneLeft(side) ==
  \A c \in Callers : side.stations[c].engaged =>
    side.stations[c].recorded \/ Active(side.stations[c]) \/ c = side.thanked

\* What is left of a side when those who left without a QSO are lost.
Closed(side, t) ==
  /\ t.working \in {side.working, NoOne}
  /\ \A c \in Callers : SameSelf(t.stations[c], side.stations[c])
  /\ \A c \in Callers : side.stations[c].recorded => t.stations[c].recorded
  /\ \A c \in Callers : t.stations[c].recorded =>
       \/ side.stations[c].recorded
       \/ side.stations[c].engaged /\ ~Active(side.stations[c]) /\ Came(side.stations, c)
  /\ LostRows(side.entries, t.entries)

LEMMA SameSelfKeeps ==
  ASSUME NEW a, NEW b, SameSelf(a, b)
  PROVE  /\ Active(a) <=> Active(b)
         /\ TimesOut(a) <=> TimesOut(b)
         /\ a.waiting = b.waiting
BY DEF SameSelf, Active, Worked, TimesOut, Waits, StaysSilent

LEMMA LetGoIs ==
  ASSUME NEW side, Whole(side)
  PROVE  LET t == LetGo(side)
         IN  /\ Whole(t) /\ t.stations = side.stations /\ t.entries = side.entries
             /\ t.thanked = side.thanked /\ t.working \in {side.working, NoOne}
             /\ t.working # NoOne => Active(t.stations[t.working])
<1>. DEFINE u == With(side, NoOne, side.thanked)
<1>1. side \in Sides /\ side.thanked \in Some /\ side.working \in Some
  BY SideTypes DEF Whole
<1>2. NoOne \in Some
  BY DEF Some
<1>3. u = [side EXCEPT !.working = NoOne]
  BY <1>1, WorkingAlone
<1>4. /\ Whole(u) /\ u.stations = side.stations /\ u.entries = side.entries
      /\ u.working = NoOne /\ u.thanked = side.thanked
  <2>1. side.thanked # NoOne => Came(side.stations, side.thanked)
    BY DEF Whole
  <2>. QED BY <1>1, <1>2, <2>1, WithWhole
<1>. HIDE DEF u
<1>. QED BY <1>3, <1>4 DEF LetGo

LEMMA CloseFinishedIs ==
  ASSUME NEW side, Whole(side)
  PROVE  LET t == CloseFinished(side)
         IN  /\ Whole(t) /\ NoneLeft(t) /\ Closed(side, t)
             /\ t.working # NoOne => Active(t.stations[t.working])
<1>. DEFINE with == QsoStation(side.stations, side.working)
            kept == IF with # NoOne /\ with # side.thanked
                      THEN [side EXCEPT !.thanked = NoOne] ELSE side
            left == Unfinished(kept)
            lost == LoseAll(kept, left)
<1>1. side \in Sides /\ side.working \in Some /\ side.thanked \in Some
  BY SideTypes DEF Whole
<1>2. NoOne \in Some
  BY DEF Some
<1>3. /\ Whole(kept) /\ kept.stations = side.stations /\ kept.entries = side.entries
      /\ kept.working = side.working /\ kept.thanked \in Some
  <2>. DEFINE u == With(side, side.working, NoOne)
  <2>1. u = [side EXCEPT !.thanked = NoOne]
    BY <1>1, WorkingAlone
  <2>2. /\ Whole(u) /\ u.stations = side.stations /\ u.entries = side.entries
        /\ u.working = side.working /\ u.thanked = NoOne
    <3>1. side.working # NoOne => Came(side.stations, side.working)
      BY DEF Whole
    <3>. QED BY <1>1, <1>2, <3>1, WithWhole
  <2>. HIDE DEF u, with
  <2>. QED BY <1>1, <1>2, <2>1, <2>2
<1>. HIDE DEF kept
<1>4. left \in SUBSET Callers
      /\ \A c \in left : /\ Came(kept.stations, c) /\ ~kept.stations[c].recorded
                         /\ kept.stations[c].engaged /\ ~Active(kept.stations[c])
  BY DEF Unfinished, Came, Active, Worked
<1>5. \A c \in Callers \ left : kept.stations[c].engaged =>
        kept.stations[c].recorded \/ Active(kept.stations[c]) \/ c = kept.thanked
  <2>. SUFFICES ASSUME NEW c \in Callers \ left, kept.stations[c].engaged
                PROVE  kept.stations[c].recorded \/ Active(kept.stations[c]) \/ c = kept.thanked
    OBVIOUS
  <2>1. kept.stations[c].state \in Names /\ Came(kept.stations, c)
    BY <1>3, SideTypes DEF Whole
  <2>. QED BY <2>1 DEF Names, Came, Active, Worked, Unfinished
<1>. HIDE DEF left
<1>6. Whole(lost) /\ LosesJust(kept, lost, left)
  BY <1>3, <1>4, LoseAllIs
<1>. HIDE DEF lost
<1>. DEFINE t == LetGo(lost)
<1>7. /\ Whole(t) /\ t.stations = lost.stations /\ t.entries = lost.entries
      /\ t.thanked = lost.thanked /\ t.working \in {lost.working, NoOne}
      /\ t.working # NoOne => Active(t.stations[t.working])
  BY <1>6, LetGoIs
<1>8. t = CloseFinished(side)
  BY DEF CloseFinished, kept, left, lost
<1>. HIDE DEF t
<1>9. NoneLeft(t)
  <2>. SUFFICES ASSUME NEW c \in Callers, t.stations[c].engaged
                PROVE  t.stations[c].recorded \/ Active(t.stations[c]) \/ c = t.thanked
    BY DEF NoneLeft
  <2>1. SameSelf(t.stations[c], kept.stations[c]) /\ t.thanked = kept.thanked
        /\ (t.stations[c].recorded <=> kept.stations[c].recorded \/ c \in left)
    BY <1>6, <1>7 DEF LosesJust
  <2>2. kept.stations[c].engaged /\ (Active(t.stations[c]) <=> Active(kept.stations[c]))
    BY <2>1, SameSelfKeeps DEF SameSelf
  <2>. QED BY <1>5, <2>1, <2>2
<1>10. Closed(side, t)
  BY <1>3, <1>4, <1>6, <1>7 DEF LosesJust, Closed
<1>. QED BY <1>7, <1>8, <1>9, <1>10

\* The same rows, those checked no longer pending.
LEMMA ResolvedIs ==
  ASSUME NEW side, Whole(side), NEW rows
  PROVE  LET t == Resolved(side, rows)
         IN  /\ Whole(t) /\ t.stations = side.stations /\ t.working = side.working
             /\ t.thanked = side.thanked /\ Len(t.entries) = Len(side.entries)
             /\ GoesOn(side.entries, t.entries)
             /\ \A i \in 1..Len(side.entries) :
                  t.entries[i].pending <=> side.entries[i].pending /\ i \notin rows
<1>. DEFINE m == Len(side.entries)
            l == [i \in DOMAIN side.entries |->
                    [side.entries[i] EXCEPT !.pending = side.entries[i].pending /\ i \notin rows]]
            t == [side EXCEPT !.entries = l]
<1>1. side \in Sides /\ side.entries \in Seq(Row) /\ m \in Nat /\ DOMAIN side.entries = 1..m
      /\ side.stations \in [Callers -> Station] /\ side.working \in Some /\ side.thanked \in Some
  BY SideTypes DEF Whole
<1>2. ASSUME NEW i \in 1..m
      PROVE  /\ l[i] \in Row /\ SameRow(side.entries[i], l[i])
             /\ l[i].pending <=> side.entries[i].pending /\ i \notin rows
  <2>1. side.entries[i] \in Row
    BY <1>1
  <2>2. PICK row \in Row : row = side.entries[i]
    BY <2>1
  <2>3. PICK b \in BOOLEAN : b = (row.pending /\ i \notin rows)
    BY DEF Row
  <2>. DEFINE r == [row EXCEPT !.pending = b]
  <2>4. r \in Row /\ SameRow(row, r) /\ r.pending = b
    BY DEF Row, SameRow
  <2>5. l[i] = r
    BY <1>1, <2>2, <2>3
  <2>. HIDE DEF r, l
  <2>. QED BY <2>2, <2>3, <2>4, <2>5
<1>3. l \in Seq(Row) /\ Len(l) = m
  <2>1. l = [i \in 1..m |-> l[i]]
    BY <1>1
  <2>. HIDE DEF l
  <2>2. \A i \in 1..m : l[i] \in Row
    BY <1>2
  <2>3. [i \in 1..m |-> l[i]] \in Seq(Row) /\ Len([i \in 1..m |-> l[i]]) = m
    BY <1>1, <2>2, IsASeq
  <2>. QED BY <2>1, <2>3
<1>4. t = Resolved(side, rows)
  BY DEF Resolved
<1>. HIDE DEF l
<1>5. t \in Sides /\ t.entries = l /\ t.stations = side.stations /\ t.working = side.working
      /\ t.thanked = side.thanked
  BY <1>1, <1>3 DEF Sides
<1>. HIDE DEF t
<1>6. GoesOn(side.entries, l)
  BY <1>1, <1>2, <1>3 DEF GoesOn
<1>7. Whole(t)
  <2>1. CopiesFit(t.stations, t.entries)
    <3>1. CopiesFit(side.stations, side.entries)
      BY DEF Whole
    <3>. QED BY <1>1, <1>3, <1>5, <1>6, <3>1, KeptAs
  <2>. QED BY <1>5, <2>1 DEF Whole
<1>. QED BY <1>2, <1>3, <1>4, <1>5, <1>6, <1>7

\* The stations of a side change, but not what the log has of them, and none
\* that came goes back.
Calmly(st, st2) ==
  /\ st2 \in [Callers -> Station]
  /\ \A c \in Callers : st2[c].recorded <=> st[c].recorded
  /\ \A c \in Callers : ~Came(st2, c) =>
       ~Came(st, c) /\ (st2[c].engaged <=> st[c].engaged)

LEMMA StationsWhole ==
  ASSUME NEW side, Whole(side), NEW st2, Calmly(side.stations, st2)
  PROVE  LET t == [side EXCEPT !.stations = st2]
         IN  /\ Whole(t) /\ t.stations = st2 /\ t.entries = side.entries
             /\ t.working = side.working /\ t.thanked = side.thanked
<1>. DEFINE t == [side EXCEPT !.stations = st2]
<1>1. side \in Sides /\ side.entries \in Seq(Row) /\ side.working \in Some /\ side.thanked \in Some
  BY SideTypes DEF Whole
<1>2. t \in Sides /\ t.stations = st2 /\ t.entries = side.entries
      /\ t.working = side.working /\ t.thanked = side.thanked
  BY <1>1 DEF Sides, Calmly
<1>. HIDE DEF t
<1>3. GoesOn(side.entries, t.entries)
  BY <1>1, <1>2, GoesOnSelf
<1>4. \A c \in Some : c # NoOne /\ Came(side.stations, c) => Came(st2, c)
  BY DEF Some, Calmly
<1>5. /\ t.working # NoOne => Came(t.stations, t.working)
      /\ t.thanked # NoOne => Came(t.stations, t.thanked)
  BY <1>1, <1>2, <1>4 DEF Whole
<1>6. Whole(t)
  BY <1>2, <1>3, <1>5, WholeAs DEF Calmly
<1>. QED BY <1>2, <1>6 DEF t

\* The changes of one station that are calm.
Calm(a, b) == /\ b \in Station /\ b.state = a.state
              /\ b.engaged = a.engaged /\ b.recorded = a.recorded

Calmed(st, st2) == st2 = [c \in Callers |-> st2[c]] /\ \A c \in Callers : Calm(st[c], st2[c])

LEMMA CalmIsCalmly ==
  ASSUME NEW st \in [Callers -> Station], NEW st2, Calmed(st, st2)
  PROVE  /\ Calmly(st, st2)
         /\ \A c \in Callers : Active(st2[c]) <=> Active(st[c])
         /\ \A c \in Callers : Came(st2, c) <=> Came(st, c)
BY DEF Calmed, Calm, Calmly, Came, Active, Worked

LEMMA CalmedAgain ==
  ASSUME NEW a, NEW b, NEW d, Calmed(a, b), Calmed(b, d)
  PROVE  Calmed(a, d)
BY DEF Calmed, Calm

LEMMA SilentCalm ==
  ASSUME NEW s \in Station, NEW b \in BOOLEAN
  PROVE  Calm(s, [s EXCEPT !.silent = b])
BY DEF Calm, Station

LEMMA WaitingCalm ==
  ASSUME NEW s \in Station, NEW b \in BOOLEAN
  PROVE  Calm(s, [s EXCEPT !.waiting = b])
BY DEF Calm, Station

LEMMA OtherCalm ==
  ASSUME NEW s \in Station, NEW b \in BOOLEAN
  PROVE  Calm(s, [s EXCEPT !.other = b])
BY DEF Calm, Station

LEMMA RouseCalm ==
  ASSUME NEW st \in [Callers -> Station], NEW garbled
  PROVE  Calmed(st, Rouse(st, garbled))
<1>. DEFINE st2 == Rouse(st, garbled)
<1>1. st2 = [c \in Callers |-> st2[c]]
  BY DEF Rouse
<1>2. ASSUME NEW c \in Callers PROVE Calm(st[c], st2[c])
  <2>1. st[c] \in Station
    OBVIOUS
  <2>2. PICK b \in BOOLEAN : b = (st[c].silent /\ ~Worked(st[c]))
    BY <2>1 DEF Station, Worked
  <2>3. Calm(st[c], st[c])
    BY <2>1 DEF Calm
  <2>4. st2[c] = IF c \in garbled THEN [st[c] EXCEPT !.silent = b] ELSE st[c]
    BY <2>2 DEF Rouse
  <2>. HIDE DEF st2
  <2>. QED BY <2>1, <2>3, <2>4, SilentCalm
<1>. HIDE DEF st2
<1>3. Calmed(st, st2)
  BY <1>1, <1>2 DEF Calmed
<1>. QED BY <1>3 DEF st2

LEMMA TimesOutStays ==
  ASSUME NEW s \in Station, NEW b
  PROVE  TimesOut([s EXCEPT !.waiting = b]) <=> TimesOut(s)
BY DEF TimesOut, Active, Worked, Waits, StaysSilent, Station

LEMMA StartWaitsCalm ==
  ASSUME NEW st \in [Callers -> Station]
  PROVE  /\ Calmed(st, StartWaits(st))
         /\ \A c \in Callers : TimesOut(StartWaits(st)[c]) => StartWaits(st)[c].waiting
<1>. DEFINE st2 == StartWaits(st)
<1>1. st2 = [c \in Callers |-> st2[c]]
  BY DEF StartWaits
<1>2. ASSUME NEW c \in Callers
      PROVE  Calm(st[c], st2[c]) /\ (TimesOut(st2[c]) => st2[c].waiting)
  <2>1. st[c] \in Station
    OBVIOUS
  <2>2. PICK b \in BOOLEAN : b = TimesOut(st[c])
    BY <2>1 DEF TimesOut, Active, Worked, Waits, StaysSilent, Station
  <2>3. st2[c] = [st[c] EXCEPT !.waiting = b]
    BY <2>2 DEF StartWaits
  <2>4. st2[c].waiting = b
    BY <2>1, <2>3 DEF Station
  <2>. HIDE DEF st2
  <2>. QED BY <2>1, <2>2, <2>3, <2>4, WaitingCalm, TimesOutStays
<1>. HIDE DEF st2
<1>3. Calmed(st, st2)
  BY <1>1, <1>2 DEF Calmed
<1>. QED BY <1>2, <1>3 DEF st2

\* Those who join come, and none that was in the log is new to it: one that
\* calls again has its QSO there.
LEMMA ComesIs ==
  ASSUME NEW s \in Station
  PROVE  /\ Comes(s) \in Station /\ Comes(s).state = "NeedQso"
         /\ s.state = "NotCome" => ~Comes(s).recorded /\ ~Comes(s).engaged
         /\ s.state # "NotCome" => Comes(s).recorded
<1>1. PICK yes \in BOOLEAN : yes = TRUE
  OBVIOUS
<1>2. PICK no \in BOOLEAN : no = FALSE
  OBVIOUS
<1>. DEFINE new == [state |-> "NeedQso", other |-> no, partial |-> no, silent |-> no,
                    waiting |-> no, engaged |-> no, recorded |-> no]
            again == [new EXCEPT !.engaged = yes, !.recorded = yes]
<1>3. new \in Station /\ new.state = "NeedQso" /\ new.recorded = no /\ new.engaged = no
  BY DEF Station, Names
<1>4. again \in Station /\ again.state = "NeedQso" /\ again.recorded = yes
  <2>. HIDE DEF new
  <2>. QED BY <1>3 DEF Station
<1>. DEFINE none == [state |-> "NotCome", other |-> no, partial |-> no, silent |-> no,
                     waiting |-> no, engaged |-> no, recorded |-> no]
<1>5. NotCome = none
  BY <1>2 DEF NotCome
<1>6. [none EXCEPT !.state = "NeedQso"] = new
  OBVIOUS
<1>7. Arrived = new
  <2>. HIDE DEF none, new
  <2>. QED BY <1>5, <1>6 DEF Arrived
<1>8. [Arrived EXCEPT !.engaged = TRUE, !.recorded = TRUE] = again
  <2>. HIDE DEF new
  <2>. QED BY <1>1, <1>7
<1>. HIDE DEF new, again
<1>. QED BY <1>1, <1>2, <1>3, <1>4, <1>7, <1>8 DEF Comes

LEMMA JoinIs ==
  ASSUME NEW side, Whole(side), NEW kept, NEW joined \in Arrivals(side, kept)
  PROVE  LET t == Join(side, joined)
         IN  /\ Whole(t) /\ t.entries = side.entries
             /\ t.working = side.working /\ t.thanked = side.thanked
             /\ Calmly(side.stations, t.stations)
             /\ \A c \in Callers \ joined : t.stations[c] = side.stations[c]
             /\ \A c \in Callers \cap joined : Active(t.stations[c])
                  /\ (t.stations[c].engaged => t.stations[c].recorded)
             /\ \A c \in joined : ~Came(side.stations, c) \/ side.stations[c].recorded
<1>. DEFINE st == side.stations
            st2 == [c \in Callers |-> IF c \in joined THEN Comes(st[c]) ELSE st[c]]
<1>1. side \in Sides /\ st \in [Callers -> Station] /\ DOMAIN side.entries = 1..Len(side.entries)
  BY SideTypes DEF Whole
<1>2. ASSUME NEW c \in joined
      PROVE  c \in Callers /\ (~Came(st, c) \/ st[c].recorded)
  <2>1. c \in Dupes(side, kept) \cup {d \in Callers : st[d].state = "NotCome"}
    BY DEF Arrivals
  <2>2. c \in Dupes(side, kept) => c \in Callers /\ \E i \in DOMAIN side.entries : side.entries[i].station = c
    BY DEF Dupes
  <2>. QED BY <2>1, <2>2 DEF Came, Whole, CopiesFit
<1>3. ASSUME NEW c \in Callers
      PROVE  /\ st2[c] \in Station /\ (st2[c].recorded <=> st[c].recorded)
             /\ ~Came(st2, c) => ~Came(st, c) /\ st2[c] = st[c]
             /\ c \notin joined => st2[c] = st[c]
             /\ c \in joined => Active(st2[c]) /\ (st2[c].engaged => st2[c].recorded)
  <2>1. st[c] \in Station
    BY <1>1
  <2>2. CASE c \in joined
    <3>1. st2[c] = Comes(st[c])
      BY <2>2
    <3>2. ~Came(st, c) => ~st[c].recorded
      BY DEF Whole
    <3>. HIDE DEF st2
    <3>. QED BY <1>2, <2>1, <2>2, <3>1, <3>2, ComesIs DEF Came, Active
  <2>3. CASE c \notin joined
    <3>1. st2[c] = st[c]
      BY <2>3
    <3>. HIDE DEF st2
    <3>. QED BY <2>1, <2>3, <3>1 DEF Came
  <2>. QED BY <2>2, <2>3
<1>4. Calmly(st, st2)
  <2>1. st2 = [c \in Callers |-> st2[c]]
    OBVIOUS
  <2>. HIDE DEF st2
  <2>. QED BY <1>3, <2>1 DEF Calmly
<1>. DEFINE t == [side EXCEPT !.stations = st2]
<1>5. /\ Whole(t) /\ t.stations = st2 /\ t.entries = side.entries
      /\ t.working = side.working /\ t.thanked = side.thanked
  <2>. HIDE DEF st2
  <2>. QED BY <1>4, StationsWhole
<1>6. t = Join(side, joined)
  BY DEF Join
<1>. HIDE DEF t, st2
<1>. QED BY <1>2, <1>3, <1>4, <1>5, <1>6

LEMMA ThankIs ==
  ASSUME NEW side, Whole(side), NEW worked \in Some, NEW message
  PROVE  LET t == Thank(side, worked, message)
         IN  /\ Whole(t) /\ t.stations = side.stations /\ t.entries = side.entries
             /\ t.working = side.working
<1>1. side \in Sides /\ side.working \in Some
  BY SideTypes DEF Whole
<1>2. [side EXCEPT !.thanked = worked] = With(side, side.working, worked)
  BY <1>1, WorkingAlone
<1>3. side.working # NoOne => Came(side.stations, side.working)
  BY DEF Whole
<1>4. Came(side.stations, worked) =>
        /\ Whole(With(side, side.working, worked))
        /\ With(side, side.working, worked).stations = side.stations
        /\ With(side, side.working, worked).entries = side.entries
        /\ With(side, side.working, worked).working = side.working
  BY <1>1, <1>3, WithWhole
<1>5. side.stations[worked].state = "Done" => Came(side.stations, worked)
  BY DEF Came
<1>. QED BY <1>2, <1>4, <1>5 DEF Thank

\* What is left of a side when a QSO is logged.
LoggedTo(side, s) ==
  /\ s.working = NoOne /\ s.thanked = NoOne
  /\ \A c \in Callers : SameSelf(s.stations[c], side.stations[c])
  /\ \A c \in Callers : side.stations[c].recorded => s.stations[c].recorded
  /\ \A c \in Callers : c = side.thanked => s.stations[c].recorded
  /\ Len(side.entries) < Len(s.entries)
  /\ \A i \in 1..Len(side.entries) : s.entries[i] = side.entries[i]
  /\ \A i \in 1..Len(s.entries) :
       i > Len(side.entries) /\ s.entries[i].pending => i = Len(s.entries)

LEMMA LogIs ==
  ASSUME NEW side, Whole(side), NEW call, NEW s \in Log(side, call)
  PROVE  Whole(s) /\ LoggedTo(side, s)
<1>. DEFINE worked == WorkedBy(side, call)
            kept == [side EXCEPT !.thanked = NoOne]
            lose == side.thanked \notin {NoOne, worked} /\ ~side.stations[side.thanked].recorded
            lost == DropThanked(side, worked)
            m == Len(side.entries)
<1>1. side \in Sides /\ side.working \in Some /\ side.thanked \in Some /\ m \in Nat /\ NoOne \in Some
  BY SideTypes DEF Whole, Some
<1>2. /\ Whole(kept) /\ kept.stations = side.stations /\ kept.entries = side.entries
      /\ kept.working = side.working /\ kept.thanked = NoOne
  <2>1. side.working # NoOne => Came(side.stations, side.working)
    BY DEF Whole
  <2>2. kept = With(side, side.working, NoOne)
    BY <1>1, WorkingAlone
  <2>. HIDE DEF kept
  <2>. QED BY <1>1, <2>1, <2>2, WithWhole
<1>3. \A with : with = QsoStation(side.stations, side.working) => with \in {side.working, NoOne}
  BY DEF QsoStation
<1>4. worked \in Some /\ (worked # NoOne => Came(side.stations, worked))
  BY <1>1, <1>3 DEF Whole, Theirs, WorkedBy
<1>. HIDE DEF worked
<1>. HIDE DEF kept
<1>5. /\ Whole(lost) /\ lost.thanked = NoOne
      /\ \A c \in Callers : SameSelf(lost.stations[c], side.stations[c])
      /\ \A c \in Callers : side.stations[c].recorded => lost.stations[c].recorded
      /\ \A c \in Callers : c = side.thanked => lost.stations[c].recorded \/ c = worked
      /\ Len(lost.entries) \in Nat /\ m <= Len(lost.entries)
      /\ \A i \in 1..m : lost.entries[i] = side.entries[i]
      /\ \A i \in 1..Len(lost.entries) : i > m => ~lost.entries[i].pending
  <2>1. CASE lose
    <3>1. side.thanked # NoOne => Came(kept.stations, side.thanked)
      BY <1>2 DEF Whole
    <3>2. PICK r : r = Record(kept, "lost", side.thanked)
      OBVIOUS
    <3>3. Whole(r) /\ Recorded(kept, r, "lost", side.thanked)
      BY <1>1, <1>2, <3>1, <3>2, RecordIs
    <3>4. r = lost
      BY <2>1, <3>2 DEF DropThanked, Lose, kept
    <3>. HIDE DEF lost
    <3>5. Len(r.entries) = m + 1 /\ ~r.entries[m + 1].pending
      BY <1>2, <3>3 DEF Recorded
    <3>6. \A i \in 1..(m + 1) : i > m => i = m + 1
      BY <1>1
    <3>7. m <= m + 1 /\ m + 1 \in Nat
      BY <1>1
    <3>. QED BY <1>2, <3>3, <3>4, <3>5, <3>6, <3>7 DEF Recorded
  <2>2. CASE ~lose
    <3>1. lost = kept
      BY <2>2 DEF DropThanked, kept
    <3>2. \A c \in Callers : c = side.thanked => side.stations[c].recorded \/ c = worked
      BY <2>2, NoOneAssumption
    <3>3. \A i \in 1..m : ~(i > m)
      BY <1>1
    <3>4. \A c \in Callers : SameSelf(side.stations[c], side.stations[c])
      BY DEF SameSelf
    <3>5. m <= m
      BY <1>1
    <3>. HIDE DEF lost, lose
    <3>. QED BY <1>1, <1>2, <3>1, <3>2, <3>3, <3>4, <3>5
  <2>. QED BY <2>1, <2>2
<1>. HIDE DEF lose
<1>6. PICK e : /\ s = [e EXCEPT !.working = NoOne]
               /\ \/ worked # NoOne /\ e = Record(lost, "qso", worked)
                  \/ worked = NoOne /\ \E c \in NilTargets(lost, call) : e = Record(lost, "nil", c)
  <2>. DEFINE entered == IF worked # NoOne THEN {Record(lost, "qso", worked)}
                         ELSE {Record(lost, "nil", c) : c \in NilTargets(lost, call)}
  <2>1. PICK e \in entered : s = [e EXCEPT !.working = NoOne]
    BY DEF Log, worked, lost
  <2>2. \/ worked # NoOne /\ e = Record(lost, "qso", worked)
        \/ worked = NoOne /\ \E c \in NilTargets(lost, call) : e = Record(lost, "nil", c)
    <3>. HIDE DEF lost
    <3>. QED OBVIOUS
  <2>. QED BY <2>1, <2>2
<1>. HIDE DEF lost
<1>7. PICK kind \in {"qso", "nil", "lost"}, c \in Some :
        /\ e = Record(lost, kind, c)
        /\ c # NoOne => Came(lost.stations, c)
        /\ worked # NoOne => c = worked
  <2>1. CASE worked # NoOne
    <3>1. worked \in Callers
      BY <1>4, <2>1 DEF Some
    <3>2. Came(lost.stations, worked)
      BY <1>4, <1>5, <2>1, <3>1 DEF Came, SameSelf
    <3>. QED BY <1>4, <1>6, <2>1, <3>2
  <2>2. CASE worked = NoOne
    <3>1. PICK c \in NilTargets(lost, call) : e = Record(lost, "nil", c)
      BY <1>6, <2>2
    <3>2. c \in Some /\ (c # NoOne => Came(lost.stations, c))
      BY <3>1 DEF Some, Came, NilTargets
    <3>. QED BY <2>2, <3>1, <3>2
  <2>. QED BY <2>1, <2>2
<1>8. Whole(e) /\ Recorded(lost, e, kind, c)
  BY <1>5, <1>7, RecordIs
<1>9. e \in Sides /\ e.thanked \in Some /\ e.working \in Some
  BY <1>8, SideTypes DEF Whole
<1>10. s = With(e, NoOne, e.thanked)
  BY <1>6, <1>9, WorkingAlone
<1>11. e.thanked = NoOne
  BY <1>5, <1>8 DEF Recorded
<1>12. /\ Whole(s) /\ s.stations = e.stations /\ s.entries = e.entries
       /\ s.working = NoOne /\ s.thanked = NoOne
  BY <1>1, <1>8, <1>9, <1>10, <1>11, WithWhole
<1>13. \A d \in Callers : SameSelf(s.stations[d], side.stations[d])
  BY <1>5, <1>8, <1>12 DEF Recorded, SameSelf
<1>14. /\ \A d \in Callers : side.stations[d].recorded => s.stations[d].recorded
       /\ \A d \in Callers : d = side.thanked => s.stations[d].recorded
  BY <1>5, <1>7, <1>8, <1>12, NoOneAssumption DEF Recorded
<1>15. PICK n \in Nat : n = Len(lost.entries)
  BY <1>5
<1>16. Len(s.entries) = n + 1 /\ \A i \in 1..n : s.entries[i] = lost.entries[i]
  BY <1>8, <1>12, <1>15 DEF Recorded
<1>17. m < n + 1 /\ 1..m \subseteq 1..n /\ \A i \in 1..(n + 1) : i = n + 1 \/ i \in 1..n
  BY <1>1, <1>5, <1>15
<1>18. \A i \in 1..m : s.entries[i] = side.entries[i]
  BY <1>5, <1>16, <1>17
<1>19. \A i \in 1..(n + 1) : i > m /\ s.entries[i].pending => i = n + 1
  BY <1>5, <1>15, <1>16, <1>17
<1>. QED BY <1>12, <1>13, <1>14, <1>16, <1>17, <1>18, <1>19 DEF LoggedTo

\* What is left of a side when the callers hear a message.
HeardBy(side, t) ==
  /\ t.entries = side.entries /\ t.thanked = side.thanked
  /\ \A c \in Callers : t.stations[c].recorded <=> side.stations[c].recorded
  /\ \A c \in Callers : Came(side.stations, c) => Came(t.stations, c)
  /\ \A c \in Callers : ~Active(side.stations[c]) =>
       /\ t.stations[c].state = side.stations[c].state
       /\ t.stations[c].engaged <=> side.stations[c].engaged

LEMMA AllHearIs ==
  ASSUME NEW side, Whole(side), NEW message, Len(message) \in Nat, NEW deaf,
         NEW heard \in AllHear(side, message, deaf)
  PROVE  Whole(heard.side) /\ HeardBy(side, heard.side)
<1>. DEFINE st == side.stations
<1>1. PICK h \in Ways(side, message, deaf) :
        \E with \in WorksNext(side.working, message, h) : heard = Outcome(side, h, with)
  BY Zenon DEF AllHear
<1>2. PICK with \in WorksNext(side.working, message, h) : heard = Outcome(side, h, with)
  BY <1>1
<1>3. side \in Sides /\ st \in [Callers -> Station] /\ side.working \in Some /\ side.thanked \in Some
  BY SideTypes DEF Whole
<1>4. ASSUME NEW c \in DOMAIN h
      PROVE  c \in Callers /\ Came(st, c) /\ Stems(st[c], h[c])
  <2>1. c \in Callers /\ Came(st, c) /\ h[c] \in Hears(st, c, message)
    BY <1>1 DEF Ways, Came
  <2>2. st[c] \in Station
    BY <1>3, <2>1
  <2>. QED BY <2>1, <2>2, HearsStems
<1>. DEFINE st2 == Moved(st, h)
            t == [side EXCEPT !.stations = st2, !.working = with]
<1>5. ASSUME NEW c \in Callers
      PROVE  /\ st2[c] \in Station
             /\ st2[c].recorded <=> st[c].recorded
             /\ Came(st, c) => Came(st2, c)
             /\ ~Came(st, c) => st2[c] = st[c]
             /\ ~Active(st[c]) => st2[c].state = st[c].state /\ (st2[c].engaged <=> st[c].engaged)
  <2>1. CASE c \in DOMAIN h
    <3>1. Stems(st[c], h[c]) /\ h[c] \in Hearing /\ h[c].s \in Station /\ Came(st, c)
      BY <1>4, <2>1, StateIs
    <3>2. (h[c].s.engaged \/ Engages(h[c])) \in BOOLEAN
      OBVIOUS
    <3>3. PICK b \in BOOLEAN : b = (h[c].s.engaged \/ Engages(h[c]))
      BY <3>2
    <3>4. st2[c] = [h[c].s EXCEPT !.engaged = b]
      BY <2>1, <3>3 DEF Moved
    <3>5. PICK r \in Station : r = h[c].s
      BY <3>1
    <3>. DEFINE q == [r EXCEPT !.engaged = b]
    <3>6. q \in Station /\ q.state = r.state /\ q.recorded = r.recorded /\ q.engaged = b
      BY DEF Station
    <3>7. st2[c] = q
      BY <3>4, <3>5
    <3>. HIDE DEF q, st2
    <3>8. q.recorded = st[c].recorded /\ (Came(st, c) => q.state # "NotCome")
      BY <3>1, <3>5, <3>6 DEF Stems, Came
    <3>9. ~Active(st[c]) => q.state = st[c].state /\ (b <=> st[c].engaged)
      BY <3>1, <3>3, <3>5, <3>6 DEF Stems, Engages
    <3>. QED BY <3>1, <3>6, <3>7, <3>8, <3>9 DEF Came
  <2>2. CASE c \notin DOMAIN h
    <3>1. st2[c] = st[c]
      BY <2>2 DEF Moved
    <3>2. st[c] \in Station
      BY <1>3
    <3>. HIDE DEF st2
    <3>. QED BY <3>1, <3>2 DEF Came
  <2>. QED BY <2>1, <2>2
<1>6. with \in Some /\ (with # NoOne => Came(st2, with))
  <2>1. CASE with \in DOMAIN h
    <3>1. with \in Callers /\ Came(st, with)
      BY <1>4, <2>1
    <3>2. Came(st2, with)
      BY <1>5, <3>1
    <3>. QED BY <3>1, <3>2 DEF Some
  <2>2. CASE with \notin DOMAIN h
    <3>1. with \in {NoOne, side.working}
      BY <1>2, <2>2 DEF WorksNext
    <3>2. with # NoOne => with \in Callers /\ Came(st, with)
      BY <1>3, <3>1 DEF Some, Whole
    <3>. QED BY <1>3, <1>5, <3>1, <3>2 DEF Some
  <2>. QED BY <2>1, <2>2
<1>7. st2 \in [Callers -> Station]
  <2>1. st2 = [c \in Callers |-> st2[c]]
    BY DEF Moved
  <2>. HIDE DEF st2
  <2>. QED BY <1>5, <2>1
<1>. HIDE DEF st2
<1>8. t \in Sides /\ t.stations = st2 /\ t.working = with /\ t.thanked = side.thanked
      /\ t.entries = side.entries
  BY <1>3, <1>6, <1>7 DEF Sides
<1>9. t = heard.side
  BY <1>2 DEF st2, Outcome
<1>. HIDE DEF t
<1>10. HeardBy(side, t)
  BY <1>5, <1>8 DEF HeardBy
<1>11. Whole(t)
  <2>1. GoesOn(side.entries, t.entries)
    BY <1>3, <1>8, GoesOnSelf, SideTypes
  <2>2. \A c \in Callers : ~Came(t.stations, c) =>
          ~Came(st, c) /\ (t.stations[c].engaged <=> st[c].engaged)
    BY <1>5, <1>8
  <2>3. t.thanked # NoOne => Came(t.stations, t.thanked)
    BY <1>3, <1>5, <1>8 DEF Whole, Some
  <2>4. t.working # NoOne => Came(t.stations, t.working)
    BY <1>6, <1>8
  <2>5. \A c \in Callers : t.stations[c].recorded <=> st[c].recorded
    BY <1>5, <1>8
  <2>. QED BY <1>8, <2>1, <2>2, <2>3, <2>4, <2>5, WholeAs
<1>. QED BY <1>9, <1>10, <1>11

-----------------------------------------------------------------------------
(***************************************************************************)
(* The invariant.                                                          *)
(***************************************************************************)
Parts == [part : PartNames] \cup [part : PartNames, call : Calls]

Runs == [phase : {"Countdown", "Running", "Paused", "Finished", "Aborted"}, left : Nat,
         begun : BOOLEAN]

\* The callers as they were before a message.
Keyed == [was : {"keyed"}, stations : [Callers -> Station], kept : SUBSET Callers,
          working : Some, thanked : Some, from : Nat, deaf : SUBSET Callers,
          lostFrom : Nat, entries : Nat]

Airs == [on : BOOLEAN, parts : Seq(Parts), out : Nat, yet : SUBSET Callers,
         sounding : SUBSET Callers, said : SUBSET Callers, pending : SUBSET Nat,
         unheard : {NoUnheard} \cup Keyed]

Typed ==
  /\ run \in Runs
  /\ timers \in SUBSET {"countdown", "run_end", "patience", "resume"}
  /\ taught \in Nat /\ keys \in Nat /\ breaks \in Nat
  /\ air \in Airs
  /\ air.out <= Len(air.parts)
  /\ cutShort \in SUBSET Callers

\* Taken back, the message keyed last leaves a whole side: what was lost over
\* it alone comes after what the log had then.
Backing(logged) ==
  /\ taught <= air.unheard.lostFrom
  /\ \A i \in DOMAIN logged : i > air.unheard.lostFrom => logged[i].kind = "lost"
  /\ air.out < Len(air.parts) => Whole(Undone)

Backed ==
  air.unheard # NoUnheard =>
    /\ air.unheard.lostFrom <= air.unheard.entries
    /\ air.unheard.entries <= Len(entries)
    /\ air.out < Len(air.parts) => \A c \in air.sounding : Came(air.unheard.stations, c)
    /\ air.unheard.entries = Len(entries) => Backing(entries)

\* Those cut short send again in a run that began, at the timer Resume sets.
Again ==
  /\ air.on => cutShort = {}
  /\ run.phase = "Running" /\ cutShort # {} => "resume" \in timers
  /\ "resume" \in timers => ~air.on /\ "patience" \notin timers
  /\ run.phase = "Countdown" => ~run.begun
  /\ cutShort # {} => run.begun
  /\ run.phase = "Running" => run.begun

\* As the run is finished every QSO begun is in the log.
AllKept ==
  run.phase = "Finished" => \A c \in Callers : stations[c].engaged => stations[c].recorded

IInv == /\ Typed /\ Whole(Now) /\ NoneLeft(Now) /\ Backed /\ Again
        /\ TypeOK /\ AllKept /\ ChecksComeOut /\ NobodyStands

-----------------------------------------------------------------------------
(***************************************************************************)
(* What the steps are made of.                                             *)
(***************************************************************************)
LEMMA SideIs ==
  ASSUME NEW st, NEW with, NEW closed, NEW logged
  PROVE  LET t == Side(st, with, closed, logged)
         IN  t.stations = st /\ t.working = with /\ t.thanked = closed /\ t.entries = logged
BY DEF Side

LEMMA NowIs ==
  /\ Now.stations = stations /\ Now.working = working
  /\ Now.thanked = thanked /\ Now.entries = entries
BY DEF Now, Side

LEMMA SideEta ==
  ASSUME NEW t \in Sides
  PROVE  t = Side(t.stations, t.working, t.thanked, t.entries)
BY DEF Sides, Side

LEMMA BecomesIs ==
  ASSUME NEW t, Whole(t), Becomes(t)
  PROVE  /\ Whole(Now)' /\ (NoneLeft(t) => NoneLeft(Now)')
         /\ stations' = t.stations /\ working' = t.working
         /\ thanked' = t.thanked /\ entries' = t.entries
<1>1. Now' = Side(t.stations, t.working, t.thanked, t.entries)
  BY DEF Now, Becomes, Side
<1>2. t = Side(t.stations, t.working, t.thanked, t.entries)
  BY SideEta DEF Whole
<1>3. Now' = t
  BY <1>1, <1>2
<1>. QED BY <1>3 DEF Becomes

LEMMA NowTypes ==
  ASSUME Whole(Now)
  PROVE  /\ stations \in [Callers -> Station] /\ working \in Some /\ thanked \in Some
         /\ entries \in Seq(Row) /\ Len(entries) \in Nat /\ DOMAIN entries = 1..Len(entries)
BY SideTypes, NowIs DEF Whole

LEMMA NowTypesNext ==
  ASSUME Whole(Now)'
  PROVE  /\ stations' \in [Callers -> Station] /\ working' \in Some /\ thanked' \in Some
         /\ entries' \in Seq(Row) /\ Len(entries') \in Nat /\ DOMAIN entries' = 1..Len(entries')
<1>1. Side(stations', working', thanked', entries') \in Sides
  BY DEF Whole, Now
<1>2. PICK t \in Sides : t = Side(stations', working', thanked', entries')
  BY <1>1
<1>3. t.stations = stations' /\ t.working = working' /\ t.thanked = thanked' /\ t.entries = entries'
  BY <1>2 DEF Side
<1>. QED BY <1>3, SideTypes

LEMMA SameNow ==
  ASSUME UNCHANGED qsos, entries' = entries
  PROVE  /\ Whole(Now) => Whole(Now)'
         /\ NoneLeft(Now) => NoneLeft(Now)'
<1>1. Now' = Now
  BY DEF Now, Side, qsos
<1>. QED BY <1>1

LEMMA MaxOfTwo ==
  ASSUME NEW m \in Int, NEW n \in Int
  PROVE  Max({m, n}) \in {m, n} /\ Max({m, n}) >= m /\ Max({m, n}) >= n
<1>1. \E x \in {m, n} : \A y \in {m, n} : x >= y
  <2>1. CASE m >= n
    BY <2>1
  <2>2. CASE ~(m >= n)
    BY <2>2
  <2>. QED BY <2>1, <2>2
<1>. QED BY <1>1 DEF Max

LEMMA TeachIs ==
  ASSUME Teach, taught \in Nat, Len(entries') \in Nat,
         air'.unheard # NoUnheard /\ air'.unheard.entries = Len(entries') =>
           air'.unheard.lostFrom \in Nat /\ air'.unheard.lostFrom <= Len(entries')
  PROVE  /\ taught' \in Nat /\ taught' <= Len(entries')
         /\ taught <= Len(entries') => taught' >= taught
         /\ (air'.unheard # NoUnheard /\ air'.unheard.entries = Len(entries')
             /\ taught <= air'.unheard.lostFrom) => taught' = air'.unheard.lostFrom
<1>. DEFINE l == Len(entries')
            f == Final(air', entries')
            m == Least(taught, l)
<1>1. f \in Nat /\ f <= l
      /\ (air'.unheard # NoUnheard /\ air'.unheard.entries = l => f = air'.unheard.lostFrom)
  BY DEF Final
<1>2. m \in Nat /\ m <= l /\ m <= taught /\ (taught <= l => m = taught)
  BY DEF Least
<1>3. taught' = Max({m, f})
  BY DEF Teach
<1>. HIDE DEF l, f, m
<1>4. PICK a \in Int, b \in Int : a = m /\ b = f
  BY <1>1, <1>2
<1>5. taught' \in {a, b} /\ taught' >= a /\ taught' >= b
  <2>1. Max({a, b}) \in {a, b} /\ Max({a, b}) >= a /\ Max({a, b}) >= b
    BY MaxOfTwo
  <2>. QED BY <1>3, <1>4, <2>1
<1>6. l \in Nat
  BY DEF l
<1>7. taught' \in Nat /\ taught' <= l /\ (taught <= l => taught' >= taught)
  BY <1>1, <1>2, <1>4, <1>5, <1>6
<1>8. f >= taught => taught' = f
  BY <1>1, <1>2, <1>4, <1>5
<1>. QED BY <1>1, <1>6, <1>7, <1>8 DEF l

LEMMA AirIs ==
  ASSUME NEW a \in Airs
  PROVE  /\ a.on \in BOOLEAN /\ a.parts \in Seq(Parts) /\ a.out \in Nat
         /\ a.yet \in SUBSET Callers /\ a.sounding \in SUBSET Callers
         /\ a.said \in SUBSET Callers /\ a.pending \in SUBSET Nat
         /\ a.unheard \in {NoUnheard} \cup Keyed /\ Len(a.parts) \in Nat
BY DEF Airs

LEMMA QuietIs ==
  /\ Quiet \in Airs /\ ~Quiet.on /\ Quiet.parts = <<>> /\ Quiet.out = 0 /\ Quiet.yet = {}
  /\ Quiet.sounding = {} /\ Quiet.said = {} /\ Quiet.pending = {} /\ Quiet.unheard = NoUnheard
  /\ Len(Quiet.parts) = 0
<1>1. PICK no \in BOOLEAN : no = FALSE
  OBVIOUS
<1>2. PICK none \in Seq(Parts) : none = <<>> /\ Len(none) = 0
  BY EmptySeq
<1>3. PICK zero \in Nat : zero = 0
  OBVIOUS
<1>4. PICK nobody \in SUBSET Callers : nobody = {}
  OBVIOUS
<1>5. PICK rows \in SUBSET Nat : rows = {}
  OBVIOUS
<1>6. Quiet = [on |-> no, parts |-> none, out |-> zero, yet |-> nobody, sounding |-> nobody,
               said |-> nobody, pending |-> rows, unheard |-> NoUnheard]
  BY <1>1, <1>2, <1>3, <1>4, <1>5 DEF Quiet
<1>7. /\ Quiet \in Airs /\ Quiet.on = no /\ Quiet.parts = none /\ Quiet.out = zero
      /\ Quiet.yet = nobody /\ Quiet.sounding = nobody /\ Quiet.said = nobody
      /\ Quiet.pending = rows /\ Quiet.unheard = NoUnheard
  BY <1>6 DEF Airs
<1>. QED BY <1>1, <1>2, <1>3, <1>4, <1>5, <1>7

LEMMA PlayIs ==
  ASSUME NEW parts \in Seq(Parts), NEW pending \in SUBSET Nat, NEW yet \in SUBSET Callers,
         NEW sounding \in SUBSET Callers, NEW unheard \in {NoUnheard} \cup Keyed,
         Play(parts, pending, yet, sounding, unheard)
  PROVE  /\ air' \in Airs /\ air'.on /\ air'.parts = parts /\ air'.out = 0 /\ air'.yet = yet
         /\ air'.sounding = sounding /\ air'.said = {} /\ air'.pending = pending
         /\ air'.unheard = unheard
<1>1. PICK yes \in BOOLEAN : yes = TRUE
  OBVIOUS
<1>2. PICK zero \in Nat : zero = 0
  OBVIOUS
<1>3. PICK nobody \in SUBSET Callers : nobody = {}
  OBVIOUS
<1>. DEFINE a == [on |-> yes, parts |-> parts, out |-> zero, yet |-> yet, sounding |-> sounding,
                  said |-> nobody, pending |-> pending, unheard |-> unheard]
<1>4. air' = a
  BY <1>1, <1>2, <1>3 DEF Play, Quiet
<1>5. /\ a \in Airs /\ a.on = yes /\ a.parts = parts /\ a.out = zero /\ a.yet = yet
      /\ a.sounding = sounding /\ a.said = nobody /\ a.pending = pending /\ a.unheard = unheard
  BY DEF Airs
<1>. HIDE DEF a
<1>. QED BY <1>1, <1>2, <1>3, <1>4, <1>5

LEMMA RunIs ==
  ASSUME NEW r \in Runs
  PROVE  /\ r.phase \in {"Countdown", "Running", "Paused", "Finished", "Aborted"}
         /\ r.left \in Nat /\ r.begun \in BOOLEAN
         /\ \A p \in {"Countdown", "Running", "Paused", "Finished", "Aborted"} :
              /\ [r EXCEPT !.phase = p] \in Runs /\ [r EXCEPT !.phase = p].phase = p
              /\ [r EXCEPT !.phase = p].begun = r.begun
BY DEF Runs

\* What is still to go out of your parts.
LEMMA ToGoIs ==
  ASSUME air \in Airs, air.out <= Len(air.parts)
  PROVE  /\ ToGo \in Seq(Parts) /\ Len(ToGo) \in Nat /\ Len(ToGo) <= Len(air.parts)
         /\ ToGo = <<>> <=> air.out = Len(air.parts)
<1>1. air.parts \in Seq(Parts) /\ air.out \in Nat /\ Len(air.parts) \in Nat
  BY AirIs
<1>. DEFINE m == air.out + 1
            n == Len(air.parts)
<1>2. m \in Int /\ n \in Int /\ m \in Nat /\ m >= 1
  BY <1>1
<1>3. \A i \in m..n : air.parts[i] \in Parts
  <2>1. m..n \subseteq 1..n
    BY <1>2
  <2>. QED BY <1>1, <2>1, ElementOfSeq
<1>4. SubSeq(air.parts, m, n) \in Seq(Parts)
      /\ Len(SubSeq(air.parts, m, n)) = IF m <= n THEN n - m + 1 ELSE 0
  BY <1>2, <1>3, SubSeqProperties
<1>5. ToGo \in Seq(Parts) /\ Len(ToGo) = IF m <= n THEN n - m + 1 ELSE 0
  BY <1>4 DEF ToGo
<1>6. ToGo = <<>> <=> Len(ToGo) = 0
  BY <1>5, EmptySeq
<1>7. Len(ToGo) = n - air.out
  BY <1>1, <1>5
<1>8. n - air.out \in Nat /\ n - air.out <= n /\ (n - air.out = 0 <=> air.out = n)
  BY <1>1
<1>. QED BY <1>5, <1>6, <1>7, <1>8

LEMMA NobodyStandsThen ==
  ASSUME style' = style,
         run'.phase = "Running" /\ ~air'.on =>
           \/ "resume" \in timers'
           \/ /\ \A c \in Callers : TimesOut(stations'[c]) => stations'[c].waiting
              /\ (\E c \in Callers : Active(stations'[c]) /\ stations'[c].waiting) =>
                   "patience" \in timers'
  PROVE  NobodyStands'
BY DEF NobodyStands, TimesOut, Waits, StaysSilent, Active, Worked, ActiveIn

LEMMA NobodyStandsNow ==
  ASSUME NobodyStands, run.phase = "Running", ~air.on, "resume" \notin timers
  PROVE  /\ \A c \in Callers : TimesOut(stations[c]) => stations[c].waiting
         /\ (\E c \in Callers : Active(stations[c]) /\ stations[c].waiting) => "patience" \in timers
BY DEF NobodyStands, ActiveIn

-----------------------------------------------------------------------------
(***************************************************************************)
(* The invariant holds at first, and where nothing happens.                *)
(***************************************************************************)
LEMMA CountDownIs == CountDown \in Nat /\ CountDown > 0
BY BoundsAssumption

LEMMA NotComeIs ==
  /\ NotCome \in Station /\ NotCome.state = "NotCome" /\ ~NotCome.recorded /\ ~NotCome.engaged
  /\ ~NotCome.waiting
<1>1. PICK no \in BOOLEAN : no = FALSE
  OBVIOUS
<1>2. NotCome = [state |-> "NotCome", other |-> no, partial |-> no, silent |-> no,
                 waiting |-> no, engaged |-> no, recorded |-> no]
  BY <1>1 DEF NotCome
<1>3. NotCome \in Station /\ NotCome.state = "NotCome" /\ NotCome.recorded = no /\ NotCome.engaged = no
      /\ NotCome.waiting = no
  BY <1>2 DEF Station, Names
<1>. QED BY <1>1, <1>3

LEMMA InitIInv == Init => IInv
<1>. SUFFICES ASSUME Init PROVE IInv
  OBVIOUS
<1>1. air = Quiet /\ air \in Airs /\ ~air.on /\ air.out = 0 /\ Len(air.parts) = 0 /\ air.yet = {}
      /\ air.sounding = {} /\ air.said = {} /\ air.pending = {} /\ air.unheard = NoUnheard
  BY QuietIs DEF Init
<1>2. run \in Runs /\ run.phase = "Countdown" /\ ~run.begun
  <2>1. PICK no \in BOOLEAN : no = FALSE
    OBVIOUS
  <2>2. run = [phase |-> "Countdown", left |-> CountDown, begun |-> no]
    BY <2>1 DEF Init
  <2>. QED BY <2>1, <2>2, CountDownIs DEF Runs
<1>3. Typed
  BY <1>1, <1>2 DEF Typed, Init
<1>4. entries \in Seq(Row) /\ entries = <<>> /\ Len(entries) = 0 /\ DOMAIN entries = {}
  <2>1. entries = <<>>
    BY DEF Init
  <2>2. <<>> \in Seq(Row) /\ Len(<<>>) = 0
    BY EmptySeq
  <2>. QED BY <2>1, <2>2
<1>5. \A c \in Callers : stations[c] = NotCome
  BY DEF Init
<1>6. stations \in [Callers -> Station]
  BY NotComeIs DEF Init
<1>7. working = NoOne /\ thanked = NoOne /\ NoOne \in Some
  BY DEF Init, Some
<1>8. Now \in Sides
  BY <1>4, <1>6, <1>7 DEF Now, Side, Sides
<1>9. \A c \in Callers : ~stations[c].recorded /\ ~stations[c].engaged /\ ~Active(stations[c])
  BY <1>5, NotComeIs DEF Active, Worked
<1>10. Whole(Now)
  BY <1>4, <1>7, <1>8, <1>9, NowIs DEF Whole, CopiesFit
<1>11. NoneLeft(Now)
  BY <1>9, NowIs DEF NoneLeft
<1>12. Backed
  BY <1>1 DEF Backed
<1>13. Again
  BY <1>1, <1>2 DEF Again, Init
<1>14. TypeOK
  BY <1>1, <1>2, <1>4, <1>7 DEF TypeOK, Init
<1>15. AllKept /\ ChecksComeOut /\ NobodyStands
  BY <1>2, <1>4 DEF AllKept, ChecksComeOut, NobodyStands
<1>. QED BY <1>3, <1>10, <1>11, <1>12, <1>13, <1>14, <1>15 DEF IInv

\* Where the stations and the log stay, what backs the message on the air does.
LEMMA BackedOn ==
  ASSUME Backed, Typed, Whole(Now), UNCHANGED <<qsos, log>>, air' \in Airs,
         air'.unheard = air.unheard, Len(air'.parts) = Len(air.parts), air.out <= air'.out,
         air'.out < Len(air'.parts) => air'.sounding \subseteq air.sounding
  PROVE  Backed'
<1>1. Undone' = Undone
  BY DEF Undone, Side, qsos, log
<1>2. air.out \in Nat /\ air'.out \in Nat /\ Len(air.parts) \in Nat
  BY AirIs DEF Typed
<1>3. air'.out < Len(air'.parts) => air.out < Len(air.parts)
  BY <1>2
<1>. QED BY <1>1, <1>3 DEF Backed, Backing, log

\* The parts of the invariant about the stations and the log alone.
LEMMA SameOn ==
  ASSUME UNCHANGED <<qsos, log>>
  PROVE  /\ Whole(Now) => Whole(Now)'
         /\ NoneLeft(Now) => NoneLeft(Now)'
BY SameNow DEF log

LEMMA StutterIInv ==
  ASSUME IInv, UNCHANGED vars
  PROVE  IInv'
<1>1. UNCHANGED <<qsos, log>> /\ air' = air /\ run' = run /\ timers' = timers /\ style' = style
      /\ cutShort' = cutShort /\ keys' = keys /\ breaks' = breaks
      /\ stations' = stations /\ entries' = entries /\ working' = working /\ thanked' = thanked
      /\ taught' = taught
  BY DEF vars, qsos, log
<1>2. Typed' /\ Again' /\ AllKept' /\ ChecksComeOut'
  BY <1>1 DEF IInv, Typed, Again, AllKept, ChecksComeOut
<1>3. TypeOK'
  BY <1>1 DEF IInv, TypeOK
<1>4. Whole(Now)' /\ NoneLeft(Now)'
  BY <1>1, SameOn DEF IInv
<1>5. Backed'
  BY <1>1, BackedOn, AirIs DEF IInv, Typed
<1>6. NobodyStands'
  BY <1>1, NobodyStandsNow, NobodyStandsThen DEF IInv
<1>. QED BY <1>2, <1>3, <1>4, <1>5, <1>6 DEF IInv

-----------------------------------------------------------------------------
(***************************************************************************)
(* The turn goes on.                                                       *)
(***************************************************************************)
\* A step of the turn alone keeps the invariant where what sounds in it came.
LEMMA TurnGoesOn ==
  ASSUME IInv, UNCHANGED <<style, run, timers, qsos, log, cutShort, keys, breaks>>,
         air.on, air' \in Airs, air'.on, air'.unheard = air.unheard,
         Len(air'.parts) = Len(air.parts),
         air.out <= air'.out, air'.out <= Len(air'.parts),
         air'.out < Len(air'.parts) => air'.sounding \subseteq air.sounding,
         air'.yet \cup air'.sounding \cup air'.said \subseteq
           air.yet \cup air.sounding \cup air.said,
         air'.pending = air.pending
  PROVE  IInv'
<1>1. /\ style' = style /\ run' = run /\ timers' = timers /\ cutShort' = cutShort
      /\ keys' = keys /\ breaks' = breaks /\ taught' = taught
  BY DEF log
<1>2. Typed'
  BY <1>1 DEF IInv, Typed
<1>3. Whole(Now)' /\ NoneLeft(Now)'
  BY SameOn DEF IInv
<1>4. Backed'
  BY BackedOn DEF IInv
<1>5. Again' /\ AllKept'
  BY DEF IInv, Again, AllKept, qsos
<1>6. TypeOK'
  BY DEF IInv, TypeOK, qsos, log
<1>7. ChecksComeOut'
  BY DEF IInv, ChecksComeOut, log
<1>8. NobodyStands'
  BY NobodyStandsThen
<1>. QED BY <1>2, <1>3, <1>4, <1>5, <1>6, <1>7, <1>8 DEF IInv

LEMMA PartOutIInv ==
  ASSUME IInv, PartOut
  PROVE  IInv'
<1>1. air \in Airs /\ air.out \in Nat /\ Len(air.parts) \in Nat
  BY AirIs DEF IInv, Typed
<1>2. PICK n \in Nat : n = air.out + 1
  BY <1>1
<1>3. air' = [air EXCEPT !.out = n]
  BY <1>2 DEF PartOut
<1>4. /\ air' \in Airs /\ air'.on = air.on /\ air'.parts = air.parts /\ air'.out = n
      /\ air'.yet = air.yet /\ air'.sounding = air.sounding /\ air'.said = air.said
      /\ air'.pending = air.pending /\ air'.unheard = air.unheard
  BY <1>1, <1>3 DEF Airs
<1>5. air.out <= n /\ n <= Len(air.parts)
  BY <1>1, <1>2 DEF PartOut
<1>. QED BY <1>4, <1>5, TurnGoesOn DEF PartOut, OnAir

LEMMA SendBeginsIInv ==
  ASSUME IInv, NEW c \in Callers, SendBegins(c)
  PROVE  IInv'
<1>1. /\ air \in Airs /\ air.out \in Nat /\ Len(air.parts) \in Nat /\ air.out = Len(air.parts)
      /\ air.yet \in SUBSET Callers /\ air.sounding \in SUBSET Callers
  BY AirIs, ToGoIs DEF IInv, Typed, SendBegins
<1>2. air' = [air EXCEPT !.yet = air.yet \ {c}, !.sounding = air.sounding \cup {c}]
  BY DEF SendBegins
<1>3. /\ air' \in Airs /\ air'.on = air.on /\ air'.parts = air.parts /\ air'.out = air.out
      /\ air'.yet = air.yet \ {c} /\ air'.sounding = air.sounding \cup {c}
      /\ air'.said = air.said /\ air'.pending = air.pending /\ air'.unheard = air.unheard
  BY <1>1, <1>2 DEF Airs
<1>4. c \in air.yet
  BY DEF SendBegins
<1>. QED BY <1>1, <1>3, <1>4, TurnGoesOn DEF SendBegins, OnAir

LEMMA SendEndsIInv ==
  ASSUME IInv, NEW c \in Callers, SendEnds(c)
  PROVE  IInv'
<1>1. /\ air \in Airs /\ air.out \in Nat /\ Len(air.parts) \in Nat /\ air.out <= Len(air.parts)
      /\ air.said \in SUBSET Callers /\ air.sounding \in SUBSET Callers
  BY AirIs DEF IInv, Typed
<1>2. air' = [air EXCEPT !.sounding = air.sounding \ {c}, !.said = air.said \cup {c}]
  BY DEF SendEnds
<1>3. /\ air' \in Airs /\ air'.on = air.on /\ air'.parts = air.parts /\ air'.out = air.out
      /\ air'.yet = air.yet /\ air'.sounding = air.sounding \ {c}
      /\ air'.said = air.said \cup {c} /\ air'.pending = air.pending /\ air'.unheard = air.unheard
  BY <1>1, <1>2 DEF Airs
<1>4. c \in air.sounding
  BY DEF SendEnds
<1>. QED BY <1>1, <1>3, <1>4, TurnGoesOn DEF SendEnds, OnAir

\* One calls over the others: it came, and nothing of your message is to go
\* out that could be taken back.
LEMMA CallsOnTimeOutIInv ==
  ASSUME IInv, NEW c \in Callers, CallsOnTimeOut(c)
  PROVE  IInv'
<1>1. /\ air \in Airs /\ air.out \in Nat /\ Len(air.parts) \in Nat /\ air.out = Len(air.parts)
      /\ air.sounding \in SUBSET Callers /\ air.unheard \in {NoUnheard} \cup Keyed
  BY AirIs, ToGoIs DEF IInv, Typed, CallsOnTimeOut
<1>2. air' = [air EXCEPT !.sounding = air.sounding \cup {c}]
  BY DEF CallsOnTimeOut
<1>3. /\ air' \in Airs /\ air'.on = air.on /\ air'.parts = air.parts /\ air'.out = air.out
      /\ air'.yet = air.yet /\ air'.sounding = air.sounding \cup {c}
      /\ air'.said = air.said /\ air'.pending = air.pending /\ air'.unheard = air.unheard
  BY <1>1, <1>2 DEF Airs
<1>4. stations \in [Callers -> Station] /\ Whole(Now)
  BY SideTypes, NowIs DEF IInv, Whole
<1>5. PICK b \in BOOLEAN : b = (stations[c].other /\ stations[c].state # "NeedQso")
  BY <1>4 DEF Station
<1>. DEFINE st == [stations EXCEPT ![c] = [stations[c] EXCEPT !.other = b]]
<1>6. stations' = st
  BY <1>4, <1>5 DEF CallsOnTimeOut
<1>7. \A d \in Callers : Calm(stations[d], st[d])
  <2>. TAKE d \in Callers
  <2>1. stations[d] \in Station /\ Calm(stations[d], stations[d])
    BY <1>4 DEF Calm
  <2>2. CASE d = c
    BY <1>4, <2>1, <2>2, OtherCalm
  <2>3. CASE d # c
    BY <1>4, <2>1, <2>3
  <2>. QED BY <2>2, <2>3
<1>8. st = [d \in Callers |-> st[d]]
  BY <1>4
<1>. HIDE DEF st
<1>9. Calmly(stations, st) /\ (\A d \in Callers : Active(st[d]) <=> Active(stations[d]))
  BY <1>4, <1>7, <1>8, CalmIsCalmly DEF Calmed
<1>10. PICK t : t = [Now EXCEPT !.stations = st]
  OBVIOUS
<1>11. /\ Whole(t) /\ t.stations = st /\ t.entries = entries
       /\ t.working = working /\ t.thanked = thanked
  BY <1>4, <1>9, <1>10, NowIs, StationsWhole
<1>12. Becomes(t)
  BY <1>6, <1>11 DEF Becomes, CallsOnTimeOut, log
<1>13. \A d \in Callers : st[d].engaged = stations[d].engaged /\ st[d].recorded = stations[d].recorded
  BY <1>7 DEF Calm
<1>14. NoneLeft(t)
  BY <1>9, <1>11, <1>13, NowIs DEF IInv, NoneLeft
<1>15. Whole(Now)' /\ NoneLeft(Now)'
  BY <1>11, <1>12, <1>14, BecomesIs
<1>16. Typed'
  BY <1>1, <1>3 DEF IInv, Typed, CallsOnTimeOut, log
<1>17. Backed'
  <2>1. air'.out < Len(air'.parts) => FALSE
    BY <1>1, <1>3
  <2>. QED BY <1>1, <1>3, <2>1 DEF IInv, Backed, Backing, CallsOnTimeOut, log
<1>18. Again'
  BY <1>3 DEF IInv, Again, CallsOnTimeOut
<1>19. TypeOK'
  <2>1. \A d \in Callers : st[d].state = stations[d].state
    BY <1>7 DEF Calm
  <2>2. stations[c].state # "NotCome"
    BY DEF CallsOnTimeOut, TimesOut, Active, Worked
  <2>3. working \in Some
    BY <1>4, SideTypes, NowIs DEF Whole
  <2>4. \A d \in Callers : d \in air'.yet \cup air'.sounding \cup air'.said \cup cutShort' =>
          d \in air.yet \cup air.sounding \cup air.said \cup cutShort \cup {c}
    BY <1>3 DEF CallsOnTimeOut
  <2>5. \A d \in air'.yet \cup air'.sounding \cup air'.said \cup cutShort' :
          d \in Callers /\ stations'[d].state # "NotCome"
    BY <1>3, <1>6, <1>16, <2>1, <2>2, <2>4, AirIs DEF IInv, TypeOK, Typed
  <2>6. working' # NoOne => Active(stations'[working'])
    BY <1>6, <1>9, <2>3 DEF IInv, TypeOK, CallsOnTimeOut, Some
  <2>. QED BY <1>3, <2>5, <2>6 DEF IInv, TypeOK, CallsOnTimeOut, OnAir, log
<1>20. AllKept' /\ ChecksComeOut'
  BY <1>3 DEF IInv, AllKept, ChecksComeOut, CallsOnTimeOut, OnAir, log
<1>21. NobodyStands'
  BY <1>3, NobodyStandsThen DEF CallsOnTimeOut, OnAir
<1>. QED BY <1>15, <1>16, <1>17, <1>18, <1>19, <1>20, <1>21 DEF IInv

\* A log cut back to its first rows.
LEMMA CutBack ==
  ASSUME NEW a \in Seq(Row), NEW n \in Nat, n <= Len(a)
  PROVE  /\ SubSeq(a, 1, n) \in Seq(Row) /\ Len(SubSeq(a, 1, n)) = n
         /\ \A i \in 1..n : SubSeq(a, 1, n)[i] = a[i]
<1>1. \A i \in 1..n : a[i] \in Row
  <2>1. 1..n \subseteq 1..Len(a)
    OBVIOUS
  <2>. QED BY <2>1, ElementOfSeq
<1>2. 1 \in Int /\ n \in Int
  OBVIOUS
<1>3. /\ SubSeq(a, 1, n) \in Seq(Row)
      /\ Len(SubSeq(a, 1, n)) = IF 1 <= n THEN n - 1 + 1 ELSE 0
      /\ \A i \in 1..(n - 1 + 1) : SubSeq(a, 1, n)[i] = a[1 + i - 1]
  BY <1>1, <1>2, SubSeqProperties
<1>4. (IF 1 <= n THEN n - 1 + 1 ELSE 0) = n /\ 1..(n - 1 + 1) = 1..n
      /\ \A i \in 1..n : 1 + i - 1 = i
  OBVIOUS
<1>. QED BY <1>3, <1>4

\* What stays in a log: its entries, but for lost copies at its end.
KeptRows(a, b) ==
  \A i, j \in DOMAIN a : i <= j /\ a[j].kind # "lost" => i <= Len(b) /\ SameRow(a[i], b[i])

\* What stays in the log, and stays taught, whatever the step.
Stands == taught' >= taught /\ KeptRows(entries, entries')

LEMMA LogStands ==
  ASSUME Typed, Whole(Now), UNCHANGED log
  PROVE  Stands
<1>1. taught' = taught /\ entries' = entries /\ taught \in Nat
  BY DEF Typed, log
<1>2. DOMAIN entries = 1..Len(entries) /\ Len(entries) \in Nat
  BY SideTypes, NowIs DEF Whole
<1>3. \A i \in DOMAIN entries : i <= Len(entries)
  BY <1>2
<1>. QED BY <1>1, <1>3 DEF Stands, KeptRows, SameRow

LEMMA GoesOnStands ==
  ASSUME Whole(Now), Whole(Now)', GoesOn(entries, entries'), taught' >= taught
  PROVE  Stands
<1>1. DOMAIN entries = 1..Len(entries) /\ Len(entries) \in Nat /\ entries \in Seq(Row)
  BY SideTypes, NowIs DEF Whole
<1>2. Len(entries') \in Nat
  BY NowTypesNext
<1>3. \A i \in DOMAIN entries : i <= Len(entries')
  BY <1>1, <1>2 DEF GoesOn
<1>. QED BY <1>1, <1>3 DEF Stands, KeptRows, GoesOn

LEMMA ChecksShowIInv ==
  ASSUME IInv, ChecksShow
  PROVE  IInv' /\ Stands
<1>1. /\ air \in Airs /\ air.out \in Nat /\ Len(air.parts) \in Nat
      /\ air.unheard \in {NoUnheard} \cup Keyed
  BY AirIs DEF IInv, Typed
<1>2. /\ air' \in Airs /\ air'.on = air.on /\ air'.parts = air.parts /\ air'.out = air.out
      /\ air'.yet = air.yet /\ air'.sounding = air.sounding
      /\ air'.said = air.said /\ air'.pending = {} /\ air'.unheard = air.unheard
  <2>1. PICK none \in SUBSET Nat : none = {}
    OBVIOUS
  <2>2. air' = [air EXCEPT !.pending = none]
    BY <2>1 DEF ChecksShow
  <2>. QED BY <1>1, <2>1, <2>2 DEF Airs
<1>3. PICK t : t = Resolved(Now, air.pending)
  OBVIOUS
<1>4. /\ Whole(t) /\ t.stations = stations /\ t.working = working /\ t.thanked = thanked
      /\ Len(t.entries) = Len(entries) /\ GoesOn(entries, t.entries)
      /\ \A i \in 1..Len(entries) :
           t.entries[i].pending <=> entries[i].pending /\ i \notin air.pending
  BY <1>3, NowIs, ResolvedIs DEF IInv
<1>5. Becomes(t)
  BY <1>3, <1>4 DEF Becomes, ChecksShow, qsos
<1>6. NoneLeft(t)
  BY <1>4, NowIs DEF IInv, NoneLeft
<1>7. Whole(Now)' /\ NoneLeft(Now)' /\ entries' = t.entries
  BY <1>4, <1>5, <1>6, BecomesIs
<1>8. /\ style' = style /\ run' = run /\ timers' = timers /\ cutShort' = cutShort
      /\ keys' = keys /\ breaks' = breaks /\ taught' = taught
      /\ stations' = stations /\ working' = working /\ thanked' = thanked
  BY DEF ChecksShow, qsos
<1>9. Typed'
  BY <1>1, <1>2, <1>8 DEF IInv, Typed
<1>10. /\ DOMAIN entries = 1..Len(entries) /\ DOMAIN t.entries = 1..Len(entries)
       /\ entries \in Seq(Row) /\ t.entries \in Seq(Row) /\ Len(entries) \in Nat
  BY <1>4, SideTypes, NowIs DEF IInv, Whole
<1>11. \A i \in 1..Len(entries) : SameRow(entries[i], t.entries[i])
  BY <1>4 DEF GoesOn
<1>12. Again' /\ AllKept' /\ TypeOK'
  BY <1>2, <1>4, <1>7, <1>8 DEF IInv, Again, AllKept, TypeOK, ChecksShow, OnAir
<1>13. ChecksComeOut'
  BY <1>4, <1>7, <1>8, <1>10 DEF IInv, ChecksComeOut, ChecksShow, OnAir
<1>14. NobodyStands'
  BY <1>2, <1>8, NobodyStandsThen DEF ChecksShow, OnAir
<1>15. Backed'
  <2>1. SUFFICES ASSUME air.unheard # NoUnheard, air.unheard.entries = Len(entries),
                        air.out < Len(air.parts)
                 PROVE  Whole(Undone)'
    BY <1>1, <1>2, <1>4, <1>7, <1>8, <1>10, <1>11 DEF IInv, Backed, Backing, SameRow
  <2>2. PICK n \in Nat : n = air.unheard.lostFrom
    BY <1>1, <2>1 DEF Keyed
  <2>3. n <= Len(entries) /\ Whole(Undone)
    BY <2>1, <2>2 DEF IInv, Backed, Backing
  <2>. DEFINE a == SubSeq(entries, 1, n)
              b == SubSeq(t.entries, 1, n)
              st == Undone.stations
  <2>4. /\ a \in Seq(Row) /\ Len(a) = n /\ \A i \in 1..n : a[i] = entries[i]
        /\ b \in Seq(Row) /\ Len(b) = n /\ \A i \in 1..n : b[i] = t.entries[i]
    BY <1>4, <1>10, <2>3, CutBack
  <2>. HIDE DEF a, b
  <2>5. GoesOn(a, b)
    <3>1. 1..n \subseteq 1..Len(entries) /\ n <= n
      BY <1>10, <2>3
    <3>. QED BY <1>11, <2>4, <3>1 DEF GoesOn, SameRow
  <2>6. Undone.entries = a
    BY <2>2 DEF Undone, Side, a
  <2>. DEFINE u == [Undone EXCEPT !.entries = b]
  <2>7. Undone \in Sides /\ Undone.working \in Some /\ Undone.thanked \in Some
    BY <2>3, SideTypes DEF Whole
  <2>8. u \in Sides /\ u.stations = st /\ u.working = Undone.working
        /\ u.thanked = Undone.thanked /\ u.entries = b
    BY <2>4, <2>7 DEF Sides
  <2>9. Undone' = u
    <3>1. Undone' = Side(AsBefore(air.unheard, stations), air.unheard.working,
                         air.unheard.thanked, b)
      BY <1>2, <1>7, <1>8, <2>2 DEF Undone, b
    <3>. QED BY <3>1 DEF Undone, Side
  <2>. HIDE DEF u
  <2>10. Whole(u)
    BY <2>3, <2>4, <2>5, <2>6, <2>8, WholeAs DEF Whole
  <2>. QED BY <2>9, <2>10
<1>16. Stands
  BY <1>4, <1>7, <1>8, GoesOnStands DEF IInv, Typed
<1>. QED BY <1>7, <1>9, <1>12, <1>13, <1>14, <1>15, <1>16 DEF IInv

-----------------------------------------------------------------------------
(***************************************************************************)
(* The stations, the log and the turn change together.                     *)
(***************************************************************************)
\* What such a step leaves, the QSOs and the log as in t, where its parts
\* fit together.
LEMMA StepThen ==
  ASSUME IInv, NEW t, Whole(t), NoneLeft(t), Becomes(t), Teach \/ taught' = taught, style' = style,
         t.working # NoOne => Active(t.stations[t.working]),
         KeptRows(entries, t.entries), taught <= Len(t.entries),
         run' \in Runs, timers' \in SUBSET {"countdown", "run_end", "patience", "resume"},
         cutShort' \in SUBSET Callers, keys' \in Nat, breaks' \in Nat,
         air' \in Airs, air'.out <= Len(air'.parts), ~air'.on => air' = Quiet,
         air'.unheard # NoUnheard /\ air'.unheard.entries = Len(t.entries) =>
           air'.unheard.lostFrom \in Nat /\ air'.unheard.lostFrom <= Len(t.entries),
         \A c \in air'.yet \cup air'.sounding \cup air'.said \cup cutShort' : Came(t.stations, c),
         run'.phase # "Aborted" =>
           \A i \in 1..Len(t.entries) : t.entries[i].pending => air'.on /\ i \in air'.pending,
         run'.phase # "Running" => ~air'.on /\ timers' \subseteq {"countdown"},
         run'.phase = "Running" => "run_end" \in timers',
         Again', AllKept', NobodyStands'
  PROVE  /\ Backed' => IInv'
         /\ Stands
         /\ (air'.unheard # NoUnheard /\ air'.unheard.entries = Len(entries')
             /\ taught <= air'.unheard.lostFrom) => taught' <= air'.unheard.lostFrom
<1>1. /\ Whole(Now)' /\ NoneLeft(Now)'
      /\ stations' = t.stations /\ working' = t.working
      /\ thanked' = t.thanked /\ entries' = t.entries
  BY BecomesIs
<1>2. Len(entries') \in Nat /\ DOMAIN entries' = 1..Len(entries')
  BY <1>1, NowTypesNext
<1>3. taught \in Nat
  BY DEF IInv, Typed
<1>4. /\ taught' \in Nat /\ taught' <= Len(entries') /\ taught' >= taught
      /\ (air'.unheard # NoUnheard /\ air'.unheard.entries = Len(entries')
          /\ taught <= air'.unheard.lostFrom) => taught' <= air'.unheard.lostFrom
  <2>1. CASE Teach
    <3>. DEFINE keyed == air'.unheard # NoUnheard /\ air'.unheard.entries = Len(entries')
    <3>1. keyed => air'.unheard.lostFrom \in Nat /\ air'.unheard.lostFrom <= Len(entries')
      BY <1>1
    <3>2. /\ taught' \in Nat /\ taught' <= Len(entries') /\ taught' >= taught
          /\ keyed /\ taught <= air'.unheard.lostFrom => taught' = air'.unheard.lostFrom
      BY <1>1, <1>2, <1>3, <2>1, <3>1, TeachIs
    <3>. HIDE DEF keyed
    <3>3. keyed /\ taught <= air'.unheard.lostFrom => taught' <= air'.unheard.lostFrom
      BY <3>1, <3>2
    <3>. QED BY <3>2, <3>3 DEF keyed
  <2>2. CASE taught' = taught
    BY <1>1, <1>3, <2>2
  <2>. QED BY <2>1, <2>2
<1>5. Stands
  BY <1>1, <1>4 DEF Stands
<1>6. Typed'
  BY <1>4 DEF Typed
<1>7. TypeOK'
  <2>1. run'.phase \in {"Countdown", "Running", "Paused", "Finished", "Aborted"}
    BY RunIs
  <2>. QED BY <1>1, <1>4, <2>1 DEF TypeOK, Came
<1>8. ChecksComeOut'
  BY <1>1, <1>2 DEF ChecksComeOut
<1>. QED BY <1>1, <1>4, <1>5, <1>6, <1>7, <1>8 DEF IInv

\* Nothing keyed is left on the air to take back.
LEMMA NoneBacked ==
  ASSUME air'.unheard = NoUnheard
  PROVE  Backed'
BY DEF Backed

LEMMA GoesOnKeeps ==
  ASSUME NEW a \in Seq(Row), NEW b \in Seq(Row), GoesOn(a, b)
  PROVE  KeptRows(a, b) /\ Len(a) <= Len(b)
<1>1. DOMAIN a = 1..Len(a) /\ Len(a) \in Nat /\ Len(b) \in Nat
  OBVIOUS
<1>2. \A i \in DOMAIN a : i <= Len(b)
  BY <1>1 DEF GoesOn
<1>. QED BY <1>1, <1>2 DEF KeptRows, GoesOn

\* The turn is cut off: every check shows.
LEMMA CutOffIs ==
  ASSUME IInv, run.phase # "Aborted"
  PROVE  /\ Whole(CutOff) /\ CutOff.stations = stations /\ CutOff.working = working
         /\ CutOff.thanked = thanked /\ Len(CutOff.entries) = Len(entries)
         /\ GoesOn(entries, CutOff.entries) /\ NoneLeft(CutOff)
         /\ \A i \in 1..Len(entries) : ~CutOff.entries[i].pending
<1>1. PICK t : t = CutOff
  OBVIOUS
<1>2. /\ Whole(t) /\ t.stations = stations /\ t.working = working /\ t.thanked = thanked
      /\ Len(t.entries) = Len(entries) /\ GoesOn(entries, t.entries)
      /\ \A i \in 1..Len(entries) :
           t.entries[i].pending <=> entries[i].pending /\ i \notin air.pending
  BY <1>1, NowIs, ResolvedIs DEF IInv, CutOff
<1>3. \A i \in 1..Len(entries) : ~t.entries[i].pending
  <2>1. DOMAIN entries = 1..Len(entries)
    BY NowTypes DEF IInv
  <2>. QED BY <1>2, <2>1 DEF IInv, ChecksComeOut
<1>4. NoneLeft(t)
  BY <1>2, NowIs DEF IInv, NoneLeft
<1>. QED BY <1>1, <1>2, <1>3, <1>4

\* The station you work, and those of the turn, came.
LEMMA OnFrequency ==
  ASSUME IInv
  PROVE  /\ working # NoOne => working \in Callers /\ Active(stations[working])
         /\ \A c \in air.yet \cup air.sounding \cup air.said \cup cutShort :
              c \in Callers /\ Came(stations, c)
<1>1. working \in Some
  BY NowTypes DEF IInv
<1>. QED BY <1>1, AirIs DEF IInv, TypeOK, Typed, Some, Came

\* The run is held, paused or failing: everyone in the turn may be asked to
\* send again.
LEMMA HeldIInv ==
  ASSUME IInv, run.phase \in {"Countdown", "Running"}, Held, Becomes(CutOff), air' = Quiet,
         cutShort' \subseteq cutShort \cup air.yet \cup air.sounding \cup air.said,
         style' = style, keys' \in Nat, breaks' \in Nat, Teach
  PROVE  IInv' /\ Stands
<1>1. PICK t : t = CutOff
  OBVIOUS
<1>2. /\ Whole(t) /\ t.stations = stations /\ t.working = working /\ t.thanked = thanked
      /\ Len(t.entries) = Len(entries) /\ GoesOn(entries, t.entries) /\ NoneLeft(t)
      /\ \A i \in 1..Len(entries) : ~t.entries[i].pending
  BY <1>1, CutOffIs
<1>3. /\ air' \in Airs /\ ~air'.on /\ air'.out = 0 /\ Len(air'.parts) = 0 /\ air'.yet = {}
      /\ air'.sounding = {} /\ air'.said = {} /\ air'.unheard = NoUnheard
  BY QuietIs
<1>4. /\ run \in Runs /\ run' \in Runs /\ run'.phase = "Paused" /\ run'.begun = run.begun
      /\ timers' = {}
  BY RunIs DEF IInv, Typed, Held, NoTimers
<1>5. \A c \in cutShort' : c \in Callers /\ Came(stations, c)
  BY OnFrequency
<1>6. entries \in Seq(Row) /\ t.entries \in Seq(Row) /\ Len(entries) \in Nat
  BY <1>2, NowTypes, SideTypes DEF IInv, Whole
<1>7. KeptRows(entries, t.entries) /\ taught <= Len(t.entries)
  BY <1>2, <1>6, GoesOnKeeps DEF IInv, TypeOK
<1>8. Again'
  <2>1. run.phase = "Countdown" => cutShort = {} /\ ~air.on
    BY DEF IInv, Again, TypeOK
  <2>2. ~air.on => air.yet = {} /\ air.sounding = {} /\ air.said = {}
    BY QuietIs DEF IInv, TypeOK
  <2>3. cutShort' # {} => run.begun
    BY <2>1, <2>2 DEF IInv, Again
  <2>. QED BY <1>3, <1>4, <2>3 DEF Again
<1>9. AllKept' /\ NobodyStands'
  BY <1>4 DEF AllKept, NobodyStands
<1>10. Backed'
  BY <1>3, NoneBacked
<1>11. t.working # NoOne => Active(t.stations[t.working])
  BY <1>2, OnFrequency
<1>12. \A c \in air'.yet \cup air'.sounding \cup air'.said \cup cutShort' : Came(t.stations, c)
  BY <1>2, <1>3, <1>5
<1>13. Becomes(t) /\ cutShort' \in SUBSET Callers
  BY <1>1, <1>5
<1>. QED BY <1>2, <1>3, <1>4, <1>7, <1>8, <1>9, <1>10, <1>11, <1>12, <1>13, StepThen

LEMMA BreaksIs ==
  ASSUME IInv, Breaks
  PROVE  breaks' \in Nat
BY DEF IInv, Typed, Breaks

LEMMA PauseIInv ==
  ASSUME IInv, NEW why, Pause(why)
  PROVE  IInv' /\ Stands
<1>1. breaks' \in Nat /\ keys' \in Nat
  BY BreaksIs DEF Pause, IInv, Typed
<1>2. cutShort' \subseteq cutShort \cup air.yet \cup air.sounding \cup air.said
  BY DEF Pause
<1>. QED BY <1>1, <1>2, HeldIInv DEF Pause

LEMMA SoundFailedIInv ==
  ASSUME IInv, SoundFailed
  PROVE  IInv' /\ Stands
<1>1. breaks' \in Nat /\ keys' \in Nat
  BY BreaksIs DEF SoundFailed, IInv, Typed
<1>. QED BY <1>1, HeldIInv DEF SoundFailed, OnAir

\* A side whose stations change calmly.
LEMMA CalmSide ==
  ASSUME NEW side, Whole(side), NEW st2, Calmed(side.stations, st2)
  PROVE  LET t == [side EXCEPT !.stations = st2]
         IN  /\ Whole(t) /\ t.stations = st2 /\ t.entries = side.entries
             /\ t.working = side.working /\ t.thanked = side.thanked
             /\ NoneLeft(side) => NoneLeft(t)
<1>. DEFINE t == [side EXCEPT !.stations = st2]
<1>1. side.stations \in [Callers -> Station]
  BY SideTypes DEF Whole
<1>2. Calmly(side.stations, st2) /\ \A c \in Callers : Active(st2[c]) <=> Active(side.stations[c])
  BY <1>1, CalmIsCalmly
<1>3. /\ Whole(t) /\ t.stations = st2 /\ t.entries = side.entries
      /\ t.working = side.working /\ t.thanked = side.thanked
  BY <1>2, StationsWhole
<1>. HIDE DEF t
<1>4. NoneLeft(side) => NoneLeft(t)
  BY <1>2, <1>3 DEF NoneLeft, Calmed, Calm
<1>. QED BY <1>3, <1>4 DEF t

\* Everyone waits afresh: the timer is set to the first that does.
LEMMA PatienceIs ==
  ASSUME NEW st
  PROVE  /\ Patience(st) \subseteq {"patience"}
         /\ (\E c \in Callers : Active(st[c]) /\ st[c].waiting) => "patience" \in Patience(st)
BY DEF Patience, ActiveIn

LEMMA TurnEndedIInv ==
  ASSUME IInv, TurnEnded
  PROVE  IInv' /\ Stands
<1>1. PICK side : side = CutOff
  OBVIOUS
<1>2. run.phase = "Running"
  BY DEF TurnEnded, OnAir
<1>3. /\ Whole(side) /\ side.stations = stations /\ side.working = working /\ side.thanked = thanked
      /\ Len(side.entries) = Len(entries) /\ GoesOn(entries, side.entries) /\ NoneLeft(side)
      /\ \A i \in 1..Len(entries) : ~side.entries[i].pending
  BY <1>1, <1>2, CutOffIs
<1>4. stations \in [Callers -> Station]
  BY NowTypes DEF IInv
<1>5. PICK st : st = StartWaits(stations)
  OBVIOUS
<1>6. Calmed(stations, st) /\ \A c \in Callers : TimesOut(st[c]) => st[c].waiting
  BY <1>4, <1>5, StartWaitsCalm
<1>7. PICK t : t = [side EXCEPT !.stations = st]
  OBVIOUS
<1>8. /\ Whole(t) /\ t.stations = st /\ t.entries = side.entries
      /\ t.working = working /\ t.thanked = thanked /\ NoneLeft(t)
  BY <1>3, <1>6, <1>7, CalmSide
<1>9. Becomes(t)
  BY <1>1, <1>3, <1>5, <1>7 DEF TurnEnded
<1>10. stations' = st
  BY <1>8, <1>9 DEF Becomes
<1>11. /\ air' = Quiet /\ air' \in Airs /\ ~air'.on /\ air'.out = 0 /\ Len(air'.parts) = 0 /\ air'.yet = {}
       /\ air'.sounding = {} /\ air'.said = {} /\ air'.unheard = NoUnheard
  BY QuietIs DEF TurnEnded
<1>12. /\ style' = style /\ run' = run /\ cutShort' = cutShort /\ keys' = keys /\ breaks' = breaks
       /\ Teach /\ timers' = timers \cup Patience(st) /\ air.on
  BY <1>10 DEF TurnEnded, OnAir
<1>13. timers' \in SUBSET {"countdown", "run_end", "patience", "resume"} /\ "run_end" \in timers'
  BY <1>2, <1>12, PatienceIs DEF IInv, Typed, TypeOK
<1>14. entries \in Seq(Row) /\ t.entries \in Seq(Row) /\ Len(entries) \in Nat
  BY <1>3, <1>8, NowTypes, SideTypes DEF IInv, Whole
<1>15. KeptRows(entries, t.entries) /\ taught <= Len(t.entries)
  BY <1>3, <1>8, <1>14, GoesOnKeeps DEF IInv, TypeOK
<1>16. /\ \A c \in Callers : Active(st[c]) <=> Active(stations[c])
       /\ \A c \in Callers : Came(st, c) <=> Came(stations, c)
  BY <1>4, <1>6, CalmIsCalmly
<1>17. t.working # NoOne => Active(t.stations[t.working])
  BY <1>8, <1>16, OnFrequency
<1>18. cutShort = {} /\ "resume" \notin timers
  BY <1>12 DEF IInv, Again
<1>19. Again'
  BY <1>2, <1>11, <1>12, <1>18, PatienceIs DEF IInv, Again
<1>20. AllKept'
  BY <1>2, <1>12 DEF AllKept
<1>21. NobodyStands'
  BY <1>6, <1>10, <1>12, PatienceIs, NobodyStandsThen
<1>22. Backed'
  BY <1>11, NoneBacked
<1>23. \A c \in air'.yet \cup air'.sounding \cup air'.said \cup cutShort' : Came(t.stations, c)
  BY <1>11, <1>12, <1>18
<1>24. run' \in Runs /\ keys' \in Nat /\ breaks' \in Nat /\ cutShort' \in SUBSET Callers
  BY <1>12 DEF IInv, Typed
<1>. QED BY <1>2, <1>3, <1>8, <1>9, <1>11, <1>12, <1>13, <1>15, <1>17, <1>19, <1>20, <1>21,
            <1>22, <1>23, <1>24, StepThen

-----------------------------------------------------------------------------
(***************************************************************************)
(* The run.                                                                *)
(***************************************************************************)
\* Off the air, the run and its timers alone go on.
LEMMA RunGoesOn ==
  ASSUME IInv, UNCHANGED <<style, qsos, log, air, cutShort, keys, breaks>>, ~air.on,
         run' \in Runs, run.phase # "Aborted", run'.phase # "Finished",
         run'.phase # "Running" => timers' = {"countdown"},
         run'.phase = "Running" => timers' = {"run_end", "resume"},
         run'.phase = "Countdown" => ~run'.begun,
         run'.phase = "Running" => run'.begun, run.begun => run'.begun
  PROVE  IInv' /\ Stands
<1>1. /\ style' = style /\ cutShort' = cutShort /\ air' = air /\ keys' = keys /\ breaks' = breaks
      /\ stations' = stations /\ working' = working /\ thanked' = thanked
      /\ taught' = taught /\ entries' = entries /\ UNCHANGED <<qsos, log>>
  BY DEF qsos, log
<1>2. timers' \in SUBSET {"countdown", "run_end", "patience", "resume"}
  OBVIOUS
<1>3. Typed'
  BY <1>1, <1>2 DEF IInv, Typed
<1>4. Whole(Now)' /\ NoneLeft(Now)'
  BY <1>1, SameOn DEF IInv
<1>5. Backed'
  BY <1>1, BackedOn, AirIs DEF IInv, Typed
<1>6. Again'
  BY <1>1 DEF IInv, Again
<1>7. TypeOK'
  <2>1. run'.phase \in {"Countdown", "Running", "Paused", "Finished", "Aborted"}
    BY RunIs
  <2>. QED BY <1>1, <2>1 DEF IInv, TypeOK
<1>8. AllKept' /\ ChecksComeOut'
  BY <1>1 DEF IInv, AllKept, ChecksComeOut
<1>9. NobodyStands'
  BY NobodyStandsThen
<1>10. Stands
  BY <1>1, LogStands DEF IInv
<1>. QED BY <1>3, <1>4, <1>5, <1>6, <1>7, <1>8, <1>9, <1>10 DEF IInv

LEMMA CountsDownIInv ==
  ASSUME IInv, CountsDown
  PROVE  IInv' /\ Stands
<1>1. run \in Runs /\ run.phase = "Countdown" /\ run.left \in Nat /\ run.left > 1 /\ ~air.on /\ ~run.begun
      /\ timers \subseteq {"countdown"} /\ "countdown" \in timers
  BY RunIs DEF CountsDown, IInv, TypeOK, Typed, Again
<1>2. PICK n \in Nat : n = run.left - 1
  BY <1>1
<1>3. run' = [run EXCEPT !.left = n]
  BY <1>2 DEF CountsDown
<1>4. run' \in Runs /\ run'.phase = run.phase /\ run'.begun = run.begun
  BY <1>1, <1>3 DEF Runs
<1>5. timers' = {"countdown"} /\ UNCHANGED <<style, qsos, log, air, cutShort, keys, breaks>>
  BY <1>1 DEF CountsDown
<1>. QED BY <1>1, <1>4, <1>5, RunGoesOn

LEMMA ResumeIInv ==
  ASSUME IInv, Resume
  PROVE  IInv' /\ Stands
<1>1. run \in Runs /\ run.phase = "Paused" /\ ~air.on
  BY DEF Resume, IInv, TypeOK, Typed
<1>2. UNCHANGED <<style, qsos, log, air, cutShort, keys, breaks>>
  BY DEF Resume
<1>3. CASE run.begun
  <2>1. run' = [run EXCEPT !.phase = "Running"] /\ timers' = {"run_end", "resume"}
    BY <1>3 DEF Resume
  <2>2. run' \in Runs /\ run'.phase = "Running" /\ run'.begun = run.begun
    BY <1>1, <2>1, RunIs
  <2>. QED BY <1>1, <1>2, <1>3, <2>1, <2>2, RunGoesOn
<1>4. CASE ~run.begun
  <2>1. run' = [run EXCEPT !.phase = "Countdown", !.left = CountDown] /\ timers' = {"countdown"}
    BY <1>4 DEF Resume
  <2>2. run' \in Runs /\ run'.phase = "Countdown" /\ run'.begun = run.begun
    BY <1>1, <2>1, CountDownIs DEF Runs
  <2>. QED BY <1>1, <1>2, <1>4, <2>1, <2>2, RunGoesOn
<1>. QED BY <1>3, <1>4

LEMMA LostRowsGoOn ==
  ASSUME NEW a \in Seq(Row), NEW b \in Seq(Row), LostRows(a, b)
  PROVE  GoesOn(a, b) /\ KeptRows(a, b) /\ Len(a) <= Len(b)
BY GoesOnKeeps DEF LostRows, GoesOn, SameRow

LEMMA AbortIInv ==
  ASSUME IInv, Abort
  PROVE  IInv' /\ Stands
<1>1. /\ air' = Quiet /\ air' \in Airs /\ ~air'.on /\ air'.out = 0 /\ Len(air'.parts) = 0 /\ air'.yet = {}
      /\ air'.sounding = {} /\ air'.said = {} /\ air'.unheard = NoUnheard
  BY QuietIs DEF Abort
<1>2. run \in Runs /\ run' \in Runs /\ run'.phase = "Aborted" /\ run'.begun = run.begun /\ timers' = {}
  BY RunIs DEF IInv, Typed, Abort, NoTimers
<1>3. /\ style' = style /\ cutShort' = cutShort /\ keys' \in Nat /\ breaks' \in Nat /\ Teach
      /\ cutShort' \in SUBSET Callers
  BY DEF Abort, IInv, Typed
<1>4. PICK t : t = Now
  OBVIOUS
<1>5. /\ Whole(t) /\ NoneLeft(t) /\ t.stations = stations /\ t.working = working
      /\ t.thanked = thanked /\ t.entries = entries
  BY <1>4, NowIs DEF IInv
<1>6. Becomes(t)
  BY <1>5 DEF Becomes, Abort, qsos
<1>7. KeptRows(entries, t.entries) /\ taught <= Len(t.entries)
  BY <1>5, NowTypes, GoesOnSelf, GoesOnKeeps DEF IInv, TypeOK
<1>8. t.working # NoOne => Active(t.stations[t.working])
  BY <1>5, OnFrequency
<1>9. \A c \in air'.yet \cup air'.sounding \cup air'.said \cup cutShort' : Came(t.stations, c)
  BY <1>1, <1>3, <1>5, OnFrequency
<1>10. Again' /\ AllKept' /\ NobodyStands'
  BY <1>1, <1>2, <1>3 DEF IInv, Again, AllKept, NobodyStands
<1>11. Backed'
  BY <1>1, NoneBacked
<1>. QED BY <1>1, <1>2, <1>3, <1>5, <1>6, <1>7, <1>8, <1>9, <1>10, <1>11, StepThen

LEMMA FinishIInv ==
  ASSUME IInv, Finish
  PROVE  IInv' /\ Stands
<1>1. /\ air' = Quiet /\ air' \in Airs /\ ~air'.on /\ air'.out = 0 /\ Len(air'.parts) = 0 /\ air'.yet = {}
      /\ air'.sounding = {} /\ air'.said = {} /\ air'.unheard = NoUnheard
  BY QuietIs DEF Finish
<1>2. run \in Runs /\ run' \in Runs /\ run'.phase = "Finished" /\ run'.begun = run.begun /\ timers' = {}
  BY RunIs DEF IInv, Typed, Finish, NoTimers
<1>3. /\ style' = style /\ cutShort' = cutShort /\ keys' \in Nat /\ breaks' \in Nat /\ Teach
      /\ cutShort' \in SUBSET Callers
  BY DEF Finish, IInv, Typed
<1>4. PICK side : side = CutOff
  OBVIOUS
<1>5. run.phase # "Aborted"
  BY DEF Finish
<1>6. /\ Whole(side) /\ side.stations = stations /\ side.working = working /\ side.thanked = thanked
      /\ Len(side.entries) = Len(entries) /\ GoesOn(entries, side.entries) /\ NoneLeft(side)
      /\ \A i \in 1..Len(entries) : ~side.entries[i].pending
  BY <1>4, <1>5, CutOffIs
<1>7. PICK T : T = Open(stations)
  OBVIOUS
<1>8. T \in SUBSET Callers
      /\ \A c \in T : Came(side.stations, c) /\ ~side.stations[c].recorded
  <2>1. \A c \in T : c \in Callers /\ stations[c].engaged /\ ~stations[c].recorded
    BY <1>7 DEF Open
  <2>. QED BY <1>6, <2>1 DEF Whole
<1>9. PICK t : t = LoseAll(side, T)
  OBVIOUS
<1>10. Whole(t) /\ LosesJust(side, t, T)
  BY <1>6, <1>8, <1>9, LoseAllIs
<1>11. Becomes(t)
  BY <1>4, <1>7, <1>9 DEF Finish
<1>12. \A c \in Callers : t.stations[c].engaged => t.stations[c].recorded
  <2>1. \A c \in Callers : stations[c].engaged => stations[c].recorded \/ c \in T
    BY <1>7 DEF Open
  <2>. QED BY <1>6, <1>10, <2>1 DEF LosesJust, SameSelf
<1>13. NoneLeft(t)
  BY <1>12 DEF NoneLeft
<1>14. entries \in Seq(Row) /\ side.entries \in Seq(Row) /\ t.entries \in Seq(Row)
       /\ Len(entries) \in Nat /\ Len(t.entries) \in Nat
  BY <1>6, <1>10, NowTypes, SideTypes DEF IInv, Whole
<1>15. KeptRows(entries, t.entries) /\ Len(entries) <= Len(t.entries)
  BY <1>6, <1>10, <1>14, LostRowsGoOn, GoesOnAgain, GoesOnKeeps DEF LosesJust
<1>16. taught \in Nat /\ taught <= Len(entries)
  BY DEF IInv, Typed, TypeOK
<1>17. taught <= Len(t.entries)
  BY <1>14, <1>15, <1>16
<1>18. \A i \in 1..Len(t.entries) : ~t.entries[i].pending
  <2>. TAKE i \in 1..Len(t.entries)
  <2>1. CASE i <= Len(entries)
    <3>1. i \in 1..Len(entries)
      BY <1>14, <2>1
    <3>. QED BY <1>6, <1>10, <3>1 DEF LosesJust, LostRows
  <2>2. CASE ~(i <= Len(entries))
    <3>1. i > Len(entries)
      BY <1>14, <2>2
    <3>. QED BY <1>6, <1>10, <3>1 DEF LosesJust, LostRows
  <2>. QED BY <2>1, <2>2
<1>19. \A c \in Callers : SameSelf(t.stations[c], stations[c])
  BY <1>6, <1>10 DEF LosesJust
<1>20. t.working # NoOne => Active(t.stations[t.working])
  <2>1. t.working = working
    BY <1>6, <1>10 DEF LosesJust
  <2>. QED BY <1>19, <2>1, OnFrequency, SameSelfKeeps
<1>21. \A c \in air'.yet \cup air'.sounding \cup air'.said \cup cutShort' : Came(t.stations, c)
  BY <1>1, <1>3, <1>19, OnFrequency DEF SameSelf, Came
<1>22. stations' = t.stations
  BY <1>11 DEF Becomes
<1>23. Again' /\ AllKept' /\ NobodyStands'
  BY <1>1, <1>2, <1>3, <1>12, <1>22 DEF IInv, Again, AllKept, NobodyStands
<1>24. Backed'
  BY <1>1, NoneBacked
<1>. QED BY <1>1, <1>2, <1>3, <1>10, <1>11, <1>13, <1>15, <1>17, <1>18, <1>20, <1>21, <1>23, <1>24,
            StepThen

LEMMA NobodyIs ==
  /\ <<>> \in Seq(Parts) /\ Len(<<>>) = 0 /\ {} \in SUBSET Nat /\ {} \in SUBSET Callers
  /\ NoUnheard \in {NoUnheard} \cup Keyed
BY EmptySeq

\* Nothing is on the air: no check waits.
LEMMA NonePending ==
  ASSUME IInv, ~air.on, run.phase # "Aborted"
  PROVE  /\ air = Quiet
         /\ \A i \in 1..Len(entries) : ~entries[i].pending
BY NowTypes DEF IInv, TypeOK, ChecksComeOut

LEMMA CallersAgainIInv ==
  ASSUME IInv, CallersAgain
  PROVE  IInv' /\ Stands
<1>. DEFINE again == cutShort \cap ActiveIn(stations)
<1>1. /\ run.phase = "Running" /\ ~air.on /\ cutShort' = {} /\ style' = style /\ run' = run
      /\ working' = working /\ thanked' = thanked /\ entries' = entries /\ taught' = taught
      /\ keys' = keys /\ breaks' = breaks /\ run' \in Runs /\ keys' \in Nat /\ breaks' \in Nat
  BY DEF CallersAgain, log, IInv, Typed
<1>2. stations \in [Callers -> Station] /\ Whole(Now) /\ NoneLeft(Now)
      /\ entries \in Seq(Row) /\ working \in Some
  BY NowTypes DEF IInv
<1>3. air = Quiet /\ \A i \in 1..Len(entries) : ~entries[i].pending
  BY <1>1, NonePending
<1>4. ASSUME NEW st, Calmed(stations, st), stations' = st, air' \in Airs, air'.out = 0,
             air'.unheard = NoUnheard, ~air'.on => air' = Quiet,
             air'.yet \cup air'.sounding \cup air'.said \subseteq again,
             timers' \in SUBSET {"countdown", "run_end", "patience", "resume"},
             "run_end" \in timers', "resume" \notin timers', NobodyStands'
      PROVE  IInv' /\ Stands
  <2>1. PICK t : t = [Now EXCEPT !.stations = st]
    OBVIOUS
  <2>2. /\ Whole(t) /\ t.stations = st /\ t.entries = entries
        /\ t.working = working /\ t.thanked = thanked /\ NoneLeft(t)
    BY <1>2, <1>4, <2>1, NowIs, CalmSide
  <2>3. Becomes(t)
    BY <1>1, <1>4, <2>2 DEF Becomes
  <2>4. KeptRows(entries, t.entries) /\ taught <= Len(t.entries)
    BY <1>2, <2>2, GoesOnSelf, GoesOnKeeps DEF IInv, TypeOK
  <2>5. /\ \A c \in Callers : Active(st[c]) <=> Active(stations[c])
        /\ \A c \in Callers : Came(st, c) <=> Came(stations, c)
    BY <1>2, <1>4, CalmIsCalmly
  <2>6. t.working # NoOne => Active(t.stations[t.working])
    BY <2>2, <2>5, OnFrequency
  <2>7. \A c \in air'.yet \cup air'.sounding \cup air'.said \cup cutShort' : Came(t.stations, c)
    BY <1>1, <1>4, <2>2, <2>5 DEF ActiveIn, Active, Worked, Came
  <2>8. Again' /\ AllKept'
    BY <1>1, <1>4 DEF IInv, Again, AllKept
  <2>9. Backed'
    BY <1>4, NoneBacked
  <2>10. air'.parts \in Seq(Parts) /\ air'.out <= Len(air'.parts)
    BY <1>4, AirIs
  <2>. QED BY <1>1, <1>3, <1>4, <2>2, <2>3, <2>4, <2>6, <2>7, <2>8, <2>9, <2>10, StepThen
<1>5. timers \in SUBSET {"countdown", "run_end", "patience", "resume"} /\ "run_end" \in timers
  BY <1>1 DEF IInv, Typed, TypeOK
<1>6. CASE again = {}
  <2>1. PICK st : st = StartWaits(stations)
    OBVIOUS
  <2>2. stations' = st /\ timers' = (timers \ {"resume"}) \cup Patience(st) /\ air' = air
    BY <1>6, <2>1 DEF CallersAgain
  <2>3. Calmed(stations, st) /\ \A c \in Callers : TimesOut(st[c]) => st[c].waiting
    BY <1>2, <2>1, StartWaitsCalm
  <2>4. NobodyStands'
    BY <1>1, <2>2, <2>3, PatienceIs, NobodyStandsThen
  <2>5. /\ timers' \in SUBSET {"countdown", "run_end", "patience", "resume"}
        /\ "run_end" \in timers' /\ "resume" \notin timers'
    BY <1>5, <2>2, PatienceIs
  <2>. QED BY <1>3, <1>4, <2>2, <2>3, <2>4, <2>5, QuietIs
<1>7. CASE again # {}
  <2>1. PICK st : st = Unhurried
    OBVIOUS
  <2>2. /\ stations' = st /\ timers' = timers \ {"resume"}
        /\ Play(<<>>, {}, again, {}, NoUnheard)
    BY <1>7, <2>1 DEF CallersAgain
  <2>3. Calmed(stations, st)
    <3>1. PICK no \in BOOLEAN : no = FALSE
      OBVIOUS
    <3>2. st = [c \in Callers |-> [stations[c] EXCEPT !.waiting = no]]
      BY <2>1, <3>1 DEF Unhurried
    <3>. QED BY <1>2, <3>2, WaitingCalm DEF Calmed
  <2>4. again \in SUBSET Callers
    BY DEF IInv, Typed
  <2>5. /\ air' \in Airs /\ air'.on /\ air'.out = 0 /\ air'.yet = again
        /\ air'.sounding = {} /\ air'.said = {} /\ air'.unheard = NoUnheard
    BY <2>2, <2>4, NobodyIs, PlayIs
  <2>6. NobodyStands'
    BY <1>1, <2>5, NobodyStandsThen
  <2>. QED BY <1>4, <1>5, <2>2, <2>3, <2>5, <2>6
<1>. QED BY <1>6, <1>7

\* Where the stations are as they were but for the log, nobody is left standing.
LEMMA StandsAs ==
  ASSUME NobodyStands, style' = style, run' = run, timers' = timers, air' = air,
         \A c \in Callers : SameSelf(stations'[c], stations[c])
  PROVE  NobodyStands'
<1>1. \A c \in Callers : /\ TimesOut(stations'[c]) <=> TimesOut(stations[c])
                         /\ Active(stations'[c]) <=> Active(stations[c])
                         /\ stations'[c].waiting = stations[c].waiting
  <2>. TAKE c \in Callers
  <2>1. PICK a, b : a = stations'[c] /\ b = stations[c]
    OBVIOUS
  <2>2. SameSelf(a, b)
    BY <2>1
  <2>3. (Active(a) <=> Active(b)) /\ (TimesOut(a) <=> TimesOut(b)) /\ a.waiting = b.waiting
    BY <2>2, SameSelfKeeps
  <2>. QED BY <2>1, <2>3
<1>. QED BY <1>1, NobodyStandsNow, NobodyStandsThen

-----------------------------------------------------------------------------
(***************************************************************************)
(* A QSO is logged; patience runs out.                                     *)
(***************************************************************************)
LEMMA KeysIs ==
  ASSUME IInv, Keys
  PROVE  keys' \in Nat /\ run.phase = "Running"
BY DEF IInv, Typed, Keys

LEMMA LogOnlyIInv ==
  ASSUME IInv, LogOnly
  PROVE  IInv' /\ Stands
<1>1. PICK call \in Loggable : \E side \in Log(Now, call) : Becomes(Resolved(side, {Len(side.entries)}))
  BY DEF LogOnly
<1>2. PICK side \in Log(Now, call) : Becomes(Resolved(side, {Len(side.entries)}))
  BY <1>1
<1>3. Whole(side) /\ LoggedTo(Now, side)
  BY <1>2, LogIs DEF IInv
<1>. DEFINE m == Len(entries)
            n == Len(side.entries)
<1>4. PICK t : t = Resolved(side, {n})
  OBVIOUS
<1>5. /\ Whole(t) /\ t.stations = side.stations /\ t.working = side.working
      /\ t.thanked = side.thanked /\ Len(t.entries) = n /\ GoesOn(side.entries, t.entries)
      /\ \A i \in 1..n : t.entries[i].pending <=> side.entries[i].pending /\ i \notin {n}
  BY <1>3, <1>4, ResolvedIs
<1>6. Becomes(t)
  BY <1>2, <1>4
<1>7. /\ side.working = NoOne /\ side.thanked = NoOne
      /\ \A c \in Callers : SameSelf(side.stations[c], stations[c])
      /\ \A c \in Callers : stations[c].recorded => side.stations[c].recorded
      /\ \A c \in Callers : c = thanked => side.stations[c].recorded
      /\ m < n
      /\ \A i \in 1..m : side.entries[i] = entries[i]
      /\ \A i \in 1..n : i > m /\ side.entries[i].pending => i = n
  BY <1>3, NowIs DEF LoggedTo
<1>8. /\ style' = style /\ run' = run /\ timers' = timers /\ air' = air /\ cutShort' = cutShort
      /\ breaks' = breaks /\ Teach /\ keys' \in Nat /\ run.phase = "Running"
      /\ stations' = t.stations /\ entries' = t.entries
  BY <1>6, KeysIs DEF LogOnly, Becomes
<1>9. NoneLeft(t)
  <2>. SUFFICES ASSUME NEW c \in Callers, t.stations[c].engaged
                PROVE  t.stations[c].recorded \/ Active(t.stations[c])
    BY DEF NoneLeft
  <2>1. stations[c].engaged /\ (Active(t.stations[c]) <=> Active(stations[c]))
    BY <1>5, <1>7, SameSelfKeeps DEF SameSelf
  <2>2. stations[c].recorded \/ Active(stations[c]) \/ c = thanked
    BY <2>1, NowIs DEF IInv, NoneLeft
  <2>. QED BY <1>5, <1>7, <2>1, <2>2
<1>10. /\ entries \in Seq(Row) /\ side.entries \in Seq(Row) /\ t.entries \in Seq(Row)
       /\ m \in Nat /\ n \in Nat /\ DOMAIN entries = 1..m
  BY <1>3, <1>5, NowTypes, SideTypes DEF IInv, Whole
<1>11. KeptRows(entries, t.entries)
  <2>1. GoesOn(entries, side.entries)
    BY <1>7, <1>10 DEF GoesOn, SameRow
  <2>. QED BY <1>5, <1>10, <2>1, GoesOnAgain, GoesOnKeeps
<1>12. taught \in Nat /\ taught <= m
  BY DEF IInv, Typed, TypeOK
<1>13. taught <= Len(t.entries)
  BY <1>5, <1>7, <1>10, <1>12
<1>14. \A i \in 1..n : t.entries[i].pending => air.on /\ i \in air.pending
  <2>. SUFFICES ASSUME NEW i \in 1..n, t.entries[i].pending
                PROVE  air.on /\ i \in air.pending
    OBVIOUS
  <2>1. side.entries[i].pending /\ i # n
    BY <1>5
  <2>2. ~(i > m)
    BY <1>7, <2>1
  <2>3. i \in 1..m
    BY <1>10, <2>2
  <2>4. entries[i].pending
    BY <1>7, <2>1, <2>3
  <2>. QED BY <1>8, <1>10, <2>3, <2>4 DEF IInv, ChecksComeOut
<1>15. /\ air \in Airs /\ air.out <= Len(air.parts)
       /\ ~air.on => air = Quiet
       /\ air.unheard \in {NoUnheard} \cup Keyed
  BY AirIs DEF IInv, Typed, TypeOK
<1>16. air.unheard # NoUnheard => /\ air.unheard.entries \in Nat /\ air.unheard.entries <= m
                                  /\ air.unheard.lostFrom <= air.unheard.entries
  BY <1>15 DEF IInv, Backed, Keyed
<1>17. air.unheard # NoUnheard => air.unheard.entries <= n /\ air.unheard.entries # n
  BY <1>7, <1>10, <1>16
<1>18. Backed'
  <2>1. Len(entries') = n
    BY <1>5, <1>8
  <2>. QED BY <1>8, <1>16, <1>17, <2>1 DEF IInv, Backed
<1>19. \A c \in air'.yet \cup air'.sounding \cup air'.said \cup cutShort' : Came(t.stations, c)
  BY <1>5, <1>7, <1>8, OnFrequency DEF SameSelf, Came
<1>20. Again' /\ AllKept'
  BY <1>8 DEF IInv, Again, AllKept
<1>21. NobodyStands'
  BY <1>5, <1>7, <1>8, StandsAs DEF IInv
<1>22. /\ run' \in Runs /\ timers' \in SUBSET {"countdown", "run_end", "patience", "resume"}
       /\ cutShort' \in SUBSET Callers /\ breaks' \in Nat /\ "run_end" \in timers'
  BY <1>8 DEF IInv, Typed, TypeOK
<1>. QED BY <1>5, <1>6, <1>7, <1>8, <1>9, <1>11, <1>13, <1>14, <1>15, <1>17, <1>18, <1>19, <1>20,
            <1>21, <1>22, StepThen

LEMMA WaitOverIs ==
  ASSUME NEW s \in Station, Active(s), NEW r \in WaitOver(s)
  PROVE  /\ r \in Station /\ r.recorded = s.recorded /\ r.engaged = s.engaged
         /\ r.state # "NotCome"
<1>1. PICK no \in BOOLEAN, yes \in BOOLEAN : no = FALSE /\ yes = TRUE
  OBVIOUS
<1>. DEFINE waited == [s EXCEPT !.waiting = no]
<1>2. waited \in Station /\ waited.recorded = s.recorded /\ waited.engaged = s.engaged
      /\ waited.state = s.state
  BY DEF Station
<1>3. \/ r = waited
      \/ r = [waited EXCEPT !.other = no]
      \/ r = [waited EXCEPT !.other = no, !.state = "Gone"]
      \/ r = [waited EXCEPT !.silent = yes]
      \/ r = [waited EXCEPT !.state = "Gone"]
  BY <1>1 DEF WaitOver
<1>4. s.state # "NotCome"
  BY DEF Active, Worked
<1>. HIDE DEF waited
<1>5. "Gone" \in Names
  BY DEF Names
<1>. QED BY <1>2, <1>3, <1>4, <1>5 DEF Station

LEMMA PatienceRanOutIInv ==
  ASSUME IInv, PatienceRanOut
  PROVE  IInv' /\ Stands
<1>1. /\ run.phase = "Running" /\ ~air.on /\ "patience" \in timers /\ style' = style /\ run' = run
      /\ cutShort' = cutShort /\ keys' = keys /\ breaks' = breaks /\ Teach
      /\ run' \in Runs /\ keys' \in Nat /\ breaks' \in Nat /\ cutShort' \in SUBSET Callers
      /\ timers \in SUBSET {"countdown", "run_end", "patience", "resume"} /\ "run_end" \in timers
  BY DEF PatienceRanOut, IInv, Typed, TypeOK
<1>2. "resume" \notin timers /\ cutShort = {}
  BY <1>1 DEF IInv, Again
<1>3. air = Quiet /\ \A i \in 1..Len(entries) : ~entries[i].pending
  BY <1>1, NonePending
<1>4. stations \in [Callers -> Station] /\ Whole(Now) /\ entries \in Seq(Row) /\ Len(entries) \in Nat
  BY NowTypes DEF IInv
<1>. DEFINE Out(due, st) ==
              /\ \A c \in Callers : st[c] \in IF c \in due THEN WaitOver(stations[c])
                                              ELSE {stations[c]}
              /\ st = [c \in Callers |-> st[c]]
            Then(due, st) ==
              LET replying == {c \in due : TimesOut(st[c])}
              IN  /\ Becomes(CloseFinished([Now EXCEPT !.stations = st]))
                  /\ IF replying = {}
                       THEN timers' = (timers \ {"patience"}) \cup Patience(st) /\ UNCHANGED air
                       ELSE /\ timers' = timers \ {"patience"}
                            /\ Play(<<>>, {}, replying, {}, NoUnheard)
<1>5. PICK due \in SUBSET {c \in ActiveIn(stations) : stations[c].waiting} \ {{}} :
        \E st : Out(due, st) /\ Then(due, st)
  BY DEF PatienceRanOut
<1>6. PICK st : Out(due, st) /\ Then(due, st)
  BY <1>5
<1>7. due \in SUBSET Callers /\ \A c \in due : Active(stations[c])
  BY DEF ActiveIn
<1>8. ASSUME NEW c \in Callers
      PROVE  /\ st[c] \in Station /\ st[c].recorded = stations[c].recorded
             /\ st[c].engaged = stations[c].engaged
             /\ Came(stations, c) <=> Came(st, c)
             /\ c \notin due => st[c] = stations[c]
  <2>1. stations[c] \in Station
    BY <1>4
  <2>2. CASE c \in due
    <3>1. st[c] \in WaitOver(stations[c])
      BY <1>6, <2>2
    <3>2. Active(stations[c]) /\ Came(stations, c)
      BY <1>7, <2>2 DEF Active, Worked, Came
    <3>. QED BY <2>1, <2>2, <3>1, <3>2, WaitOverIs DEF Came
  <2>3. CASE c \notin due
    <3>1. st[c] = stations[c]
      BY <1>6, <2>3
    <3>. QED BY <2>1, <2>3, <3>1 DEF Came
  <2>. QED BY <2>2, <2>3
<1>9. Calmly(stations, st)
  BY <1>6, <1>8 DEF Calmly
<1>10. PICK side : side = [Now EXCEPT !.stations = st]
  OBVIOUS
<1>11. /\ Whole(side) /\ side.stations = st /\ side.entries = entries
       /\ side.working = working /\ side.thanked = thanked
  BY <1>4, <1>9, <1>10, NowIs, StationsWhole
<1>12. PICK t : t = CloseFinished(side)
  OBVIOUS
<1>13. /\ Whole(t) /\ NoneLeft(t) /\ Closed(side, t)
       /\ t.working # NoOne => Active(t.stations[t.working])
  BY <1>11, <1>12, CloseFinishedIs
<1>14. Becomes(t)
  BY <1>6, <1>10, <1>12
<1>15. LostRows(entries, t.entries) /\ \A c \in Callers : SameSelf(t.stations[c], st[c])
  BY <1>11, <1>13 DEF Closed
<1>16. t.entries \in Seq(Row) /\ Len(t.entries) \in Nat
  BY <1>13, SideTypes DEF Whole
<1>17. KeptRows(entries, t.entries) /\ Len(entries) <= Len(t.entries)
  BY <1>4, <1>15, <1>16, LostRowsGoOn
<1>18. taught <= Len(t.entries)
  <2>1. taught \in Nat /\ taught <= Len(entries)
    BY DEF IInv, Typed, TypeOK
  <2>. QED BY <1>4, <1>16, <1>17, <2>1
<1>19. \A i \in 1..Len(t.entries) : ~t.entries[i].pending
  <2>. TAKE i \in 1..Len(t.entries)
  <2>1. CASE i <= Len(entries)
    <3>1. i \in 1..Len(entries)
      BY <1>4, <2>1
    <3>. QED BY <1>3, <1>15, <3>1 DEF LostRows
  <2>2. CASE ~(i <= Len(entries))
    <3>1. i > Len(entries)
      BY <1>4, <1>16, <2>2
    <3>. QED BY <1>15, <3>1 DEF LostRows
  <2>. QED BY <2>1, <2>2
<1>20. stations' = t.stations
  BY <1>14 DEF Becomes
<1>21. AllKept'
  BY <1>1 DEF AllKept
<1>22. \A c \in Callers : /\ TimesOut(t.stations[c]) <=> TimesOut(st[c])
                          /\ Active(t.stations[c]) <=> Active(st[c])
                          /\ t.stations[c].waiting = st[c].waiting
  BY <1>15, SameSelfKeeps
<1>. DEFINE replying == {c \in due : TimesOut(st[c])}
<1>23. CASE replying = {}
  <2>1. timers' = (timers \ {"patience"}) \cup Patience(st) /\ air' = air
    BY <1>6, <1>23
  <2>2. /\ air' = Quiet /\ air' \in Airs /\ ~air'.on /\ air'.out = 0 /\ Len(air'.parts) = 0 /\ air'.yet = {}
        /\ air'.sounding = {} /\ air'.said = {} /\ air'.unheard = NoUnheard
    BY <1>3, <2>1, QuietIs
  <2>3. \A c \in Callers : TimesOut(stations[c]) => stations[c].waiting
    BY <1>1, <1>2, NobodyStandsNow DEF IInv
  <2>4. \A c \in Callers : TimesOut(st[c]) => st[c].waiting
    BY <1>8, <1>23, <2>3
  <2>5. NobodyStands'
    BY <1>1, <1>20, <1>22, <2>1, <2>4, PatienceIs, NobodyStandsThen
  <2>6. timers' \in SUBSET {"countdown", "run_end", "patience", "resume"} /\ "run_end" \in timers'
        /\ "resume" \notin timers'
    BY <1>1, <1>2, <2>1, PatienceIs
  <2>7. Again'
    BY <1>1, <1>2, <2>2, <2>6 DEF IInv, Again
  <2>8. Backed'
    BY <2>2, NoneBacked
  <2>9. \A c \in air'.yet \cup air'.sounding \cup air'.said \cup cutShort' : Came(t.stations, c)
    BY <1>1, <1>2, <2>2
  <2>. QED BY <1>1, <1>13, <1>14, <1>17, <1>18, <1>19, <1>21, <2>2, <2>5, <2>6, <2>7, <2>8, <2>9,
              StepThen
<1>24. CASE replying # {}
  <2>1. timers' = timers \ {"patience"} /\ Play(<<>>, {}, replying, {}, NoUnheard)
    BY <1>6, <1>24
  <2>2. replying \in SUBSET Callers
    BY <1>7
  <2>3. /\ air' \in Airs /\ air'.on /\ air'.out = 0 /\ air'.yet = replying
        /\ air'.sounding = {} /\ air'.said = {} /\ air'.unheard = NoUnheard
    BY <2>1, <2>2, NobodyIs, PlayIs
  <2>4. NobodyStands'
    BY <1>1, <2>3, NobodyStandsThen
  <2>5. timers' \in SUBSET {"countdown", "run_end", "patience", "resume"} /\ "run_end" \in timers'
        /\ "resume" \notin timers'
    BY <1>1, <1>2, <2>1
  <2>6. Again'
    BY <1>1, <1>2, <2>3, <2>5 DEF IInv, Again
  <2>7. Backed'
    BY <2>3, NoneBacked
  <2>8. \A c \in air'.yet \cup air'.sounding \cup air'.said \cup cutShort' : Came(t.stations, c)
    <3>1. \A c \in replying : c \in Callers /\ TimesOut(t.stations[c])
      BY <1>7, <1>22
    <3>. QED BY <1>1, <1>2, <2>3, <3>1 DEF TimesOut, Active, Worked, Came
  <2>9. air'.out <= Len(air'.parts)
    BY <2>3, AirIs
  <2>. QED BY <1>1, <1>13, <1>14, <1>17, <1>18, <1>19, <1>21, <2>3, <2>4, <2>5, <2>6, <2>7, <2>8,
              <2>9, StepThen
<1>. QED BY <1>23, <1>24

-----------------------------------------------------------------------------
(***************************************************************************)
(* A message is keyed, and may be taken back.                              *)
(***************************************************************************)
LEMMA UnhurriedCalm ==
  ASSUME Whole(Now)
  PROVE  Calmed(stations, Unhurried) /\ Unhurried \in [Callers -> Station]
<1>1. PICK no \in BOOLEAN : no = FALSE
  OBVIOUS
<1>2. Unhurried = [c \in Callers |-> [stations[c] EXCEPT !.waiting = no]]
  BY <1>1 DEF Unhurried
<1>3. stations \in [Callers -> Station]
  BY NowTypes
<1>4. Calmed(stations, Unhurried)
  BY <1>2, <1>3, WaitingCalm DEF Calmed
<1>. QED BY <1>3, <1>4, CalmIsCalmly DEF Calmly

\* What is kept of the callers as a message is keyed.
KeptFor(b, joined, lostFrom, n) ==
  /\ b \in Keyed /\ b # NoUnheard /\ b.stations = Unhurried
  /\ b.kept = Kept \cup {c \in joined : stations[c].state # "NotCome"}
  /\ b.working = working /\ b.thanked = thanked
  /\ b.lostFrom = lostFrom /\ b.entries = n

LEMMA BeforeIs ==
  ASSUME Whole(Now), NEW from \in Nat, NEW deaf \in SUBSET Callers, NEW joined \in SUBSET Callers,
         NEW lostFrom \in Nat, NEW n \in Nat,
         NEW b, b = Before(from, deaf, joined, lostFrom, n)
  PROVE  KeptFor(b, joined, lostFrom, n)
<1>. DEFINE more == Kept \cup {c \in joined : stations[c].state # "NotCome"}
<1>1. more \in SUBSET Callers
  BY DEF Kept
<1>2. PICK st \in [Callers -> Station], kept \in SUBSET Callers, with \in Some, closed \in Some :
        st = Unhurried /\ kept = more /\ with = working /\ closed = thanked
  BY <1>1, UnhurriedCalm, NowTypes
<1>3. b = [was |-> "keyed", stations |-> st, kept |-> kept, working |-> with,
           thanked |-> closed, from |-> from, deaf |-> deaf, lostFrom |-> lostFrom,
           entries |-> n]
  BY <1>2 DEF Before
<1>4. /\ b \in Keyed /\ b.stations = st /\ b.kept = kept /\ b.working = with
      /\ b.thanked = closed /\ b.lostFrom = lostFrom /\ b.entries = n /\ b.was = "keyed"
  BY <1>3 DEF Keyed
<1>5. NoUnheard.was = "none"
  BY DEF NoUnheard
<1>. QED BY <1>2, <1>4, <1>5 DEF KeptFor

\* Taken back, a message leaves the side as it was before it, but for what
\* waits.
LEMMA AsBeforeWhole ==
  ASSUME IInv, NEW before \in Keyed, before.stations = Unhurried, before.working = working,
         before.thanked = thanked, Kept \subseteq before.kept, before.lostFrom = Len(entries),
         NEW st2 \in [Callers -> Station], NEW l2 \in Seq(Row), GoesOn(entries, l2),
         \A c \in Callers \ before.kept : Came(stations, c) =>
           Came(st2, c) /\ (st2[c].recorded <=> stations[c].recorded)
  PROVE  Whole(Side(AsBefore(before, st2), before.working, before.thanked,
                    SubSeq(l2, 1, before.lostFrom)))
<1>. DEFINE n == Len(entries)
            st == AsBefore(before, st2)
            l == SubSeq(l2, 1, n)
<1>1. /\ stations \in [Callers -> Station] /\ working \in Some /\ thanked \in Some
      /\ entries \in Seq(Row) /\ n \in Nat /\ Whole(Now)
  BY NowTypes DEF IInv
<1>2. Calmed(stations, Unhurried) /\ Unhurried \in [Callers -> Station]
  BY <1>1, UnhurriedCalm
<1>3. n <= Len(l2)
  BY DEF GoesOn
<1>4. l \in Seq(Row) /\ Len(l) = n /\ \A i \in 1..n : l[i] = l2[i]
  BY <1>1, <1>3, CutBack
<1>5. GoesOn(entries, l)
  BY <1>1, <1>4 DEF GoesOn
<1>. HIDE DEF l
<1>6. ASSUME NEW c \in Callers
      PROVE  /\ st[c] \in Station
             /\ st[c].recorded <=> stations[c].recorded
             /\ Came(st, c) <=> Came(stations, c)
             /\ ~Came(st, c) => (st[c].engaged <=> stations[c].engaged)
  <2>1. /\ stations[c] \in Station /\ Unhurried[c] \in Station
        /\ Unhurried[c].state = stations[c].state /\ Unhurried[c].engaged = stations[c].engaged
        /\ Unhurried[c].recorded = stations[c].recorded
    BY <1>1, <1>2 DEF Calmed, Calm
  <2>2. CASE c \in before.kept
    <3>1. st[c] = Unhurried[c]
      BY <2>2 DEF AsBefore
    <3>. HIDE DEF st
    <3>. QED BY <2>1, <3>1 DEF Came
  <2>3. CASE c \notin before.kept /\ ~Came(stations, c)
    <3>1. st[c] = NotCome
      BY <2>1, <2>3 DEF AsBefore, Came
    <3>2. ~stations[c].recorded /\ ~stations[c].engaged
      BY <1>1, <2>3, NowIs DEF Whole
    <3>. HIDE DEF st
    <3>. QED BY <2>1, <2>3, <3>1, <3>2, NotComeIs DEF Came
  <2>4. CASE c \notin before.kept /\ Came(stations, c)
    <3>1. st[c] = st2[c]
      BY <2>1, <2>4 DEF AsBefore, Came
    <3>2. Came(st2, c) /\ (st2[c].recorded <=> stations[c].recorded)
      BY <2>4
    <3>. HIDE DEF st
    <3>. QED BY <2>4, <3>1, <3>2 DEF Came
  <2>. QED BY <2>2, <2>3, <2>4
<1>7. st \in [Callers -> Station]
  <2>1. st = [c \in Callers |-> st[c]]
    BY DEF AsBefore
  <2>. HIDE DEF st
  <2>. QED BY <1>6, <2>1
<1>. HIDE DEF st
<1>8. PICK t : t = Side(st, working, thanked, l)
  OBVIOUS
<1>9. /\ t \in Sides /\ t.stations = st /\ t.working = working /\ t.thanked = thanked /\ t.entries = l
  BY <1>1, <1>4, <1>7, <1>8 DEF Side, Sides
<1>10. /\ working # NoOne => Came(stations, working) /\ working \in Callers
       /\ thanked # NoOne => Came(stations, thanked) /\ thanked \in Callers
  BY <1>1, NowIs DEF Whole, Some
<1>11. Whole(t)
  BY <1>1, <1>4, <1>5, <1>6, <1>9, <1>10, NowIs, WholeAs
<1>. QED BY <1>8, <1>11 DEF st, l

LEMMA PartIs ==
  ASSUME NEW name \in PartNames
  PROVE  Part(name) \in Parts
BY DEF Part, Parts

LEMMA HisCallIs ==
  ASSUME NEW call \in Calls
  PROVE  HisCall(call) \in Parts
<1>1. PICK name \in PartNames : name = "HisCall"
  BY DEF PartNames
<1>2. HisCall(call) = [part |-> name, call |-> call]
  BY <1>1 DEF HisCall
<1>. QED BY <1>2 DEF Parts

LEMMA OnePart ==
  ASSUME NEW p \in Parts
  PROVE  <<p>> \in Seq(Parts) /\ Len(<<p>>) = 1
OBVIOUS

LEMMA BeginRunIInv ==
  ASSUME IInv, BeginRun
  PROVE  IInv' /\ Stands
<1>1. /\ run.phase = "Countdown" /\ run \in Runs /\ ~air.on /\ cutShort = {}
      /\ run' = [run EXCEPT !.phase = "Running", !.begun = TRUE] /\ timers' = {"run_end"}
      /\ style' = style /\ working' = working /\ thanked' = thanked /\ entries' = entries
      /\ taught' = taught /\ cutShort' = cutShort /\ keys' = keys /\ breaks' = breaks
      /\ keys' \in Nat /\ breaks' \in Nat /\ taught \in Nat /\ taught <= Len(entries)
  BY DEF BeginRun, log, IInv, Typed, TypeOK, Again
<1>2. run' \in Runs /\ run'.phase = "Running" /\ run'.begun
  <2>1. PICK yes \in BOOLEAN : yes = TRUE
    OBVIOUS
  <2>2. run' = [run EXCEPT !.phase = "Running", !.begun = yes]
    BY <1>1, <2>1
  <2>3. run' \in Runs /\ run'.phase = "Running" /\ run'.begun = yes
    BY <1>1, <2>2 DEF Runs
  <2>. QED BY <2>1, <2>3
<1>3. PICK joined \in Arrivals(Now, {}) :
        /\ stations' = Join(Now, joined).stations
        /\ Play(<<Part("Cq")>>, {}, joined, {}, Before(0, {}, {}, 0, 0))
  BY DEF BeginRun
<1>4. PICK t : t = Join(Now, joined)
  OBVIOUS
<1>5. /\ Whole(t) /\ t.entries = entries /\ t.working = working /\ t.thanked = thanked
      /\ Calmly(stations, t.stations)
      /\ \A c \in Callers \ joined : t.stations[c] = stations[c]
      /\ \A c \in Callers \cap joined : Active(t.stations[c])
           /\ (t.stations[c].engaged => t.stations[c].recorded)
  BY <1>4, NowIs, JoinIs DEF IInv
<1>6. joined \in SUBSET Callers
  BY <1>3 DEF Arrivals, Dupes
<1>7. Becomes(t)
  BY <1>1, <1>3, <1>4, <1>5 DEF Becomes
<1>8. NoneLeft(t)
  <2>1. \A c \in Callers \ joined : stations[c].engaged =>
          stations[c].recorded \/ Active(stations[c]) \/ c = thanked
    BY NowIs DEF IInv, NoneLeft
  <2>. QED BY <1>5, <2>1 DEF NoneLeft
<1>9. /\ stations \in [Callers -> Station] /\ entries \in Seq(Row) /\ Whole(Now)
      /\ Len(entries) \in Nat /\ working \in Some /\ DOMAIN entries = 1..Len(entries)
  BY NowTypes DEF IInv
<1>10. PICK before : before = Before(0, {}, {}, 0, 0)
  OBVIOUS
<1>11. /\ before \in Keyed /\ before # NoUnheard /\ before.stations = Unhurried
       /\ Kept \subseteq before.kept
       /\ before.working = working /\ before.thanked = thanked /\ before.lostFrom = 0
       /\ before.entries = 0
  <2>1. PICK nobody \in SUBSET Callers, zero \in Nat : nobody = {} /\ zero = 0
    OBVIOUS
  <2>2. before = Before(zero, nobody, nobody, zero, zero)
    BY <1>10, <2>1
  <2>3. Whole(Now)
    BY <1>9
  <2>4. KeptFor(before, nobody, zero, zero)
    BY <2>2, <2>3, BeforeIs
  <2>. QED BY <2>1, <2>4 DEF KeptFor
<1>12. <<Part("Cq")>> \in Seq(Parts) /\ Len(<<Part("Cq")>>) = 1
  <2>1. "Cq" \in PartNames
    BY DEF PartNames
  <2>. QED BY <2>1, PartIs, OnePart
<1>13. /\ air' \in Airs /\ air'.on /\ air'.parts = <<Part("Cq")>> /\ air'.out = 0 /\ air'.yet = joined
       /\ air'.sounding = {} /\ air'.said = {} /\ air'.unheard = before
  <2>1. PICK parts \in Seq(Parts), nobody \in SUBSET Callers, rows \in SUBSET Nat :
          parts = <<Part("Cq")>> /\ nobody = {} /\ rows = {}
    BY <1>12, NobodyIs
  <2>2. Play(parts, rows, joined, nobody, before)
    BY <1>3, <1>10, <2>1
  <2>. QED BY <1>6, <1>11, <2>1, <2>2, PlayIs
<1>14. \A i \in 1..Len(entries) : ~entries[i].pending
  BY <1>1, NonePending
<1>15. KeptRows(entries, t.entries) /\ GoesOn(entries, entries)
  BY <1>5, <1>9, GoesOnSelf, GoesOnKeeps
<1>16. t.working # NoOne => Active(t.stations[t.working])
  <2>1. working # NoOne => working \in Callers /\ Active(stations[working])
    BY OnFrequency
  <2>. QED BY <1>5, <2>1
<1>17. \A c \in air'.yet \cup air'.sounding \cup air'.said \cup cutShort' : Came(t.stations, c)
  BY <1>1, <1>5, <1>6, <1>13 DEF Active, Worked, Came
<1>18. Again' /\ AllKept'
  BY <1>1, <1>2, <1>13 DEF Again, AllKept
<1>19. NobodyStands'
  BY <1>1, <1>13, NobodyStandsThen
<1>20. stations' = t.stations
  BY <1>3, <1>4
<1>21. Backed'
  <2>1. air'.unheard.lostFrom <= air'.unheard.entries /\ air'.unheard.entries <= Len(entries')
    BY <1>1, <1>9, <1>11, <1>13
  <2>2. ASSUME Len(entries) = 0
        PROVE  Whole(Undone)'
    <3>1. \A c \in Callers \ before.kept : Came(stations, c) =>
            Came(stations', c) /\ (stations'[c].recorded <=> stations[c].recorded)
      BY <1>5, <1>20 DEF Calmly
    <3>2. stations' \in [Callers -> Station]
      BY <1>5, <1>20 DEF Calmly
    <3>3. PICK st2 : st2 = stations'
      OBVIOUS
    <3>4. Whole(Side(AsBefore(before, st2), before.working, before.thanked,
                     SubSeq(entries, 1, before.lostFrom)))
      BY <1>9, <1>11, <1>15, <2>2, <3>1, <3>2, <3>3, AsBeforeWhole
    <3>5. Undone' = Side(AsBefore(before, st2), before.working, before.thanked,
                         SubSeq(entries, 1, before.lostFrom))
      BY <1>1, <1>13, <3>3 DEF Undone
    <3>. QED BY <3>4, <3>5
  <2>3. Len(entries) = 0 => taught' <= 0 /\ DOMAIN entries' = {}
    BY <1>1, <1>9
  <2>. QED BY <1>1, <1>11, <1>13, <2>1, <2>2, <2>3 DEF Backed, Backing
<1>22. Len(t.entries) = 0 => air'.unheard.lostFrom <= Len(t.entries)
  BY <1>11, <1>13
<1>23. /\ air'.out <= Len(air'.parts) /\ cutShort' \in SUBSET Callers
       /\ timers' \in SUBSET {"countdown", "run_end", "patience", "resume"} /\ "run_end" \in timers'
  BY <1>1, <1>12, <1>13
<1>24. \A i \in 1..Len(t.entries) : t.entries[i].pending => air'.on /\ i \in air'.pending
  BY <1>5, <1>14
<1>25. taught <= Len(t.entries)
  BY <1>1, <1>5
<1>26. air'.unheard # NoUnheard /\ air'.unheard.entries = Len(t.entries) =>
         air'.unheard.lostFrom \in Nat /\ air'.unheard.lostFrom <= Len(t.entries)
  BY <1>11, <1>13, <1>22
<1>. QED BY <1>1, <1>2, <1>5, <1>7, <1>8, <1>13, <1>15, <1>16, <1>17, <1>18, <1>19, <1>21, <1>23,
            <1>24, <1>25, <1>26, StepThen

\* What Esc leaves: the QSOs before the message, but for what of it went out
\* and what that lost.
LEMMA UndoneIs ==
  ASSUME IInv, Untold, air.out < Len(air.parts)
  PROVE  /\ Whole(Undone) /\ air.unheard \in Keyed
         /\ air.unheard.lostFrom \in Nat /\ air.unheard.lostFrom <= Len(entries)
         /\ taught <= air.unheard.lostFrom
         /\ \A i \in 1..Len(entries) : i > air.unheard.lostFrom => entries[i].kind = "lost"
         /\ Undone.entries \in Seq(Row) /\ Len(Undone.entries) = air.unheard.lostFrom
         /\ \A i \in 1..air.unheard.lostFrom : Undone.entries[i] = entries[i]
         /\ \A c \in air.sounding : Came(Undone.stations, c)
<1>1. /\ air.unheard \in Keyed /\ air.unheard.entries = Len(entries)
      /\ air.unheard.lostFrom \in Nat
  <2>1. air.unheard \in {NoUnheard} \cup Keyed /\ air.unheard # NoUnheard
    BY AirIs DEF IInv, Typed, Untold
  <2>. QED BY <2>1 DEF Untold, Keyed
<1>2. entries \in Seq(Row) /\ Len(entries) \in Nat /\ DOMAIN entries = 1..Len(entries)
  BY NowTypes DEF IInv
<1>3. /\ air.unheard.lostFrom <= Len(entries) /\ Whole(Undone) /\ taught <= air.unheard.lostFrom
      /\ \A i \in 1..Len(entries) : i > air.unheard.lostFrom => entries[i].kind = "lost"
      /\ \A c \in air.sounding : Came(air.unheard.stations, c)
  BY <1>1, <1>2 DEF IInv, Backed, Backing, Untold
<1>4. PICK n \in Nat : n = air.unheard.lostFrom
  BY <1>1
<1>5. /\ Undone.entries = SubSeq(entries, 1, n)
      /\ Undone.stations = AsBefore(air.unheard, stations)
  BY <1>4 DEF Undone, Side
<1>6. /\ Undone.entries \in Seq(Row) /\ Len(Undone.entries) = n
      /\ \A i \in 1..n : Undone.entries[i] = entries[i]
  BY <1>2, <1>3, <1>4, <1>5, CutBack
<1>7. ASSUME NEW c \in air.sounding
      PROVE  Came(Undone.stations, c)
  <2>1. c \in Callers /\ Came(stations, c) /\ Came(air.unheard.stations, c)
    BY <1>3, OnFrequency
  <2>2. Undone.stations[c] \in {air.unheard.stations[c], stations[c]}
    BY <1>5, <2>1 DEF AsBefore, Came
  <2>. QED BY <2>1, <2>2 DEF Came
<1>. QED BY <1>1, <1>3, <1>4, <1>6, <1>7

LEMMA SentIs ==
  ASSUME IInv, air.unheard \in Keyed
  PROVE  Len(SubSeq(air.parts, Least(air.unheard.from, air.out) + 1, air.out)) \in Nat
<1>1. /\ air.parts \in Seq(Parts) /\ air.out \in Nat /\ Len(air.parts) \in Nat
      /\ air.out <= Len(air.parts) /\ air.unheard.from \in Nat
  BY AirIs DEF IInv, Typed, Keyed
<1>2. PICK m \in Int, n \in Int : m = Least(air.unheard.from, air.out) + 1 /\ n = air.out
  BY <1>1 DEF Least
<1>3. m >= 1 /\ n <= Len(air.parts)
  BY <1>1, <1>2 DEF Least
<1>4. \A i \in m..n : air.parts[i] \in Parts
  <2>1. m..n \subseteq 1..Len(air.parts)
    BY <1>1, <1>2, <1>3
  <2>. QED BY <1>1, <2>1, ElementOfSeq
<1>5. SubSeq(air.parts, m, n) \in Seq(Parts)
  BY <1>4, SubSeqProperties
<1>. QED BY <1>2, <1>5

LEMMA TakenBackIs ==
  ASSUME IInv, run.phase = "Running", air.out < Len(air.parts), NEW back \in TakenBack
  PROVE  /\ Whole(back) /\ NoneLeft(back)
         /\ back.working # NoOne => Active(back.stations[back.working])
         /\ KeptRows(entries, back.entries) /\ taught <= Len(back.entries)
         /\ \A c \in air.sounding : Came(back.stations, c)
         /\ \A i \in 1..Len(back.entries) : back.entries[i].pending => i \in air.pending
<1>1. entries \in Seq(Row) /\ Len(entries) \in Nat /\ DOMAIN entries = 1..Len(entries) /\ taught \in Nat
  BY NowTypes DEF IInv, Typed
<1>2. \A i \in 1..Len(entries) : entries[i].pending => i \in air.pending
  BY <1>1 DEF IInv, ChecksComeOut
<1>3. CASE ~Untold
  <2>1. back = Now
    BY <1>3 DEF TakenBack
  <2>2. KeptRows(entries, entries)
    BY <1>1, GoesOnSelf, GoesOnKeeps
  <2>. QED BY <1>2, <2>1, <2>2, NowIs, OnFrequency DEF IInv, TypeOK
<1>4. CASE Untold
  <2>. DEFINE sent == SubSeq(air.parts, Least(air.unheard.from, air.out) + 1, air.out)
              with == air.unheard.working
  <2>1. PICK u : u = Undone
    OBVIOUS
  <2>2. PICK n \in Nat : n = air.unheard.lostFrom
    BY <1>4, UndoneIs
  <2>3. /\ Whole(u) /\ air.unheard \in Keyed /\ n <= Len(entries) /\ taught <= n
        /\ \A i \in 1..Len(entries) : i > n => entries[i].kind = "lost"
        /\ u.entries \in Seq(Row) /\ Len(u.entries) = n
        /\ \A i \in 1..n : u.entries[i] = entries[i]
        /\ \A c \in air.sounding : Came(u.stations, c)
    BY <1>4, <2>1, <2>2, UndoneIs
  <2>4. Len(sent) \in Nat /\ with \in Some
    BY <2>3, SentIs DEF Keyed
  <2>5. PICK heard \in AllHear(u, sent, air.unheard.deaf) :
          back = CloseFinished(Thank(heard.side, with, sent))
    BY <1>4, <2>1 DEF TakenBack, Unhear
  <2>. HIDE DEF sent, with
  <2>6. Whole(heard.side) /\ HeardBy(u, heard.side)
    BY <2>3, <2>4, <2>5, AllHearIs
  <2>7. PICK v : v = Thank(heard.side, with, sent)
    OBVIOUS
  <2>8. /\ Whole(v) /\ v.stations = heard.side.stations /\ v.entries = heard.side.entries
    BY <2>4, <2>6, <2>7, ThankIs
  <2>9. /\ Whole(back) /\ NoneLeft(back) /\ Closed(v, back)
        /\ back.working # NoOne => Active(back.stations[back.working])
    BY <2>5, <2>7, <2>8, CloseFinishedIs
  <2>10. LostRows(u.entries, back.entries) /\ back.entries \in Seq(Row) /\ Len(back.entries) \in Nat
    BY <2>6, <2>8, <2>9, SideTypes DEF Closed, HeardBy, Whole
  <2>11. n <= Len(back.entries) /\ \A i \in 1..n : back.entries[i] = entries[i]
    BY <2>3, <2>10 DEF LostRows
  <2>12. \A c \in air.sounding : Came(back.stations, c)
    <3>. TAKE c \in air.sounding
    <3>1. c \in Callers /\ Came(u.stations, c)
      BY <2>3, OnFrequency
    <3>2. Came(v.stations, c)
      BY <2>6, <2>8, <3>1 DEF HeardBy, Came
    <3>. QED BY <2>9, <3>1, <3>2 DEF Closed, SameSelf, Came
  <2>13. KeptRows(entries, back.entries)
    <3>. SUFFICES ASSUME NEW i \in 1..Len(entries), NEW j \in 1..Len(entries), i <= j,
                         entries[j].kind # "lost"
                  PROVE  i <= Len(back.entries) /\ SameRow(entries[i], back.entries[i])
      BY <1>1 DEF KeptRows
    <3>1. ~(j > n)
      BY <2>3
    <3>2. i \in 1..n /\ i <= Len(back.entries)
      BY <1>1, <2>10, <2>11, <3>1
    <3>. QED BY <2>11, <3>2 DEF SameRow
  <2>14. \A i \in 1..Len(back.entries) : back.entries[i].pending => i \in air.pending
    <3>. SUFFICES ASSUME NEW i \in 1..Len(back.entries), back.entries[i].pending
                  PROVE  i \in air.pending
      OBVIOUS
    <3>1. ~(i > n)
      BY <2>3, <2>10 DEF LostRows
    <3>2. i \in 1..n /\ i \in 1..Len(entries)
      BY <1>1, <2>3, <2>10, <3>1
    <3>. QED BY <1>2, <2>11, <3>2
  <2>15. taught <= Len(back.entries)
    BY <1>1, <2>3, <2>10, <2>11
  <2>. QED BY <2>9, <2>12, <2>13, <2>14, <2>15
<1>. QED BY <1>3, <1>4

LEMMA StopSendingIInv ==
  ASSUME IInv, StopSending
  PROVE  IInv' /\ Stands
<1>1. /\ run.phase = "Running" /\ air.on /\ style' = style /\ run' = run /\ cutShort' = cutShort
      /\ keys' = keys /\ Teach /\ ToGo # <<>> /\ breaks' = breaks + 1
      /\ run' \in Runs /\ keys' \in Nat /\ breaks \in Nat
      /\ timers \in SUBSET {"countdown", "run_end", "patience", "resume"} /\ "run_end" \in timers
      /\ cutShort' = {} /\ "resume" \notin timers /\ taught \in Nat
  BY DEF StopSending, Breaks, IInv, Typed, TypeOK, Again
<1>2. breaks' \in Nat /\ cutShort' \in SUBSET Callers
  BY <1>1
<1>3. air.out < Len(air.parts) /\ air.sounding \in SUBSET Callers
  <2>1. /\ air \in Airs /\ air.out \in Nat /\ Len(air.parts) \in Nat /\ air.out <= Len(air.parts)
        /\ air.sounding \in SUBSET Callers
    BY AirIs DEF IInv, Typed
  <2>. QED BY <1>1, <2>1, ToGoIs
<1>. DEFINE Listening(back) ==
              {c \in ActiveIn(back.stations) \ air.sounding : ~Waits(back.stations[c])}
            Then(back, st) ==
              /\ Becomes(Resolved([back EXCEPT !.stations = st], air.pending))
              /\ IF Listening(back) \cup air.sounding = {}
                   THEN air' = Quiet /\ timers' = timers \cup Patience(st)
                   ELSE Play(<<>>, {}, Listening(back), air.sounding, NoUnheard) /\ UNCHANGED timers
<1>4. PICK back \in TakenBack : Then(back, StartWaits(Rouse(back.stations, Listening(back))))
  BY DEF StopSending
<1>5. PICK listening, sounding : listening = Listening(back) /\ sounding = air.sounding
  OBVIOUS
<1>6. /\ listening \in SUBSET Callers /\ sounding \in SUBSET Callers
      /\ \A c \in listening : Active(back.stations[c])
  BY <1>3, <1>5 DEF ActiveIn
<1>7. /\ Whole(back) /\ NoneLeft(back)
      /\ back.working # NoOne => Active(back.stations[back.working])
      /\ KeptRows(entries, back.entries) /\ taught <= Len(back.entries)
      /\ \A c \in sounding : Came(back.stations, c)
      /\ \A i \in 1..Len(back.entries) : back.entries[i].pending => i \in air.pending
  BY <1>1, <1>3, <1>4, <1>5, TakenBackIs
<1>8. back.stations \in [Callers -> Station] /\ back.working \in Some
  BY <1>7, SideTypes DEF Whole
<1>9. PICK roused : roused = Rouse(back.stations, listening)
  OBVIOUS
<1>10. PICK st : st = StartWaits(roused)
  OBVIOUS
<1>11. Then(back, st)
  BY <1>4, <1>5, <1>9, <1>10
<1>12. Calmed(back.stations, roused)
  BY <1>8, <1>9, RouseCalm
<1>13. roused \in [Callers -> Station]
  BY <1>8, <1>12, CalmIsCalmly DEF Calmly
<1>14. Calmed(back.stations, st) /\ \A c \in Callers : TimesOut(st[c]) => st[c].waiting
  <2>1. Calmed(roused, st) /\ \A c \in Callers : TimesOut(st[c]) => st[c].waiting
    BY <1>10, <1>13, StartWaitsCalm
  <2>. QED BY <1>12, <2>1, CalmedAgain
<1>15. /\ \A c \in Callers : Active(st[c]) <=> Active(back.stations[c])
       /\ \A c \in Callers : Came(st, c) <=> Came(back.stations, c)
  BY <1>8, <1>14, CalmIsCalmly
<1>16. PICK side : side = [back EXCEPT !.stations = st]
  OBVIOUS
<1>17. /\ Whole(side) /\ side.stations = st /\ side.entries = back.entries
       /\ side.working = back.working /\ side.thanked = back.thanked /\ NoneLeft(side)
  BY <1>7, <1>14, <1>16, CalmSide
<1>18. PICK t : t = Resolved(side, air.pending)
  OBVIOUS
<1>19. /\ Whole(t) /\ t.stations = st /\ t.working = back.working /\ t.thanked = back.thanked
       /\ Len(t.entries) = Len(back.entries) /\ GoesOn(back.entries, t.entries)
       /\ \A i \in 1..Len(back.entries) :
            t.entries[i].pending <=> back.entries[i].pending /\ i \notin air.pending
  BY <1>17, <1>18, ResolvedIs
<1>20. Becomes(t)
  BY <1>11, <1>16, <1>18
<1>21. NoneLeft(t)
  BY <1>17, <1>19 DEF NoneLeft
<1>22. t.working # NoOne => Active(t.stations[t.working])
  <2>1. back.working # NoOne => back.working \in Callers
    BY <1>8 DEF Some
  <2>. QED BY <1>7, <1>15, <1>19, <2>1
<1>23. \A i \in 1..Len(t.entries) : ~t.entries[i].pending
  BY <1>7, <1>19
<1>24. KeptRows(entries, t.entries) /\ taught <= Len(t.entries)
  <2>1. /\ entries \in Seq(Row) /\ DOMAIN entries = 1..Len(entries) /\ Len(entries) \in Nat
        /\ back.entries \in Seq(Row) /\ t.entries \in Seq(Row) /\ Len(back.entries) \in Nat
    BY <1>7, <1>19, NowTypes, SideTypes DEF IInv, Whole
  <2>2. KeptRows(entries, t.entries)
    <3>. SUFFICES ASSUME NEW i \in 1..Len(entries), NEW j \in 1..Len(entries), i <= j,
                         entries[j].kind # "lost"
                  PROVE  i <= Len(t.entries) /\ SameRow(entries[i], t.entries[i])
      BY <2>1 DEF KeptRows
    <3>1. i <= Len(back.entries) /\ SameRow(entries[i], back.entries[i])
      BY <1>7, <2>1 DEF KeptRows
    <3>2. i \in 1..Len(back.entries)
      BY <2>1, <3>1
    <3>. QED BY <1>19, <3>1, <3>2 DEF GoesOn, SameRow
  <2>. QED BY <1>7, <1>19, <2>2
<1>25. stations' = st
  BY <1>19, <1>20 DEF Becomes
<1>26. AllKept'
  BY <1>1 DEF AllKept
<1>27. CASE listening \cup sounding = {}
  <2>1. air' = Quiet /\ timers' = timers \cup Patience(st)
    BY <1>5, <1>11, <1>27
  <2>2. /\ air' = Quiet /\ air' \in Airs /\ ~air'.on /\ air'.out = 0 /\ Len(air'.parts) = 0
        /\ air'.yet = {} /\ air'.sounding = {} /\ air'.said = {} /\ air'.unheard = NoUnheard
    BY <2>1, QuietIs
  <2>3. timers' \in SUBSET {"countdown", "run_end", "patience", "resume"} /\ "run_end" \in timers'
        /\ "resume" \notin timers'
    BY <1>1, <2>1, PatienceIs
  <2>4. Again'
    BY <1>1, <2>2, <2>3 DEF IInv, Again
  <2>5. NobodyStands'
    BY <1>1, <1>14, <1>25, <2>1, PatienceIs, NobodyStandsThen
  <2>6. Backed'
    BY <2>2, NoneBacked
  <2>7. \A c \in air'.yet \cup air'.sounding \cup air'.said \cup cutShort' : Came(t.stations, c)
    BY <1>1, <2>2
  <2>. QED BY <1>1, <1>2, <1>19, <1>20, <1>21, <1>22, <1>23, <1>24, <1>26, <2>2, <2>3, <2>4, <2>5,
              <2>6, <2>7, StepThen
<1>28. CASE listening \cup sounding # {}
  <2>1. Play(<<>>, {}, listening, sounding, NoUnheard) /\ timers' = timers
    BY <1>5, <1>11, <1>28
  <2>2. /\ air' \in Airs /\ air'.on /\ air'.parts = <<>> /\ air'.out = 0 /\ air'.yet = listening
        /\ air'.sounding = sounding /\ air'.said = {} /\ air'.unheard = NoUnheard
    BY <1>6, <2>1, NobodyIs, PlayIs
  <2>3. timers' \in SUBSET {"countdown", "run_end", "patience", "resume"} /\ "run_end" \in timers'
        /\ "resume" \notin timers'
    BY <1>1, <2>1
  <2>4. Again'
    BY <1>1, <2>2, <2>3 DEF IInv, Again
  <2>5. NobodyStands'
    BY <1>1, <2>2, NobodyStandsThen
  <2>6. Backed'
    BY <2>2, NoneBacked
  <2>7. \A c \in air'.yet \cup air'.sounding \cup air'.said \cup cutShort' : Came(t.stations, c)
    <3>1. \A c \in listening : Came(t.stations, c)
      BY <1>6, <1>15, <1>19 DEF Active, Worked, Came
    <3>2. \A c \in sounding : Came(t.stations, c)
      BY <1>6, <1>7, <1>15, <1>19
    <3>. QED BY <1>1, <2>2, <3>1, <3>2
  <2>8. air'.out <= Len(air'.parts)
    BY <2>2, AirIs
  <2>. QED BY <1>1, <1>2, <1>19, <1>20, <1>21, <1>22, <1>23, <1>24, <1>26, <2>2, <2>3, <2>4, <2>5,
              <2>6, <2>7, <2>8, StepThen
<1>. QED BY <1>27, <1>28

LEMMA ForAnyoneCalm ==
  ASSUME NEW st \in [Callers -> Station]
  PROVE  Calmed(st, ForAnyone(st))
<1>. DEFINE st2 == ForAnyone(st)
<1>1. st2 = [c \in Callers |-> st2[c]]
  BY DEF ForAnyone
<1>2. ASSUME NEW c \in Callers
      PROVE  Calm(st[c], st2[c])
  <2>1. st2[c] = [st[c] EXCEPT !.other = FALSE]
    BY DEF ForAnyone
  <2>. HIDE DEF st2
  <2>. QED BY <2>1, OtherCalm
<1>. QED BY <1>1, <1>2 DEF Calmed

\* Those who reply to a message are among the callers.
LEMMA ReplyingIs ==
  ASSUME NEW side, NEW message, NEW deaf, NEW heard \in AllHear(side, message, deaf)
  PROVE  heard.replying \subseteq Callers
<1>1. PICK h \in Ways(side, message, deaf) :
        \E with \in WorksNext(side.working, message, h) : heard = Outcome(side, h, with)
  BY Zenon DEF AllHear
<1>2. PICK with : heard = Outcome(side, h, with)
  BY <1>1
<1>3. DOMAIN h \subseteq Callers
  BY DEF Ways
<1>4. heard.replying = {c \in DOMAIN h : Replies(h[c])}
  BY <1>2 DEF Outcome
<1>. QED BY <1>3, <1>4

\* Those who may never hear the message are sending.
LEMMA DeafIs ==
  ASSUME NEW message, NEW deaf \in DeafTo(message), NEW garbled \in KeyedOver(message, deaf)
  PROVE  deaf \subseteq air.sounding /\ garbled \subseteq deaf
BY DEF DeafTo, KeyedOver

\* The callers hear a message keyed, the turn before it cut off, and those it
\* was keyed over are roused: what they are then.
KeyedOut(t, rows) ==
  /\ Whole(t) /\ GoesOn(entries, t.entries) /\ Len(t.entries) = Len(entries)
  /\ \A i \in 1..Len(entries) : t.entries[i].pending <=> entries[i].pending /\ i \notin rows
  /\ \A c \in Callers : t.stations[c].recorded <=> stations[c].recorded
  /\ \A c \in Callers : Came(stations, c) => Came(t.stations, c)
  /\ \A c \in Callers : ~Active(stations[c]) => (t.stations[c].engaged <=> stations[c].engaged)

LEMMA HeardOut ==
  ASSUME NEW rows, NEW cut, GoesOn(entries, cut.entries), Len(cut.entries) = Len(entries),
         \A i \in 1..Len(entries) : cut.entries[i].pending <=> entries[i].pending /\ i \notin rows,
         NEW u, Calmed(stations, u.stations), u.entries = cut.entries,
         NEW side, HeardBy(u, side),
         NEW t, Whole(t), Calmed(side.stations, t.stations), t.entries = side.entries
  PROVE  KeyedOut(t, rows)
<1>1. t.entries = cut.entries
  BY DEF HeardBy
<1>2. ASSUME NEW c \in Callers
      PROVE  /\ t.stations[c].recorded <=> stations[c].recorded
             /\ Came(stations, c) => Came(t.stations, c)
             /\ ~Active(stations[c]) => (t.stations[c].engaged <=> stations[c].engaged)
  <2>1. Calm(stations[c], u.stations[c]) /\ Calm(side.stations[c], t.stations[c])
    BY DEF Calmed
  <2>2. Active(u.stations[c]) <=> Active(stations[c])
    BY <2>1 DEF Calm, Active, Worked
  <2>3. /\ side.stations[c].recorded <=> u.stations[c].recorded
        /\ Came(u.stations, c) => Came(side.stations, c)
        /\ ~Active(u.stations[c]) => (side.stations[c].engaged <=> u.stations[c].engaged)
    BY DEF HeardBy
  <2>. QED BY <2>1, <2>2, <2>3 DEF Calm, Came
<1>. QED BY <1>1, <1>2 DEF KeyedOut

\* You have sent: the QSO is logged, or one is thanked.
SaidBy(side, said, logs) ==
  /\ Whole(said) /\ Len(side.entries) <= Len(said.entries)
  /\ \A c \in Callers : SameSelf(said.stations[c], side.stations[c])
  /\ \A i \in 1..Len(side.entries) : said.entries[i] = side.entries[i]
  /\ \A i \in 1..Len(said.entries) : i > Len(side.entries) /\ said.entries[i].pending =>
       logs # {} /\ i = Len(said.entries)
  /\ logs = {} => said.stations = side.stations /\ said.entries = side.entries

LEMMA SaidIs ==
  ASSUME NEW side, Whole(side), NEW with \in Some, NEW message, NEW logs, NEW said,
         logs = {} => said = Thank(side, with, message),
         logs # {} => \E call \in logs : said \in Log(side, call)
  PROVE  SaidBy(side, said, logs)
<1>1. Len(side.entries) \in Nat
  BY SideTypes DEF Whole
<1>2. CASE logs = {}
  <2>1. said = Thank(side, with, message)
    BY <1>2
  <2>2. Whole(said) /\ said.stations = side.stations /\ said.entries = side.entries
    BY <2>1, ThankIs
  <2>3. \A i \in 1..Len(said.entries) : ~(i > Len(side.entries))
    BY <1>1, <2>2
  <2>4. Len(side.entries) <= Len(said.entries)
    BY <1>1, <2>2
  <2>. QED BY <1>2, <2>2, <2>3, <2>4 DEF SameSelf, SaidBy
<1>3. CASE logs # {}
  <2>1. PICK call \in logs : said \in Log(side, call)
    BY <1>3
  <2>2. Whole(said) /\ LoggedTo(side, said)
    BY <2>1, LogIs
  <2>3. Len(said.entries) \in Nat
    BY <2>2, SideTypes DEF Whole
  <2>4. Len(side.entries) <= Len(said.entries)
    BY <1>1, <2>2, <2>3 DEF LoggedTo
  <2>. QED BY <1>3, <2>2, <2>4 DEF LoggedTo, SaidBy
<1>. QED BY <1>2, <1>3

\* It may be that nobody comes.
LEMMA NobodyComes ==
  ASSUME NEW side, NEW kept
  PROVE  {} \in Arrivals(side, kept)
BY DEF Arrivals

\* A message keyed keeps the invariant: the callers hear it, you log or thank,
\* others come, and those who left are lost.
LEMMA SendIInv ==
  ASSUME IInv, NEW message \in Seq(Parts), NEW logs, NEW empty, Send(message, logs, empty)
  PROVE  IInv' /\ Stands
<1>. DEFINE cut == Resolved(Now, air.pending \ PendingOn)
            by == IF Has(message, "Again") /\ empty THEN ForAnyone(Unhurried) ELSE Unhurried
            Roused(heard, garbled) == [heard.side EXCEPT !.stations = Rouse(@, garbled)]
            Saids(roused) == IF logs = {} THEN {Thank(roused, working, message)}
                             ELSE UNION {Log(roused, call) : call \in logs}
            Joins(said) == IF BringsCallers(said, message) THEN Arrivals(said, Kept) ELSE {{}}
            Ends(deaf, garbled, heard, said, joined) ==
              LET came   == Join(said, joined)
                  closed == CloseFinished(came)
                  yet    == {c \in heard.replying \cup garbled \cup joined :
                               Active(closed.stations[c])}
                  before == Before(Len(ToGo), deaf, joined, Len(came.entries),
                                   Len(closed.entries))
                  row    == IF logs = {} THEN {} ELSE {Len(said.entries)}
              IN  /\ Becomes(closed)
                  /\ Play(ToGo \o message, PendingOn \cup row, yet, air.sounding,
                          IF logs = {} THEN before ELSE NoUnheard)
<1>1. \E deaf \in DeafTo(message) : \E garbled \in KeyedOver(message, deaf) :
      \E heard \in AllHear([cut EXCEPT !.stations = by], message, deaf) :
      \E said \in Saids(Roused(heard, garbled)) : \E joined \in Joins(said) :
        Ends(deaf, garbled, heard, said, joined)
  BY DEF Send
<1>2. PICK heardBy \in {Unhurried, ForAnyone(Unhurried)} : heardBy = by
  OBVIOUS
<1>3. PICK gone, cutOff, u : /\ gone = air.pending \ PendingOn /\ cutOff = Resolved(Now, gone)
                             /\ cutOff = cut /\ u = [cutOff EXCEPT !.stations = heardBy]
  OBVIOUS
<1>. HIDE DEF cut, by, Roused, Saids, Joins, Ends
<1>4. PICK deaf \in DeafTo(message) :
        \E garbled \in KeyedOver(message, deaf) :
        \E heard \in AllHear(u, message, deaf) :
        \E said \in Saids(Roused(heard, garbled)) : \E joined \in Joins(said) :
          Ends(deaf, garbled, heard, said, joined)
  BY <1>1, <1>2, <1>3
<1>5. PICK garbled \in KeyedOver(message, deaf) :
        \E heard \in AllHear(u, message, deaf) :
        \E said \in Saids(Roused(heard, garbled)) : \E joined \in Joins(said) :
          Ends(deaf, garbled, heard, said, joined)
  BY <1>4
<1>6. PICK heard \in AllHear(u, message, deaf) :
        \E said \in Saids(Roused(heard, garbled)) : \E joined \in Joins(said) :
          Ends(deaf, garbled, heard, said, joined)
  BY <1>5
<1>7. PICK awake, roused : /\ awake = Rouse(heard.side.stations, garbled)
                           /\ roused = Roused(heard, garbled)
  OBVIOUS
<1>8. PICK said \in Saids(roused) : \E joined \in Joins(said) : Ends(deaf, garbled, heard, said, joined)
  BY <1>6, <1>7
<1>9. PICK joined \in Joins(said) : Ends(deaf, garbled, heard, said, joined)
  BY <1>8
<1>10. roused = [heard.side EXCEPT !.stations = awake]
  BY <1>7 DEF Roused
<1>11. joined \in Arrivals(said, Kept)
  BY <1>9, NobodyComes DEF Joins
<1>12. PICK came : came = Join(said, joined)
  OBVIOUS
<1>13. PICK closed : closed = CloseFinished(came)
  OBVIOUS
<1>14. PICK yet : yet = {c \in heard.replying \cup garbled \cup joined : Active(closed.stations[c])}
  OBVIOUS
<1>15. PICK before : before = Before(Len(ToGo), deaf, joined, Len(came.entries), Len(closed.entries))
  OBVIOUS
<1>16. /\ Becomes(closed)
       /\ Play(ToGo \o message, PendingOn \cup (IF logs = {} THEN {} ELSE {Len(said.entries)}),
               yet, air.sounding, IF logs = {} THEN before ELSE NoUnheard)
  BY <1>9, <1>12, <1>13, <1>14, <1>15 DEF Ends
<1>17. /\ logs = {} => said = Thank(roused, working, message)
       /\ logs # {} => \E call \in logs : said \in Log(roused, call)
  BY <1>8 DEF Saids
<1>18. /\ run.phase = "Running" /\ style' = style /\ run' = run /\ cutShort' = {} /\ Teach
       /\ timers' = timers \ {"patience", "resume"} /\ run' \in Runs
       /\ cutShort' \in SUBSET Callers
       /\ timers' \in SUBSET {"countdown", "run_end", "patience", "resume"} /\ "run_end" \in timers'
       /\ "resume" \notin timers' /\ taught \in Nat /\ taught <= Len(entries)
  BY DEF Send, SendKeys, Keys, IInv, Typed, TypeOK
<1>19. keys' \in Nat /\ breaks' \in Nat
  <2>1. Keys /\ (Breaks \/ breaks' = breaks)
    BY DEF Send, SendKeys
  <2>. QED BY <2>1 DEF Keys, Breaks, IInv, Typed
<1>20. /\ stations \in [Callers -> Station] /\ entries \in Seq(Row) /\ Whole(Now)
       /\ Len(entries) \in Nat /\ working \in Some /\ DOMAIN entries = 1..Len(entries)
  BY NowTypes DEF IInv
<1>21. /\ air \in Airs /\ air.sounding \in SUBSET Callers /\ air.pending \in SUBSET Nat
       /\ ToGo \in Seq(Parts) /\ Len(ToGo) \in Nat
  BY AirIs, ToGoIs DEF IInv, Typed
<1>22. /\ deaf \in SUBSET Callers /\ garbled \in SUBSET Callers
  BY <1>4, <1>5, <1>21, DeafIs
<1>23. Calmed(stations, heardBy)
  <2>1. Calmed(stations, Unhurried) /\ Unhurried \in [Callers -> Station]
    BY <1>20, UnhurriedCalm
  <2>2. Calmed(Unhurried, ForAnyone(Unhurried))
    BY <2>1, ForAnyoneCalm
  <2>. QED BY <1>2, <2>1, <2>2, CalmedAgain
<1>24. Len(message) \in Nat
  OBVIOUS
<1>25. KeyedOut(roused, gone)
  <2>1. cutOff = Resolved(Now, gone) /\ u = [cutOff EXCEPT !.stations = heardBy]
    BY <1>3
  <2>2. /\ Whole(cutOff) /\ cutOff.stations = stations /\ Len(cutOff.entries) = Len(entries)
        /\ GoesOn(entries, cutOff.entries)
        /\ \A i \in 1..Len(entries) :
             cutOff.entries[i].pending <=> entries[i].pending /\ i \notin gone
    BY <1>20, <2>1, NowIs, ResolvedIs
  <2>3. Whole(u) /\ u.stations = heardBy /\ u.entries = cutOff.entries
    BY <1>23, <2>1, <2>2, CalmSide
  <2>4. Whole(heard.side) /\ HeardBy(u, heard.side)
    BY <1>24, <2>3, AllHearIs
  <2>5. Calmed(heard.side.stations, awake)
    BY <1>7, <2>4, RouseCalm, SideTypes DEF Whole
  <2>6. Whole(roused) /\ roused.stations = awake /\ roused.entries = heard.side.entries
    BY <1>10, <2>4, <2>5, CalmSide
  <2>. QED BY <1>23, <2>2, <2>3, <2>4, <2>5, <2>6, HeardOut
<1>26. /\ Whole(roused) /\ GoesOn(entries, roused.entries) /\ Len(roused.entries) = Len(entries)
       /\ \A i \in 1..Len(entries) : roused.entries[i].pending <=> entries[i].pending /\ i \notin gone
       /\ \A c \in Callers : roused.stations[c].recorded <=> stations[c].recorded
       /\ \A c \in Callers : Came(stations, c) => Came(roused.stations, c)
       /\ \A c \in Callers : ~Active(stations[c]) =>
            (roused.stations[c].engaged <=> stations[c].engaged)
  BY <1>25 DEF KeyedOut
<1>27. SaidBy(roused, said, logs)
  BY <1>17, <1>20, <1>26, SaidIs
<1>28. /\ Whole(said) /\ Len(roused.entries) <= Len(said.entries)
       /\ \A c \in Callers : SameSelf(said.stations[c], roused.stations[c])
       /\ \A i \in 1..Len(roused.entries) : said.entries[i] = roused.entries[i]
       /\ \A i \in 1..Len(said.entries) : i > Len(roused.entries) /\ said.entries[i].pending =>
            logs # {} /\ i = Len(said.entries)
       /\ logs = {} => said.stations = roused.stations /\ said.entries = roused.entries
  BY <1>27 DEF SaidBy
<1>29. /\ Whole(came) /\ came.entries = said.entries
       /\ Calmly(said.stations, came.stations)
       /\ \A c \in Callers \ joined : came.stations[c] = said.stations[c]
  BY <1>11, <1>12, <1>28, JoinIs
<1>30. /\ Whole(closed) /\ NoneLeft(closed) /\ Closed(came, closed)
       /\ closed.working # NoOne => Active(closed.stations[closed.working])
  BY <1>13, <1>29, CloseFinishedIs
<1>31. joined \in SUBSET Callers
  BY <1>11 DEF Arrivals, Dupes
<1>32. yet \in SUBSET Callers /\ \A c \in yet : Active(closed.stations[c])
  <2>1. heard.replying \subseteq Callers
    BY ReplyingIs
  <2>. QED BY <1>14, <1>22, <1>31, <2>1
<1>33. /\ roused.entries \in Seq(Row) /\ said.entries \in Seq(Row) /\ closed.entries \in Seq(Row)
       /\ Len(said.entries) \in Nat /\ Len(closed.entries) \in Nat
  BY <1>26, <1>28, <1>30, SideTypes DEF Whole
<1>34. LostRows(said.entries, closed.entries)
  BY <1>29, <1>30 DEF Closed
<1>35. /\ GoesOn(entries, closed.entries) /\ KeptRows(entries, closed.entries)
       /\ Len(entries) <= Len(closed.entries) /\ Len(said.entries) <= Len(closed.entries)
  <2>1. GoesOn(said.entries, closed.entries) /\ Len(said.entries) <= Len(closed.entries)
    BY <1>33, <1>34, LostRowsGoOn
  <2>2. GoesOn(roused.entries, said.entries)
    BY <1>28 DEF GoesOn, SameRow
  <2>3. GoesOn(entries, said.entries)
    BY <1>20, <1>26, <1>33, <2>2, GoesOnAgain
  <2>4. GoesOn(entries, closed.entries)
    BY <1>20, <1>33, <2>1, <2>3, GoesOnAgain
  <2>. QED BY <1>20, <1>33, <2>1, <2>4, GoesOnKeeps
<1>36. taught <= Len(closed.entries)
  BY <1>18, <1>20, <1>33, <1>35
<1>. DEFINE row == IF logs = {} THEN {} ELSE {Len(said.entries)}
            unheard == IF logs = {} THEN before ELSE NoUnheard
<1>37. row \in SUBSET Nat /\ PendingOn \in SUBSET Nat
  BY <1>21, <1>33 DEF PendingOn
<1>38. \A i \in 1..Len(closed.entries) : closed.entries[i].pending => i \in PendingOn \cup row
  <2>. SUFFICES ASSUME NEW i \in 1..Len(closed.entries), closed.entries[i].pending
                PROVE  i \in PendingOn \cup row
    OBVIOUS
  <2>1. ~(i > Len(said.entries))
    BY <1>34 DEF LostRows
  <2>2. i \in 1..Len(said.entries)
    BY <1>33, <2>1
  <2>3. said.entries[i].pending
    BY <1>34, <2>2 DEF LostRows
  <2>4. CASE i > Len(roused.entries)
    BY <1>28, <2>2, <2>3, <2>4
  <2>5. CASE ~(i > Len(roused.entries))
    <3>1. i \in 1..Len(roused.entries) /\ i \in 1..Len(entries)
      BY <1>20, <1>26, <2>2, <2>5
    <3>2. entries[i].pending /\ i \notin gone
      BY <1>26, <1>28, <2>3, <3>1
    <3>3. i \in air.pending
      BY <1>18, <1>20, <3>1, <3>2 DEF IInv, ChecksComeOut
    <3>. QED BY <1>3, <3>2, <3>3
  <2>. QED BY <2>4, <2>5
<1>39. /\ before \in Keyed /\ before # NoUnheard /\ before.stations = Unhurried
       /\ before.kept = Kept \cup {c \in joined : stations[c].state # "NotCome"}
       /\ before.working = working /\ before.thanked = thanked
       /\ before.lostFrom = Len(said.entries) /\ before.entries = Len(closed.entries)
  <2>1. PICK from \in Nat, lostFrom \in Nat, n \in Nat :
          from = Len(ToGo) /\ lostFrom = Len(said.entries) /\ n = Len(closed.entries)
    BY <1>21, <1>33
  <2>2. before = Before(from, deaf, joined, lostFrom, n)
    BY <1>15, <1>29, <2>1
  <2>3. Whole(Now)
    BY <1>20
  <2>4. KeptFor(before, joined, lostFrom, n)
    BY <1>22, <1>31, <2>2, <2>3, BeforeIs
  <2>. QED BY <2>1, <2>4 DEF KeptFor
<1>40. /\ air' \in Airs /\ air'.on /\ air'.parts = ToGo \o message /\ air'.out = 0 /\ air'.yet = yet
       /\ air'.sounding = air.sounding /\ air'.said = {} /\ air'.pending = PendingOn \cup row
       /\ air'.unheard = unheard
  <2>1. PICK parts \in Seq(Parts), pending \in SUBSET Nat, sounding \in SUBSET Callers,
             left \in {NoUnheard} \cup Keyed :
          /\ parts = ToGo \o message /\ pending = PendingOn \cup row
          /\ sounding = air.sounding /\ left = unheard
    BY <1>21, <1>37, <1>39, ConcatProperties
  <2>2. Play(parts, pending, yet, sounding, left)
    BY <1>16, <2>1
  <2>3. /\ air' \in Airs /\ air'.on /\ air'.parts = parts /\ air'.out = 0 /\ air'.yet = yet
        /\ air'.sounding = sounding /\ air'.said = {} /\ air'.pending = pending
        /\ air'.unheard = left
    BY <1>32, <2>2, PlayIs
  <2>. QED BY <2>1, <2>3
<1>41. air'.out <= Len(air'.parts)
  BY <1>40, AirIs
<1>42. \A c \in Callers : Came(stations, c) => Came(closed.stations, c)
  <2>. SUFFICES ASSUME NEW c \in Callers, Came(stations, c) PROVE Came(closed.stations, c)
    OBVIOUS
  <2>1. Came(said.stations, c)
    BY <1>26, <1>28 DEF SameSelf, Came
  <2>2. Came(came.stations, c)
    BY <1>29, <2>1 DEF Calmly
  <2>. QED BY <1>30, <2>2 DEF Closed, SameSelf, Came
<1>43. \A c \in air'.yet \cup air'.sounding \cup air'.said \cup cutShort' : Came(closed.stations, c)
  <2>1. \A c \in yet : Came(closed.stations, c)
    BY <1>32 DEF Active, Worked, Came
  <2>2. \A c \in air.sounding : Came(closed.stations, c)
    BY <1>42, OnFrequency
  <2>. QED BY <1>18, <1>40, <2>1, <2>2
<1>44. \A i \in 1..Len(closed.entries) : closed.entries[i].pending => air'.on /\ i \in air'.pending
  BY <1>38, <1>40
<1>45. Again' /\ AllKept' /\ NobodyStands'
  <2>1. Again'
    BY <1>18, <1>40 DEF IInv, Again
  <2>2. AllKept'
    BY <1>18 DEF AllKept
  <2>3. NobodyStands'
    BY <1>18, <1>40, NobodyStandsThen
  <2>. QED BY <2>1, <2>2, <2>3
<1>46. air'.unheard # NoUnheard /\ air'.unheard.entries = Len(closed.entries) =>
         air'.unheard.lostFrom \in Nat /\ air'.unheard.lostFrom <= Len(closed.entries)
  BY <1>33, <1>35, <1>39, <1>40
<1>47. Becomes(closed)
  BY <1>16
<1>48. /\ Backed' => IInv'
       /\ Stands
       /\ (air'.unheard # NoUnheard /\ air'.unheard.entries = Len(entries')
           /\ taught <= air'.unheard.lostFrom) => taught' <= air'.unheard.lostFrom
  BY <1>18, <1>19, <1>30, <1>35, <1>36, <1>40, <1>41, <1>43, <1>44, <1>45, <1>46, <1>47, StepThen
<1>49. stations' = closed.stations /\ entries' = closed.entries
  BY <1>47 DEF Becomes
<1>50. CASE logs # {}
  <2>1. air'.unheard = NoUnheard
    BY <1>40, <1>50
  <2>. QED BY <1>48, <2>1, NoneBacked
<1>51. CASE logs = {}
  <2>1. /\ air'.unheard = before /\ said.stations = roused.stations
        /\ before.lostFrom = Len(entries) /\ before.entries = Len(entries')
    BY <1>26, <1>28, <1>39, <1>40, <1>49, <1>51
  <2>2. taught' <= before.lostFrom
    BY <1>18, <1>39, <1>48, <2>1
  <2>3. \A i \in DOMAIN entries' : i > before.lostFrom => entries'[i].kind = "lost"
    <3>1. DOMAIN entries' = 1..Len(closed.entries)
      BY <1>33, <1>49
    <3>. QED BY <1>34, <1>39, <1>49, <3>1 DEF LostRows
  <2>4. ASSUME NEW c \in Callers \ before.kept, Came(stations, c)
        PROVE  /\ Came(closed.stations, c)
               /\ closed.stations[c].recorded <=> stations[c].recorded
    <3>1. c \notin joined /\ c \in Callers /\ ~Active(stations[c]) /\ c # thanked
      BY <1>39, <2>4 DEF Kept, Came
    <3>2. came.stations[c] = roused.stations[c]
      BY <1>29, <2>1, <3>1
    <3>3. /\ roused.stations[c].recorded <=> stations[c].recorded
          /\ roused.stations[c].engaged <=> stations[c].engaged
      BY <1>26, <3>1
    <3>4. stations[c].engaged => stations[c].recorded
      BY <3>1, NowIs DEF IInv, NoneLeft
    <3>5. /\ came.stations[c].recorded => closed.stations[c].recorded
          /\ closed.stations[c].recorded => came.stations[c].recorded \/ came.stations[c].engaged
      BY <1>30, <3>1 DEF Closed
    <3>. QED BY <1>42, <2>4, <3>2, <3>3, <3>4, <3>5
  <2>5. Whole(Undone)'
    <3>1. PICK st2 \in [Callers -> Station], l2 \in Seq(Row) :
            st2 = closed.stations /\ l2 = closed.entries
      BY <1>30, SideTypes DEF Whole
    <3>2. Whole(Side(AsBefore(before, st2), before.working, before.thanked,
                     SubSeq(l2, 1, before.lostFrom)))
      BY <1>35, <1>39, <2>1, <2>4, <3>1, AsBeforeWhole
    <3>3. Undone' = Side(AsBefore(before, st2), before.working, before.thanked,
                         SubSeq(l2, 1, before.lostFrom))
      BY <1>49, <2>1, <3>1 DEF Undone
    <3>. QED BY <3>2, <3>3
  <2>6. \A c \in air.sounding : Came(before.stations, c)
    <3>1. Calmed(stations, Unhurried)
      BY <1>20, UnhurriedCalm
    <3>. QED BY <1>39, <3>1, OnFrequency DEF Calmed, Calm, Came
  <2>7. before.lostFrom <= before.entries /\ before.entries <= Len(entries')
    BY <1>20, <1>33, <1>35, <1>49, <2>1
  <2>8. Backed'
    BY <1>40, <2>1, <2>2, <2>3, <2>5, <2>6, <2>7 DEF Backed, Backing
  <2>. QED BY <1>48, <2>8
<1>. QED BY <1>50, <1>51

LEMMA MessageIs ==
  ASSUME NEW message \in Messages
  PROVE  message \in Seq(Parts)
<1>1. PICK phrase \in Phrases, call \in Calls :
        message = [i \in DOMAIN phrase |-> IF phrase[i] = "HisCall" THEN HisCall(call)
                                           ELSE Part(phrase[i])]
  BY DEF Messages
<1>2. phrase \in Seq(PartNames)
  BY PhrasesAssumption
<1>3. PICK n \in Nat : n = Len(phrase) /\ DOMAIN phrase = 1..n
  BY <1>2
<1>4. ASSUME NEW i \in 1..n
      PROVE  (IF phrase[i] = "HisCall" THEN HisCall(call) ELSE Part(phrase[i])) \in Parts
  <2>1. phrase[i] \in PartNames
    BY <1>2, <1>3, ElementOfSeq
  <2>. QED BY <2>1, PartIs, HisCallIs
<1>5. message = [i \in 1..n |-> IF phrase[i] = "HisCall" THEN HisCall(call) ELSE Part(phrase[i])]
  BY <1>1, <1>3
<1>. QED BY <1>4, <1>5, IsASeq

LEMMA SendsKeyIInv ==
  ASSUME IInv, SendsKey
  PROVE  IInv' /\ Stands
<1>1. PICK message \in Messages : \E empty \in BOOLEAN : Send(message, {}, empty)
  BY DEF SendsKey
<1>2. PICK empty \in BOOLEAN : Send(message, {}, empty)
  BY <1>1
<1>. QED BY <1>2, MessageIs, SendIInv

LEMMA LogsKeyIInv ==
  ASSUME IInv, LogsKey
  PROVE  IInv' /\ Stands
<1>1. PICK call \in Loggable : \/ Send(<<Part("Tu")>>, {call}, FALSE)
                               \/ Send(<<HisCall(call), Part("Tu")>>, {call}, FALSE)
  BY DEF LogsKey
<1>2. Part("Tu") \in Parts /\ HisCall(call) \in Parts
  <2>1. "Tu" \in PartNames /\ call \in Calls
    BY DEF PartNames, Loggable
  <2>. QED BY <2>1, PartIs, HisCallIs
<1>3. /\ <<Part("Tu")>> \in Seq(Parts)
      /\ <<HisCall(call), Part("Tu")>> \in Seq(Parts)
  BY <1>2
<1>4. \E message \in Seq(Parts) : Send(message, {call}, FALSE)
  BY <1>1, <1>3
<1>. QED BY <1>4, SendIInv

-----------------------------------------------------------------------------
(***************************************************************************)
(* Every step keeps the invariant, and lets stand what stands.             *)
(***************************************************************************)
LEMMA LogStays ==
  ASSUME IInv, UNCHANGED log
  PROVE  Stands
BY LogStands DEF IInv

LEMMA StepIInv ==
  ASSUME IInv, Next
  PROVE  IInv' /\ Stands
<1>1. CASE SendsKey
  BY <1>1, SendsKeyIInv
<1>2. CASE LogsKey
  BY <1>2, LogsKeyIInv
<1>3. CASE LogOnly
  BY <1>3, LogOnlyIInv
<1>4. CASE StopSending
  BY <1>4, StopSendingIInv
<1>5. CASE PartOut
  <2>1. UNCHANGED log
    BY <1>5 DEF PartOut
  <2>. QED BY <1>5, <2>1, PartOutIInv, LogStays
<1>6. CASE ChecksShow
  BY <1>6, ChecksShowIInv
<1>7. CASE TurnEnded
  BY <1>7, TurnEndedIInv
<1>8. CASE PatienceRanOut
  BY <1>8, PatienceRanOutIInv
<1>9. CASE \E c \in Callers : SendBegins(c)
  <2>1. UNCHANGED log
    BY <1>9 DEF SendBegins
  <2>. QED BY <1>9, <2>1, SendBeginsIInv, LogStays
<1>10. CASE \E c \in Callers : SendEnds(c)
  <2>1. UNCHANGED log
    BY <1>10 DEF SendEnds
  <2>. QED BY <1>10, <2>1, SendEndsIInv, LogStays
<1>11. CASE \E c \in Callers : CallsOnTimeOut(c)
  <2>1. UNCHANGED log
    BY <1>11 DEF CallsOnTimeOut
  <2>. QED BY <1>11, <2>1, CallsOnTimeOutIInv, LogStays
<1>12. CASE CountsDown
  BY <1>12, CountsDownIInv
<1>13. CASE BeginRun
  BY <1>13, BeginRunIInv
<1>14. CASE CallersAgain
  BY <1>14, CallersAgainIInv
<1>15. CASE Resume
  BY <1>15, ResumeIInv
<1>16. CASE SoundFailed
  BY <1>16, SoundFailedIInv
<1>17. CASE \E why \in {"You", "Hidden"} : Pause(why)
  BY <1>17, PauseIInv
<1>18. CASE Finish
  BY <1>18, FinishIInv
<1>19. CASE Abort
  BY <1>19, AbortIInv
<1>20. CASE Over
  <2>1. UNCHANGED vars
    BY <1>20 DEF Over
  <2>2. UNCHANGED log
    BY <2>1 DEF vars
  <2>. QED BY <2>1, <2>2, StutterIInv, LogStays
<1>. QED BY <1>1, <1>2, <1>3, <1>4, <1>5, <1>6, <1>7, <1>8, <1>9, <1>10, <1>11, <1>12, <1>13, <1>14,
            <1>15, <1>16, <1>17, <1>18, <1>19, <1>20 DEF Next

LEMMA Inductive ==
  ASSUME IInv, [Next]_vars
  PROVE  IInv' /\ Stands
<1>1. CASE Next
  BY <1>1, StepIInv
<1>2. CASE UNCHANGED vars
  <2>1. UNCHANGED log
    BY <1>2 DEF vars
  <2>. QED BY <1>2, <2>1, StutterIInv, LogStays
<1>. QED BY <1>1, <1>2

\* In every behaviour of the run the invariant holds: what you see of the
\* stations, the log and the turn fits together, and what Esc would leave
\* does too.
THEOREM Invariant == Spec => []IInv
<1>1. Init => IInv
  BY InitIInv
<1>2. IInv /\ [Next]_vars => IInv'
  BY Inductive
<1>. QED BY <1>1, <1>2, PTL DEF Spec

\* Where the run is not running nothing sounds and no timer but the
\* countdown's is set; those on the air came; what is taught is in the log;
\* and whoever you work is on the frequency.
THEOREM TypeCorrect == Spec => []TypeOK
<1>1. IInv => TypeOK
  BY DEF IInv
<1>. QED BY <1>1, Invariant, PTL

\* However often a station calls again and Esc takes messages back, its copy
\* is in the log just where it is noted as kept, and there once.
THEOREM OneCopyEver == Spec => []OneCopy
<1>1. IInv => OneCopy
  <2>. SUFFICES ASSUME IInv, NEW c \in Callers
                PROVE  Cardinality(Copies(c)) = IF stations[c].recorded THEN 1 ELSE 0
    BY DEF OneCopy
  <2>1. /\ stations[c].recorded => \E i \in DOMAIN entries : KeepsOf(entries, c, i)
        /\ \A i \in DOMAIN entries : entries[i].station = c => stations[c].recorded
        /\ \A i, j \in DOMAIN entries :
             KeepsOf(entries, c, i) /\ KeepsOf(entries, c, j) => i = j
    BY NowIs DEF IInv, Whole, CopiesFit
  <2>2. Copies(c) = {i \in DOMAIN entries : KeepsOf(entries, c, i)}
    BY DEF Copies, KeepsOf
  <2>3. CASE stations[c].recorded
    <3>1. PICK i \in DOMAIN entries : KeepsOf(entries, c, i)
      BY <2>1, <2>3
    <3>2. Copies(c) = {i}
      BY <2>1, <2>2, <3>1
    <3>. QED BY <2>3, <3>2, FS_Singleton
  <2>4. CASE ~stations[c].recorded
    <3>1. Copies(c) = {}
      BY <2>1, <2>2, <2>4 DEF KeepsOf
    <3>. QED BY <2>4, <3>1, FS_EmptySet
  <2>. QED BY <2>3, <2>4
<1>. QED BY <1>1, Invariant, PTL

\* No station you worked leaves without a row of its QSO in the log, whatever
\* its leaving was, but for one your TU closed; and at the end of the run
\* there is no such station.
THEOREM NoneHiddenEver == Spec => []NoneHidden
<1>1. IInv => NoneHidden
  BY NowIs DEF IInv, NoneLeft, AllKept, NoneHidden
<1>. QED BY <1>1, Invariant, PTL

\* No check is left waiting once the turn it waits on has gone: sent out, cut
\* short by Esc, a pause, a sound that failed, or keyed over.
THEOREM ChecksComeOutEver == Spec => []ChecksComeOut
<1>1. IInv => ChecksComeOut
  BY DEF IInv
<1>. QED BY <1>1, Invariant, PTL

\* Whoever would give up waits, and the timer is set to it, whenever the air
\* is quiet: no caller stands for ever.
THEOREM NobodyStandsEver == Spec => []NobodyStands
<1>1. IInv => NobodyStands
  BY DEF IInv
<1>. QED BY <1>1, Invariant, PTL

\* A QSO logged, and every row before it, stays in the log as it is: Esc
\* takes back only rows of copies lost after it.
THEOREM LoggedIsFinalEver == Spec => LoggedIsFinal
<1>. DEFINE StaysLogged == \A i, j \in DOMAIN entries :
              i <= j /\ entries[j].kind # "lost" =>
                i <= Len(entries') /\ [entries'[i] EXCEPT !.pending = entries[i].pending] = entries[i]
<1>1. IInv /\ [Next]_vars => [StaysLogged]_vars
  <2>. SUFFICES ASSUME IInv, [Next]_vars, NEW i \in DOMAIN entries, NEW j \in DOMAIN entries,
                       i <= j, entries[j].kind # "lost"
                PROVE  /\ i <= Len(entries')
                       /\ [entries'[i] EXCEPT !.pending = entries[i].pending] = entries[i]
    OBVIOUS
  <2>1. Stands /\ Whole(Now) /\ Whole(Now)'
    BY Inductive DEF IInv
  <2>2. i <= Len(entries') /\ SameRow(entries[i], entries'[i])
    BY <2>1 DEF Stands, KeptRows
  <2>3. /\ entries \in Seq(Row) /\ DOMAIN entries = 1..Len(entries) /\ Len(entries) \in Nat
        /\ entries' \in Seq(Row) /\ Len(entries') \in Nat
    BY <2>1, NowTypes, NowTypesNext
  <2>4. entries[i] \in Row /\ entries'[i] \in Row
    <3>1. i \in 1..Len(entries) /\ i \in 1..Len(entries')
      BY <2>2, <2>3
    <3>. QED BY <2>3, <3>1, ElementOfSeq
  <2>5. PICK a \in Row, b \in Row : a = entries[i] /\ b = entries'[i]
    BY <2>4
  <2>6. [b EXCEPT !.pending = a.pending] = a
    BY <2>2, <2>5 DEF SameRow, Row
  <2>. QED BY <2>2, <2>5, <2>6
<1>. QED BY <1>1, Invariant, PTL DEF Spec, LoggedIsFinal

\* What has been taught stays taught: no entry the callers to come were drawn
\* from is taken back.
THEOREM TaughtStandsEver == Spec => TaughtStands
<1>1. IInv /\ [Next]_vars => [taught' >= taught]_vars
  BY Inductive DEF Stands
<1>. QED BY <1>1, Invariant, PTL DEF Spec, TaughtStands
=============================================================================
