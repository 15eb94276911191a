------------------------ MODULE SessionRuntime_proofs ------------------------
(***************************************************************************)
(* What a session promises, for any number of groups, answers, settings and*)
(* bounds, whatever happens to it.                                         *)
(*                                                                         *)
(* A session is a record that operators make another of, so the proof goes *)
(* by operators: each leaves a session that fits, Fits, where it was handed*)
(* one.  On its way through dispatch it may be amiss: a timer has run out  *)
(* that the machine still waits for, or a send has gone that it has yet to *)
(* hear of.  "due" and "amiss" say so, and what the machine makes of the   *)
(* event puts it right.                                                    *)
(*                                                                         *)
(* What is typed lies in a box beside it, and BoxHeard says that it comes  *)
(* to the same, while the app is never held back for long.                 *)
(***************************************************************************)
EXTENDS SessionRuntime, FiniteSetTheorems, WellFoundedInduction, TLAPS

\* How many groups have been answered.
Told(s) == Len(s.learned)

\* Timers and sends in flight.  A send becomes a timer, and a timer a send.
Room(s) == Cardinality(s.timers) + (IF s.sends = {} THEN 0 ELSE 1)

Still(s) == s.phase = "paused" \/ IsTerminal(s)

(***************************************************************************)
(* A session holds its audio, and sends, while it runs.  Amiss may be that *)
(* the audio is claimed for it while it is paused, that its send has       *)
(* failed, or ended, and it has not heard, or that one is tried again.     *)
(***************************************************************************)
Leased(s, amiss) ==
  /\ IsTerminal(s) <=> s.over # "no"
  /\ ~Still(s) => s.held
  /\ IsTerminal(s) => ~s.held
  /\ s.phase = "paused" /\ amiss # "claimed" => ~s.held
  /\ Still(s) => s.timers = {} /\ s.sends = {}
  /\ \A x, y \in s.sends : x = y
  /\ \A x \in s.sends : s.phase = "playing" /\ x.of = s.about
  /\ s.phase = "playing" => (s.sends = {} <=> amiss \in {"failed", "ended"})
  /\ ~IsTerminal(s) => (s.resume.kind = "none" <=> ~Paused(s))
  /\ ~Still(s) => \A g \in s.stopped : s.groups[g].done

\* The timers it waits for are two, and in flight, or due.
TimersFit(s, due) ==
  /\ s.phaseTimer # NoPhaseTimer => s.phaseTimer.id \in s.timers \cup due
  /\ s.auto # NoAuto => s.auto.id \in s.timers \cup due
  /\ s.phaseTimer # NoPhaseTimer /\ s.auto # NoAuto => s.phaseTimer.id # s.auto.id

\* And each is what its phase waits for.
Waits(s) ==
  /\ s.phase = "countdown" => s.phaseTimer.kind = "countdown"
  /\ s.phase = "interGroupGap" => s.phaseTimer.kind = "gap"
  /\ s.phase = "repeatGap" => s.phaseTimer.kind \in {"gap", "again"}
  /\ s.phase = "awaiting" /\ s.settings.window /\ ~s.begun => s.phaseTimer.kind = "window"

\* The groups before the next are answered, and those past it untouched.
Learned(s) ==
  /\ \A g \in Groups : s.groups[g].done <=> g < Told(s)
  /\ \A i \in 1 .. Told(s) : s.learned[i] = <<i - 1, s.groups[i - 1].input>>
  /\ \A g \in Groups : g > Told(s) => s.groups[g] = Blank
  /\ s.current \in {Told(s) - 1, Told(s)}
  /\ s.over = "kept" => Told(s) > 0

\* The next group is the one it is about.
AboutNext(s) ==
  /\ Answerable(s) => s.current = Told(s) /\ s.about = Told(s)
  /\ s.phase = "interGroupGap" => s.about = Told(s) /\ s.current = Told(s) - 1
  /\ s.phase = "countdown" => s.countdownTo = Told(s)
  /\ s.phase = "paused" =>
       /\ s.resume.of = Told(s) /\ s.about = Told(s)
       /\ s.resume.kind = "answer" => s.current = Told(s)

\* An answer of full length, and only one, is about to be confirmed, unless
\* it cannot be entered now.
FullLength(s) ==
  \A g \in Groups : ~s.groups[g].done =>
    (s.groups[g].complete <=> s.groups[g].input \in Whole)

Confirmed(s) ==
  /\ s.auto # NoAuto <=> (Answerable(s) /\ s.groups[s.about].complete)
  /\ s.auto # NoAuto => /\ s.auto.of = s.about
                        /\ s.auto.value = s.groups[s.about].input
                        /\ s.settings.lock => s.phase = "awaiting"
  /\ s.phase = "interGroupGap" => ~s.groups[s.about].complete
  /\ s.phase = "countdown" => ~s.groups[s.countdownTo].complete
  /\ s.phase = "paused" /\ s.resume.kind = "send" => ~s.groups[s.about].complete
  /\ Answerable(s) \/ (s.phase = "paused" /\ s.resume.kind = "answer") =>
       (s.groups[s.current].input # "none" => s.begun)

\* Keys from before a pause are never timed with keys from after it.
TimedRight(s) ==
  \A g \in Groups :
    LET grp == s.groups[g]
        toResume == s.resume.kind # "none" /\ s.resume.of = g
    IN  /\ grp.since => grp.sounding /\ ~toResume
        /\ grp.before => grp.sounding /\ (grp.untimed \/ grp.pausedComplete \/ toResume)
        /\ grp.since /\ grp.before => grp.untimed

One(b) == IF b THEN 1 ELSE 0

Sounds(s, g)      == \E x \in s.sends : x.of = g /\ x.sounded
SoundsWhole(s, g) == \E x \in s.sends : x.of = g /\ x.sounded /\ ~x.lost

\* A hearing is counted for a send whose sound is counted too.
HeardSo(s, g, amiss) ==
  LET grp == s.groups[g]
  IN  /\ grp.heard <= grp.all
      /\ grp.sending = "sounded" => grp.heard < grp.all + One(Sounds(s, g))
      /\ grp.counted <= grp.all + One(Sounds(s, g))
      /\ grp.clean + One(SoundsWhole(s, g)) <= grp.heard + One(grp.sending = "sounded")
      /\ amiss \notin {"failed", "ended"} => grp.clean <= grp.heard
      /\ ~PlayingGroup(s, g) => grp.sending = "none"
      /\ PlayingGroup(s, g) /\ s.missed => grp.sending = "none"
      /\ amiss = "ended" /\ PlayingGroup(s, g) => grp.heard < grp.all

HeardRight(s, amiss) ==
  ~IsTerminal(s) => \A g \in Groups : ~s.groups[g].done => HeardSo(s, g, amiss)

\* The machine has heard that a send has gone out.
OutRight(s) ==
  \A x \in s.sends : x.out =>
    /\ s.known
    /\ ~x.lost /\ ~x.sounded => s.groups[x.of].sending = "silent"

Fits(s, due, amiss) ==
  /\ s \in Session /\ Leased(s, amiss) /\ TimersFit(s, due) /\ Waits(s)
  /\ Learned(s) /\ AboutNext(s) /\ FullLength(s) /\ Confirmed(s)
  /\ TimedRight(s) /\ HeardRight(s, amiss)
  /\ amiss # "restart" => OutRight(s)

\* What waits in the box is not yet of its group's length.
BoxFits(s) == s.waiting => s.text \notin Whole

Inv == /\ Fits(session, {}, "no") /\ BoxFits(session)
       /\ Room(session) <= MaxTimers + 2
       /\ resumes \in Nat

\* What the machine never looks at.
Box(s) == <<s.text, s.waiting, s.letter, s.away>>

-----------------------------------------------------------------------------
(***************************************************************************)
(* Timers.                                                                 *)
(***************************************************************************)
LEMMA HasLeast ==
  ASSUME NEW T \in SUBSET Nat, T # {}
  PROVE  \E i \in T : \A j \in T : ~(j < i)
<1>1. IsWellFoundedOn(OpToRel(<, Nat), Nat)
  BY NatLessThanWellFounded
<1>2. PICK i \in T : \A j \in T : <<j, i>> \notin OpToRel(<, Nat)
  BY <1>1, WFMin
<1>. QED BY <1>2 DEF OpToRel

LEMMA TimersAreFinite ==
  ASSUME NEW s \in Session
  PROVE  /\ IsFiniteSet(s.timers) /\ Cardinality(s.timers) \in Nat
         /\ TimerIds \subseteq Nat \ {0}
<1>1. IsFiniteSet(TimerIds)
  BY FS_Interval, MaxTimersAssumption DEF TimerIds
<1>2. s.timers \in SUBSET TimerIds
  BY DEF Session
<1>3. IsFiniteSet(s.timers)
  BY <1>1, <1>2, FS_Subset
<1>4. TimerIds \subseteq Nat \ {0}
  BY MaxTimersAssumption DEF TimerIds
<1>. QED BY <1>3, <1>4, FS_CardinalityType

LEMMA TimerIsFree ==
  ASSUME NEW s \in Session, Cardinality(s.timers) <= MaxTimers + 2
  PROVE  FreeTimer(s) \in TimerIds /\ FreeTimer(s) \notin s.timers
<1>1. TimerIds # s.timers
  <2>1. Cardinality(TimerIds) = MaxTimers + 3
    BY FS_Interval, MaxTimersAssumption DEF TimerIds
  <2>. QED BY <2>1, MaxTimersAssumption, TimersAreFinite
<1>2. TimerIds \ s.timers \in SUBSET Nat /\ TimerIds \ s.timers # {}
  BY <1>1, TimersAreFinite DEF Session
<1>3. PICK i \in TimerIds \ s.timers : \A j \in TimerIds \ s.timers : ~(j < i)
  BY <1>2, HasLeast
<1>4. i \in TimerIds /\ i \notin s.timers /\ \A j \in TimerIds : j < i => j \in s.timers
  BY <1>3
<1>. QED BY <1>4 DEF FreeTimer

LEMMA PhaseTimerStarts ==
  ASSUME NEW s \in Session, NEW kind \in TimerKinds, Cardinality(s.timers) <= MaxTimers + 2
  PROVE  /\ StartPhaseTimer(s, kind) \in Session
         /\ Cardinality(s.timers \cup {FreeTimer(s)}) = Cardinality(s.timers) + 1
<1>1. FreeTimer(s) \in TimerIds /\ FreeTimer(s) \notin s.timers
  BY TimerIsFree
<1>2. [id |-> FreeTimer(s), kind |-> kind] \in PhaseTimer
  BY <1>1 DEF PhaseTimer
<1>3. s.timers \cup {FreeTimer(s)} \in SUBSET TimerIds
  BY <1>1 DEF Session
<1>4. StartPhaseTimer(s, kind) \in Session
  BY <1>2, <1>3 DEF StartPhaseTimer, Session
<1>. QED BY <1>1, <1>4, TimersAreFinite, FS_AddElement

LEMMA AutoStarts ==
  ASSUME NEW s \in Session, NEW g \in Groups, NEW a \in Whole,
         Cardinality(s.timers) <= MaxTimers + 2
  PROVE  /\ StartAuto(s, g, a) \in Session
         /\ Cardinality(s.timers \cup {FreeTimer(s)}) = Cardinality(s.timers) + 1
<1>1. FreeTimer(s) \in TimerIds /\ FreeTimer(s) \notin s.timers
  BY TimerIsFree
<1>2. [id |-> FreeTimer(s), of |-> g, value |-> a] \in AutoTimer
  BY <1>1 DEF AutoTimer
<1>3. s.timers \cup {FreeTimer(s)} \in SUBSET TimerIds
  BY <1>1 DEF Session
<1>4. StartAuto(s, g, a) \in Session
  BY <1>2, <1>3 DEF StartAuto, Session
<1>. QED BY <1>1, <1>4, TimersAreFinite, FS_AddElement

-----------------------------------------------------------------------------
(***************************************************************************)
(* A group, and what is made of it.                                        *)
(***************************************************************************)
\* What nothing but time and sound changes, and what nothing but keys does.
Entered(grp) == <<grp.input, grp.done, grp.complete, grp.counted>>
Played(grp)  == <<grp.heard, grp.sending, grp.all, grp.clean>>
Keyed(grp)   == <<grp.since, grp.before, grp.sounding, grp.untimed, grp.pausedComplete>>

LEMMA GroupTypes ==
  ASSUME NEW s \in Session, NEW g \in Groups
  PROVE  s.groups \in [Groups -> GroupOf] /\ s.groups[g] \in GroupOf
BY DEF Session

LEMMA SetInputDoes ==
  ASSUME NEW grp \in GroupOf, NEW a \in Answers, ~grp.done, NEW t, t = SetInput(grp, a)
  PROVE  /\ t \in GroupOf /\ t.input = a /\ ~t.done /\ (t.complete <=> a \in Whole)
         /\ t.counted \in {grp.counted, 0, HeardByNow(grp)}
         /\ Played(t) = Played(grp)
         /\ t.sounding = grp.sounding /\ t.pausedComplete = grp.pausedComplete
         /\ grp.untimed => t.untimed
         /\ grp.pausedComplete /\ a # grp.input /\ grp.sounding => t.untimed
         /\ t.since => grp.since \/ (a # grp.input /\ grp.sounding)
         /\ t.before => grp.before
<1>. DEFINE changed == a # grp.input
            u == [grp EXCEPT !.input = a,
                    !.untimed = @ \/ (grp.pausedComplete /\ changed /\ grp.sounding),
                    !.since = a # "none" /\ (@ \/ (changed /\ grp.sounding)),
                    !.before = @ /\ a # "none"]
<1>1. /\ grp.untimed \in BOOLEAN /\ grp.since \in BOOLEAN /\ grp.before \in BOOLEAN
      /\ grp.heard \in Nat /\ grp.counted \in Nat
  BY DEF GroupOf
<1>2. u \in GroupOf
  BY Zenon, <1>1 DEF GroupOf
<1>3. /\ u.input = a /\ ~u.done /\ u.counted = grp.counted /\ u.complete = grp.complete
      /\ Played(u) = Played(grp)
      /\ u.sounding = grp.sounding /\ u.pausedComplete = grp.pausedComplete
  BY DEF GroupOf, Played
<1>4. /\ grp.untimed => u.untimed
      /\ grp.pausedComplete /\ a # grp.input /\ grp.sounding => u.untimed
      /\ u.since => grp.since \/ (a # grp.input /\ grp.sounding)
      /\ u.before => grp.before
  BY DEF GroupOf
<1>5. HeardByNow(grp) \in Nat /\ HeardByNow(u) = HeardByNow(grp)
  BY <1>1, <1>3 DEF HeardByNow, Played
<1>6. t = IF a \in Whole THEN Complete(u) ELSE [u EXCEPT !.complete = FALSE, !.counted = 0]
  BY DEF SetInput
<1>. HIDE DEF u
<1>7. CASE a \in Whole /\ u.complete
  <2>1. t = u
    BY <1>6, <1>7 DEF Complete
  <2>. QED BY <2>1, <1>7, <1>2, <1>3, <1>4
<1>8. CASE a \in Whole /\ ~u.complete
  <2>1. t = [u EXCEPT !.complete = TRUE, !.counted = HeardByNow(grp)]
    BY <1>5, <1>6, <1>8 DEF Complete
  <2>2. t \in GroupOf /\ t.complete
    BY <2>1, <1>2, <1>5 DEF GroupOf
  <2>3. /\ t.input = u.input /\ t.done = u.done /\ t.counted = HeardByNow(grp)
        /\ Played(t) = Played(u) /\ Keyed(t) = Keyed(u)
    BY <2>1, <1>2 DEF GroupOf, Played, Keyed
  <2>. QED BY <2>2, <2>3, <1>8, <1>3, <1>4 DEF Keyed
<1>9. CASE a \notin Whole
  <2>1. t = [u EXCEPT !.complete = FALSE, !.counted = 0]
    BY <1>6, <1>9
  <2>0. 0 \in Nat
    OBVIOUS
  <2>2. t \in GroupOf
    BY Zenon, <2>0, <2>1, <1>2 DEF GroupOf
  <2>3. /\ t.input = u.input /\ t.done = u.done /\ t.counted = 0 /\ ~t.complete
        /\ Played(t) = Played(u) /\ Keyed(t) = Keyed(u)
    BY <2>1, <1>2 DEF GroupOf, Played, Keyed
  <2>. QED BY <2>2, <2>3, <1>9, <1>3, <1>4 DEF Keyed
<1>. QED BY <1>7, <1>8, <1>9

\* A group answered.
AsAnswered(grp) == [Complete(grp) EXCEPT !.done = TRUE, !.all = 0, !.clean = 0,
                                         !.since = FALSE, !.before = FALSE]

LEMMA AnsweredDoes ==
  ASSUME NEW grp \in GroupOf, NEW t, t = AsAnswered(grp)
  PROVE  /\ t \in GroupOf /\ t.input = grp.input /\ t.done
         /\ ~t.since /\ ~t.before
<1>1. HeardByNow(grp) \in Nat
  BY DEF HeardByNow, GroupOf
<1>2. PICK u : u = Complete(grp)
  OBVIOUS
<1>3. u \in GroupOf /\ u.input = grp.input
  BY <1>1, <1>2 DEF Complete, GroupOf
<1>4. t = [u EXCEPT !.done = TRUE, !.all = 0, !.clean = 0, !.since = FALSE, !.before = FALSE]
  BY <1>2 DEF AsAnswered
<1>5. t \in GroupOf
  <2>1. 0 \in Nat
    OBVIOUS
  <2>. QED BY Zenon, <1>3, <1>4, <2>1 DEF GroupOf
<1>6. t.input = u.input /\ t.done /\ ~t.since /\ ~t.before
  BY <1>3, <1>4 DEF GroupOf
<1>. QED BY <1>3, <1>5, <1>6

LEMMA CutDoes ==
  ASSUME NEW grp \in GroupOf, NEW t, t = KeysBeforePause(CutSend(grp))
  PROVE  /\ t \in GroupOf /\ Entered(t) = Entered(grp)
         /\ t.heard = HeardByNow(grp) /\ t.sending = "none"
         /\ t.all = grp.all /\ t.clean = grp.clean
         /\ t.sounding = grp.sounding /\ t.untimed = grp.untimed
         /\ t.pausedComplete = grp.pausedComplete
         /\ ~t.since /\ (t.before => grp.before \/ grp.since)
<1>1. HeardByNow(grp) \in Nat
  BY DEF HeardByNow, GroupOf
<1>2. PICK u : u = CutSend(grp)
  OBVIOUS
<1>3. u \in GroupOf
  BY <1>1, <1>2 DEF CutSend, GroupOf
<1>4. /\ Entered(u) = Entered(grp) /\ Keyed(u) = Keyed(grp)
      /\ u.heard = HeardByNow(grp) /\ u.sending = "none"
      /\ u.all = grp.all /\ u.clean = grp.clean
  BY <1>2 DEF CutSend, GroupOf, Entered, Keyed
<1>5. t = [u EXCEPT !.before = @ \/ u.since, !.since = FALSE]
  BY <1>2 DEF KeysBeforePause
<1>6. u.before \in BOOLEAN /\ u.since \in BOOLEAN
  BY <1>3 DEF GroupOf
<1>7. t \in GroupOf
  BY Zenon, <1>3, <1>5, <1>6 DEF GroupOf
<1>8. /\ Entered(t) = Entered(u) /\ Played(t) = Played(u)
      /\ t.sounding = u.sounding /\ t.untimed = u.untimed
      /\ t.pausedComplete = u.pausedComplete
      /\ ~t.since /\ (t.before => u.before \/ u.since)
  BY <1>3, <1>5 DEF GroupOf, Entered, Played
<1>. QED BY <1>4, <1>7, <1>8 DEF Keyed, Played, Entered

LEMMA NotePausedDoes ==
  ASSUME NEW grp \in GroupOf, NEW t, t = NotePaused(grp)
  PROVE  /\ t \in GroupOf /\ Entered(t) = Entered(grp) /\ Played(t) = Played(grp)
         /\ t.since = grp.since /\ t.before = grp.before /\ t.sounding = grp.sounding
         /\ grp.untimed => t.untimed
         /\ grp.pausedComplete => t.pausedComplete
         /\ ~grp.done /\ grp.sounding => t.untimed \/ t.pausedComplete
<1>1. CASE grp.done
  BY <1>1 DEF NotePaused
<1>2. CASE ~grp.done /\ grp.complete
  <2>1. t = [grp EXCEPT !.pausedComplete = TRUE]
    BY <1>2 DEF NotePaused
  <2>. QED BY <2>1 DEF GroupOf, Entered, Played
<1>3. CASE ~grp.done /\ ~grp.complete
  <2>1. t = [grp EXCEPT !.untimed = @ \/ grp.sounding]
    BY <1>3 DEF NotePaused
  <2>2. t \in GroupOf
    BY Zenon, <2>1 DEF GroupOf
  <2>3. Entered(t) = Entered(grp) /\ Played(t) = Played(grp)
    BY <2>1 DEF GroupOf, Entered, Played
  <2>4. /\ t.since = grp.since /\ t.before = grp.before /\ t.sounding = grp.sounding
        /\ t.pausedComplete = grp.pausedComplete
        /\ grp.untimed \/ grp.sounding => t.untimed
    BY <2>1 DEF GroupOf
  <2>. QED BY <2>2, <2>3, <2>4
<1>. QED BY <1>1, <1>2, <1>3

LEMMA StartPlaybackDoes ==
  ASSUME NEW grp \in GroupOf, NEW t, t = StartPlayback(grp)
  PROVE  /\ t \in GroupOf /\ Entered(t) = Entered(grp) /\ t.sending = "silent"
         /\ t.heard = grp.heard /\ t.all = grp.all /\ t.clean = grp.clean
         /\ t.since = grp.since /\ t.before = grp.before
         /\ t.pausedComplete = grp.pausedComplete
         /\ grp.sounding => t.sounding
         /\ grp.untimed => t.untimed
<1>1. PICK first \in BOOLEAN : first = (grp.plays = 0)
  OBVIOUS
<1>2. t = [grp EXCEPT !.sending = "silent", !.sounding = @ \/ first,
                      !.untimed = @ \/ (first /\ grp.sounding)]
  BY <1>1 DEF StartPlayback
<1>3. t \in GroupOf
  BY Zenon, <1>2 DEF GroupOf
<1>4. /\ Entered(t) = Entered(grp) /\ t.sending = "silent"
      /\ t.heard = grp.heard /\ t.all = grp.all /\ t.clean = grp.clean
      /\ t.since = grp.since /\ t.before = grp.before
      /\ t.pausedComplete = grp.pausedComplete
  BY <1>2 DEF GroupOf, Entered
<1>5. (grp.sounding => t.sounding) /\ (grp.untimed => t.untimed)
  BY <1>2 DEF GroupOf
<1>. QED BY <1>3, <1>4, <1>5

LEMMA CountedDoes ==
  ASSUME NEW grp \in GroupOf, NEW x \in SendOf, NEW ended \in BOOLEAN,
         NEW t, t = Counted(grp, x, ended)
  PROVE  /\ t \in GroupOf /\ Entered(t) = Entered(grp) /\ Keyed(t) = Keyed(grp)
         /\ t.heard = grp.heard /\ t.sending = grp.sending
         /\ ~grp.done => /\ t.all = grp.all + One(ended \/ x.sounded)
                         /\ t.clean = grp.clean + One(x.sounded /\ ~x.lost)
<1>1. grp.all \in Nat /\ grp.clean \in Nat
  BY DEF GroupOf
<1>2. PICK m \in Nat : m = IF ended \/ x.sounded THEN grp.all + 1 ELSE grp.all
  BY <1>1
<1>3. PICK n \in Nat : n = IF x.sounded /\ ~x.lost THEN grp.clean + 1 ELSE grp.clean
  BY <1>1
<1>4. t = IF grp.done THEN grp ELSE [grp EXCEPT !.all = m, !.clean = n]
  BY <1>2, <1>3 DEF Counted
<1>5. /\ t \in GroupOf /\ Entered(t) = Entered(grp) /\ Keyed(t) = Keyed(grp)
      /\ t.heard = grp.heard /\ t.sending = grp.sending
      /\ ~grp.done => t.all = m /\ t.clean = n
  BY <1>4 DEF GroupOf, Entered, Keyed
<1>6. m = grp.all + One(ended \/ x.sounded) /\ n = grp.clean + One(x.sounded /\ ~x.lost)
  BY <1>1, <1>2, <1>3 DEF One
<1>. QED BY <1>5, <1>6

-----------------------------------------------------------------------------

(***************************************************************************)
(* The effects.                                                            *)
(***************************************************************************)
\* What no effect changes.
Place(s) == <<s.settings, s.about, s.current, s.countdownTo, s.begun, s.resume,
              s.missed, s.known, s.learned>>

\* What stopping the audio makes of the groups of s.
Stopped(s, groups) ==
  /\ groups \in [Groups -> GroupOf]
  /\ \A g \in Groups :
       /\ Entered(groups[g]) = Entered(s.groups[g]) /\ Keyed(groups[g]) = Keyed(s.groups[g])
       /\ groups[g].heard = s.groups[g].heard /\ groups[g].sending = s.groups[g].sending
       /\ ~s.groups[g].done =>
            /\ groups[g].all = s.groups[g].all + One(Sounds(s, g))
            /\ groups[g].clean = s.groups[g].clean + One(SoundsWhole(s, g))
       /\ (\A x \in s.sends : x.of # g) => groups[g] = s.groups[g]

LEMMA StopDoes ==
  ASSUME NEW s \in Session, \A x, y \in s.sends : x = y, NEW t, t = StopAudio(s)
  PROVE  /\ t \in Session /\ Stopped(s, t.groups)
         /\ Place(t) = Place(s) /\ Box(t) = Box(s)
         /\ t.phase = s.phase /\ t.over = s.over /\ t.held = s.held
         /\ t.timers = s.timers /\ t.phaseTimer = s.phaseTimer /\ t.auto = s.auto
         /\ t.sends = {} /\ t.stopped \subseteq s.stopped \cup {x.of : x \in s.sends}
<1>. DEFINE S == s.stopped \cup {x.of : x \in s.sends}
            G == [g \in Groups |->
                    IF \E x \in s.sends : x.of = g
                    THEN Counted(s.groups[g], CHOOSE x \in s.sends : x.of = g, FALSE)
                    ELSE s.groups[g]]
<1>0. s.groups \in [Groups -> GroupOf] /\ s.sends \subseteq SendOf
  BY DEF Session
<1>1. S \in SUBSET Groups
  BY DEF Session, SendOf
<1>2. ASSUME NEW g \in Groups
      PROVE  /\ G[g] \in GroupOf
             /\ Entered(G[g]) = Entered(s.groups[g]) /\ Keyed(G[g]) = Keyed(s.groups[g])
             /\ G[g].heard = s.groups[g].heard /\ G[g].sending = s.groups[g].sending
             /\ ~s.groups[g].done =>
                  /\ G[g].all = s.groups[g].all + One(Sounds(s, g))
                  /\ G[g].clean = s.groups[g].clean + One(SoundsWhole(s, g))
             /\ (\A x \in s.sends : x.of # g) => G[g] = s.groups[g]
  <2>1. CASE \A x \in s.sends : x.of # g
    <3>1. G[g] = s.groups[g] /\ ~Sounds(s, g) /\ ~SoundsWhole(s, g)
      BY <2>1 DEF Sounds, SoundsWhole
    <3>2. G[g] \in GroupOf /\ G[g].all \in Nat /\ G[g].clean \in Nat
      BY <1>0, <3>1 DEF GroupOf
    <3>. HIDE DEF G
    <3>. QED BY <3>1, <3>2 DEF One
  <2>2. CASE \E x \in s.sends : x.of = g
    <3>1. PICK x \in s.sends : x.of = g
      BY <2>2
    <3>2. G[g] = Counted(s.groups[g], CHOOSE y \in s.sends : y.of = g, FALSE)
      BY <3>1
    <3>3. (CHOOSE y \in s.sends : y.of = g) = x
      BY <3>1
    <3>10. PICK ended \in BOOLEAN : ended = FALSE
      OBVIOUS
    <3>4. PICK u : u = Counted(s.groups[g], x, ended)
      OBVIOUS
    <3>5. G[g] = u
      BY <3>2, <3>3, <3>4, <3>10
    <3>6. x \in SendOf /\ s.groups[g] \in GroupOf
      BY <1>0
    <3>7. /\ u \in GroupOf /\ Entered(u) = Entered(s.groups[g]) /\ Keyed(u) = Keyed(s.groups[g])
          /\ u.heard = s.groups[g].heard /\ u.sending = s.groups[g].sending
          /\ ~s.groups[g].done =>
               /\ u.all = s.groups[g].all + One(ended \/ x.sounded)
               /\ u.clean = s.groups[g].clean + One(x.sounded /\ ~x.lost)
      BY <3>4, <3>6, CountedDoes
    <3>9. One(ended \/ x.sounded) = One(x.sounded)
      BY <3>10 DEF One
    <3>8. Sounds(s, g) = x.sounded /\ SoundsWhole(s, g) = (x.sounded /\ ~x.lost)
      BY <3>1, <3>6 DEF Sounds, SoundsWhole, SendOf
    <3>. HIDE DEF G
    <3>. QED BY <2>2, <3>5, <3>7, <3>8, <3>9
  <2>. QED BY <2>1, <2>2
<1>3. G \in [Groups -> GroupOf]
  BY <1>2
<1>4. t = [s EXCEPT !.stopped = S, !.sends = {}, !.groups = G]
  BY DEF StopAudio
<1>. HIDE DEF S, G
<1>5. t \in Session
  BY <1>1, <1>3, <1>4 DEF Session
<1>6. t.groups = G /\ t.stopped = S /\ t.sends = {}
  BY <1>4 DEF Session
<1>7. /\ Place(t) = Place(s) /\ Box(t) = Box(s)
      /\ t.phase = s.phase /\ t.over = s.over /\ t.held = s.held
      /\ t.timers = s.timers /\ t.phaseTimer = s.phaseTimer /\ t.auto = s.auto
  BY <1>4 DEF Session, Place, Box
<1>8. Stopped(s, G)
  BY <1>2, <1>3 DEF Stopped
<1>. QED BY <1>5, <1>6, <1>7, <1>8 DEF S

LEMMA CancelDoes ==
  ASSUME NEW s \in Session, NEW t, t = CancelTimers(s)
  PROVE  /\ t \in Session /\ t.phaseTimer = NoPhaseTimer /\ t.auto = NoAuto
         /\ Place(t) = Place(s) /\ Box(t) = Box(s) /\ t.groups = s.groups
         /\ t.phase = s.phase /\ t.over = s.over /\ t.held = s.held
         /\ t.timers = s.timers /\ t.sends = s.sends /\ t.stopped = s.stopped
<1>1. t = [s EXCEPT !.phaseTimer = NoPhaseTimer, !.auto = NoAuto]
  BY DEF CancelTimers
<1>2. NoPhaseTimer \in PhaseTimer /\ NoAuto \in AutoTimer
  BY DEF NoPhaseTimer, NoAuto, PhaseTimer, AutoTimer
<1>3. t \in Session
  BY <1>1, <1>2 DEF Session
<1>. QED BY <1>1, <1>3 DEF Session, Place, Box

LEMMA ReleaseDoes ==
  ASSUME NEW s \in Session, \A x, y \in s.sends : x = y,
         NEW t, t = ReleaseAudio(CancelTimers(s))
  PROVE  /\ t \in Session /\ Stopped(s, t.groups)
         /\ Place(t) = Place(s) /\ Box(t) = Box(s)
         /\ t.phase = s.phase /\ t.over = s.over /\ ~t.held
         /\ t.timers = {} /\ t.phaseTimer = NoPhaseTimer /\ t.auto = NoAuto /\ t.sends = {}
<1>1. PICK u : u = CancelTimers(s)
  OBVIOUS
<1>2. /\ u \in Session /\ u.phaseTimer = NoPhaseTimer /\ u.auto = NoAuto
      /\ Place(u) = Place(s) /\ Box(u) = Box(s) /\ u.groups = s.groups
      /\ u.phase = s.phase /\ u.over = s.over /\ u.sends = s.sends
  BY <1>1, CancelDoes
<1>3. PICK v : v = StopAudio(u)
  OBVIOUS
<1>4. /\ v \in Session /\ Stopped(u, v.groups)
      /\ Place(v) = Place(u) /\ Box(v) = Box(u)
      /\ v.phase = u.phase /\ v.over = u.over
      /\ v.phaseTimer = u.phaseTimer /\ v.auto = u.auto /\ v.sends = {}
  BY <1>2, <1>3, StopDoes
<1>5. t = [v EXCEPT !.timers = {}, !.held = FALSE]
  BY <1>1, <1>3 DEF ReleaseAudio
<1>6. t \in Session
  BY <1>4, <1>5 DEF Session
<1>7. /\ Place(t) = Place(v) /\ Box(t) = Box(v) /\ t.groups = v.groups
      /\ t.phase = v.phase /\ t.over = v.over /\ ~t.held
      /\ t.timers = {} /\ t.phaseTimer = v.phaseTimer /\ t.auto = v.auto /\ t.sends = v.sends
  BY <1>4, <1>5 DEF Session, Place, Box
<1>8. \A g \in Groups : /\ Sounds(u, g) = Sounds(s, g)
                         /\ SoundsWhole(u, g) = SoundsWhole(s, g)
  BY <1>2 DEF Sounds, SoundsWhole
<1>9. Stopped(s, v.groups)
  BY <1>2, <1>4, <1>8 DEF Stopped
<1>. QED BY <1>2, <1>4, <1>6, <1>7, <1>9

LEMMA EndDoes ==
  ASSUME NEW s \in Session, \A x, y \in s.sends : x = y, NEW keep \in BOOLEAN,
         NEW t, t = EndSession(s, keep)
  PROVE  /\ t \in Session /\ Stopped(s, t.groups)
         /\ Place(t) = Place(s) /\ Box(t) = Box(s)
         /\ IsTerminal(t) /\ t.over = (IF keep THEN "kept" ELSE "home") /\ ~t.held
         /\ t.timers = {} /\ t.phaseTimer = NoPhaseTimer /\ t.auto = NoAuto /\ t.sends = {}
<1>1. PICK u : u = ReleaseAudio(CancelTimers(s))
  OBVIOUS
<1>2. /\ u \in Session /\ Stopped(s, u.groups)
      /\ Place(u) = Place(s) /\ Box(u) = Box(s) /\ ~u.held
      /\ u.timers = {} /\ u.phaseTimer = NoPhaseTimer /\ u.auto = NoAuto /\ u.sends = {}
  BY <1>1, ReleaseDoes
<1>3. t = [u EXCEPT !.phase = IF keep THEN "finished" ELSE "aborted",
                    !.over = IF keep THEN "kept" ELSE "home"]
  BY <1>1 DEF EndSession
<1>4. t \in Session
  BY <1>2, <1>3 DEF Session, Phases
<1>5. /\ t.phase = (IF keep THEN "finished" ELSE "aborted")
      /\ t.over = (IF keep THEN "kept" ELSE "home")
      /\ Place(t) = Place(u) /\ Box(t) = Box(u) /\ t.groups = u.groups /\ t.held = u.held
      /\ t.timers = u.timers /\ t.phaseTimer = u.phaseTimer
      /\ t.auto = u.auto /\ t.sends = u.sends
  BY <1>2, <1>3 DEF Session, Place, Box
<1>. QED BY <1>2, <1>4, <1>5 DEF IsTerminal

-----------------------------------------------------------------------------

(***************************************************************************)
(* A session that changes only so far.                                     *)
(***************************************************************************)
LEMMA LearnedStays ==
  ASSUME NEW s \in Session, NEW t \in Session, Learned(s),
         t.learned = s.learned, t.current = s.current,
         \A g \in Groups : /\ t.groups[g].input = s.groups[g].input
                           /\ t.groups[g].done = s.groups[g].done
                           /\ g > Told(s) => t.groups[g] = s.groups[g],
         t.over = "kept" => Told(s) > 0
  PROVE  Learned(t) /\ Told(t) = Told(s)
<1>1. Told(t) = Told(s) /\ Told(s) \in Nat
  BY DEF Told, Session
<1>2. \A i \in 1 .. Told(s) : t.learned[i] = <<i - 1, t.groups[i - 1].input>>
  <2>. SUFFICES ASSUME NEW i \in 1 .. Told(s)
                PROVE  t.learned[i] = <<i - 1, t.groups[i - 1].input>>
    OBVIOUS
  <2>1. s.learned[i] \in Groups \X Answers /\ s.learned[i] = <<i - 1, s.groups[i - 1].input>>
    BY DEF Learned, Told, Session
  <2>2. i - 1 \in Groups
    BY <2>1
  <2>. QED BY <2>1, <2>2
<1>. QED BY <1>1, <1>2 DEF Learned

LEMMA FullLengthStays ==
  ASSUME NEW s \in Session, NEW t \in Session, FullLength(s),
         \A g \in Groups : /\ t.groups[g].input = s.groups[g].input
                           /\ t.groups[g].done = s.groups[g].done
                           /\ t.groups[g].complete = s.groups[g].complete
  PROVE  FullLength(t)
BY DEF FullLength

\* The timing of a group that changes only so far.
LEMMA TimedStays ==
  ASSUME NEW s \in Session, NEW t \in Session, TimedRight(s), t.resume = s.resume,
         \A g \in Groups : \/ /\ t.groups[g].since = s.groups[g].since
                              /\ t.groups[g].before = s.groups[g].before
                              /\ s.groups[g].sounding => t.groups[g].sounding
                              /\ s.groups[g].untimed => t.groups[g].untimed
                              /\ s.groups[g].pausedComplete => t.groups[g].pausedComplete
                           \/ ~t.groups[g].since /\ ~t.groups[g].before
  PROVE  TimedRight(t)
BY DEF TimedRight

LEMMA StoppedStays ==
  ASSUME NEW s \in Session, NEW t \in Session, Stopped(s, t.groups), Place(t) = Place(s),
         Learned(s), FullLength(s), TimedRight(s),
         \A x \in s.sends : x.of <= Told(s), t.over = "kept" => Told(s) > 0
  PROVE  Learned(t) /\ FullLength(t) /\ TimedRight(t) /\ Told(t) = Told(s)
<1>1. /\ t.learned = s.learned /\ t.current = s.current /\ t.resume = s.resume
  BY DEF Place
<1>2. \A g \in Groups : /\ Entered(t.groups[g]) = Entered(s.groups[g])
                        /\ Keyed(t.groups[g]) = Keyed(s.groups[g])
                        /\ (\A x \in s.sends : x.of # g) => t.groups[g] = s.groups[g]
  BY DEF Stopped
<1>3. \A g \in Groups : /\ t.groups[g].input = s.groups[g].input
                        /\ t.groups[g].done = s.groups[g].done
                        /\ t.groups[g].complete = s.groups[g].complete
                        /\ t.groups[g].since = s.groups[g].since
                        /\ t.groups[g].before = s.groups[g].before
                        /\ t.groups[g].sounding = s.groups[g].sounding
                        /\ t.groups[g].untimed = s.groups[g].untimed
                        /\ t.groups[g].pausedComplete = s.groups[g].pausedComplete
  BY <1>2 DEF Entered, Keyed
<1>4. Told(s) \in Nat
  BY DEF Told, Session
<1>5. \A g \in Groups : g > Told(s) => t.groups[g] = s.groups[g]
  <2>. SUFFICES ASSUME NEW g \in Groups, g > Told(s) PROVE t.groups[g] = s.groups[g]
    OBVIOUS
  <2>1. ASSUME NEW x \in s.sends PROVE x.of # g
    <3>1. x.of \in Nat /\ g \in Nat
      BY NumGroupsAssumption DEF Session, SendOf, Groups
    <3>. QED BY <1>4, <3>1
  <2>. QED BY <2>1, <1>2
<1>6. Learned(t) /\ Told(t) = Told(s)
  BY <1>1, <1>3, <1>5, LearnedStays
<1>7. FullLength(t)
  BY <1>3, FullLengthStays
<1>8. TimedRight(t)
  BY <1>1, <1>3, TimedStays
<1>. QED BY <1>6, <1>7, <1>8

-----------------------------------------------------------------------------
(***************************************************************************)
(* The end of a session.                                                   *)
(***************************************************************************)
\* A session that is still holds no timer and no send.
LEMMA StillHasRoom ==
  ASSUME NEW s \in Session, s.timers = {}, s.sends = {}
  PROVE  Room(s) = 0
BY FS_EmptySet DEF Room

LEMMA EndFits ==
  ASSUME NEW s \in Session, NEW keep \in BOOLEAN,
         \A x, y \in s.sends : x = y, \A x \in s.sends : x.of <= Told(s),
         Learned(s), FullLength(s), TimedRight(s), keep => Told(s) > 0,
         NEW t, t = EndSession(s, keep)
  PROVE  Fits(t, {}, "no") /\ Room(t) = 0 /\ Box(t) = Box(s) /\ Place(t) = Place(s)
<1>1. /\ t \in Session /\ Stopped(s, t.groups)
      /\ Place(t) = Place(s) /\ Box(t) = Box(s)
      /\ IsTerminal(t) /\ t.over = (IF keep THEN "kept" ELSE "home") /\ ~t.held
      /\ t.timers = {} /\ t.phaseTimer = NoPhaseTimer /\ t.auto = NoAuto /\ t.sends = {}
  BY EndDoes
<1>2. t.over = "kept" => Told(s) > 0
  BY <1>1
<1>3. Learned(t) /\ FullLength(t) /\ TimedRight(t)
  BY <1>1, <1>2, StoppedStays
<1>4. t.over # "no" /\ t.phase \in {"finished", "aborted"}
  BY <1>1 DEF IsTerminal
<1>5. Leased(t, "no")
  BY <1>1, <1>4 DEF Leased, Still, IsTerminal
<1>6. TimersFit(t, {}) /\ HeardRight(t, "no") /\ OutRight(t)
  BY <1>1 DEF TimersFit, HeardRight, HeardSo, OutRight
<1>7. Waits(t) /\ AboutNext(t) /\ Confirmed(t)
  BY <1>1, <1>4 DEF Waits, AboutNext, Confirmed, Answerable, Playing
<1>8. Room(t) = 0
  BY <1>1, StillHasRoom
<1>. QED BY <1>1, <1>3, <1>5, <1>6, <1>7, <1>8 DEF Fits

-----------------------------------------------------------------------------

(***************************************************************************)
(* Going on with the next group, whatever the phase was.                   *)
(***************************************************************************)
Primed(s, g) ==
  /\ s \in Session /\ g \in Groups /\ g = Told(s)
  /\ s.over = "no" /\ s.held /\ s.sends = {} /\ s.resume.kind = "none"
  /\ \A h \in s.stopped : s.groups[h].done
  /\ Learned(s) /\ FullLength(s) /\ TimedRight(s)
  /\ \A h \in Groups : LET grp == s.groups[h] IN ~grp.done =>
       /\ grp.heard <= grp.all /\ grp.counted <= grp.all /\ grp.clean <= grp.heard
       /\ grp.sending = "none"

Ready(s, g) ==
  /\ Primed(s, g) /\ TimersFit(s, {})
  /\ s.auto # NoAuto <=> s.groups[g].complete
  /\ s.auto # NoAuto => /\ s.auto.of = g /\ s.auto.value = s.groups[g].input
                        /\ ~s.settings.lock

\* It is the current one, too, and an answer begun is known to be.
AtNext(s, g) == s.current = g /\ (s.groups[g].input # "none" => s.begun)

LEMMA GroupNumbers ==
  ASSUME NEW s \in Session
  PROVE  \A g \in Groups :
           LET grp == s.groups[g]
           IN  /\ grp.heard \in Nat /\ grp.all \in Nat /\ grp.clean \in Nat /\ grp.counted \in Nat
               /\ grp.sending \in {"none", "silent", "sounded"}
BY DEF Session, GroupOf

NewSend(g) == [of |-> g, out |-> FALSE, tries |-> 1, sounded |-> FALSE, lost |-> FALSE]

LEMMA PlayDoes ==
  ASSUME NEW s \in Session, NEW g \in Groups, NEW t, t = Play(s, g)
  PROVE  /\ t \in Session /\ t.sends = s.sends \cup {NewSend(g)}
         /\ Place(t) = Place(s) /\ Box(t) = Box(s) /\ t.groups = s.groups
         /\ t.phase = s.phase /\ t.over = s.over /\ t.held = s.held
         /\ t.timers = s.timers /\ t.phaseTimer = s.phaseTimer
         /\ t.auto = s.auto /\ t.stopped = s.stopped
<1>1. NewSend(g) \in SendOf
  BY DEF NewSend, SendOf
<1>2. s.sends \cup {NewSend(g)} \in SUBSET SendOf
  BY <1>1 DEF Session
<1>3. t = [s EXCEPT !.sends = s.sends \cup {NewSend(g)}]
  BY DEF Play, NewSend
<1>4. t \in Session
  BY <1>2, <1>3 DEF Session
<1>. QED BY <1>3, <1>4 DEF Session, Place, Box

LEMMA BeginDoes ==
  ASSUME NEW s \in Session, NEW g \in Groups, NEW t, t = BeginGroup(s, g)
  PROVE  /\ t \in Session /\ t.sends = s.sends \cup {NewSend(g)}
         /\ t.phase = "playing" /\ t.about = g /\ t.current = g
         /\ t.groups \in [Groups -> GroupOf]
         /\ \A h \in Groups : /\ Entered(t.groups[h]) = Entered(s.groups[h])
                              /\ Played(t.groups[h]) = Played(s.groups[h])
                              /\ Keyed(t.groups[h]) = Keyed(s.groups[h])
                              /\ h # g => t.groups[h] = s.groups[h]
         /\ t.begun = (s.groups[g].input # "none") /\ ~t.missed /\ ~t.known
         /\ t.learned = s.learned /\ t.resume = s.resume /\ t.settings = s.settings
         /\ Box(t) = Box(s) /\ t.over = s.over /\ t.held = s.held
         /\ t.timers = s.timers /\ t.phaseTimer = s.phaseTimer
         /\ t.auto = s.auto /\ t.stopped = s.stopped
<1>0. PICK begun \in BOOLEAN : begun = (s.groups[g].input # "none")
  OBVIOUS
<1>. DEFINE G == [s.groups EXCEPT ![g].plays = 0]
            u == [s EXCEPT !.phase = "playing", !.about = g, !.current = g,
                    !.groups = G, !.repeatsLeft = s.settings.repeats,
                    !.missed = FALSE, !.known = FALSE, !.fresh = TRUE,
                    !.begun = begun]
<1>1. s.groups \in [Groups -> GroupOf] /\ s.groups[g] \in GroupOf
  BY GroupTypes
<1>2. PICK grp : grp = [s.groups[g] EXCEPT !.plays = 0]
  OBVIOUS
<1>3. /\ grp \in GroupOf /\ Entered(grp) = Entered(s.groups[g])
      /\ Played(grp) = Played(s.groups[g]) /\ Keyed(grp) = Keyed(s.groups[g])
  BY <1>1, <1>2 DEF GroupOf, Entered, Played, Keyed
<1>4. G \in [Groups -> GroupOf] /\ G[g] = grp /\ \A h \in Groups : h # g => G[h] = s.groups[h]
  BY <1>1, <1>2, <1>3
<1>5. s.settings.repeats \in Nat
  BY SettingsAssumption DEF Session
<1>6. BeginGroup(s, g) = Play(u, g)
  BY <1>0 DEF BeginGroup
<1>. HIDE DEF G
<1>7. u \in Session
  BY <1>4, <1>5 DEF Session, Phases
<1>8. /\ u.sends = s.sends /\ u.phase = "playing" /\ u.about = g /\ u.current = g
      /\ u.groups = G /\ u.begun = begun /\ ~u.missed /\ ~u.known
      /\ u.learned = s.learned /\ u.resume = s.resume /\ u.settings = s.settings
      /\ u.timers = s.timers /\ u.phaseTimer = s.phaseTimer
      /\ u.auto = s.auto /\ u.stopped = s.stopped
      /\ Box(u) = Box(s) /\ u.over = s.over /\ u.held = s.held
  BY DEF Session, Box
<1>. HIDE DEF u
<1>9. PICK v : v = u
  OBVIOUS
<1>10. /\ t \in Session /\ t.sends = v.sends \cup {NewSend(g)}
       /\ Place(t) = Place(v) /\ Box(t) = Box(v) /\ t.groups = v.groups
       /\ t.phase = v.phase /\ t.over = v.over /\ t.held = v.held
       /\ t.timers = v.timers /\ t.phaseTimer = v.phaseTimer
       /\ t.auto = v.auto /\ t.stopped = v.stopped
  BY <1>6, <1>7, <1>9, PlayDoes
<1>11. /\ t.about = v.about /\ t.current = v.current /\ t.begun = v.begun
       /\ t.missed = v.missed /\ t.known = v.known /\ t.learned = v.learned
       /\ t.resume = v.resume /\ t.settings = v.settings
  BY <1>10 DEF Place
<1>12. \A h \in Groups : /\ Entered(G[h]) = Entered(s.groups[h])
                         /\ Played(G[h]) = Played(s.groups[h])
                         /\ Keyed(G[h]) = Keyed(s.groups[h])
                         /\ h # g => G[h] = s.groups[h]
  BY <1>3, <1>4
<1>. QED BY <1>0, <1>4, <1>8, <1>9, <1>10, <1>11, <1>12

\* A session about to send its next group.
LEMMA PlayingFits ==
  ASSUME NEW s, NEW g, Ready(s, g), NEW t \in Session,
         t.phase = "playing", t.about = g, t.current = g, t.sends = {NewSend(g)},
         t.groups[g].input # "none" => t.begun,
         \A h \in Groups : /\ Entered(t.groups[h]) = Entered(s.groups[h])
                           /\ Played(t.groups[h]) = Played(s.groups[h])
                           /\ Keyed(t.groups[h]) = Keyed(s.groups[h])
                           /\ h # g => t.groups[h] = s.groups[h],
         t.learned = s.learned, t.resume = s.resume, t.settings = s.settings,
         t.over = s.over, t.held = s.held, t.timers = s.timers,
         t.phaseTimer = s.phaseTimer, t.auto = s.auto, t.stopped = s.stopped
  PROVE  Fits(t, {}, "no") /\ Room(t) = Cardinality(s.timers) + 1
<1>1. /\ s \in Session /\ g \in Groups /\ g = Told(s) /\ Told(s) \in Nat
  BY DEF Ready, Primed, Told, Session
<1>2. \A h \in Groups : /\ t.groups[h].input = s.groups[h].input
                        /\ t.groups[h].done = s.groups[h].done
                        /\ t.groups[h].complete = s.groups[h].complete
                        /\ t.groups[h].counted = s.groups[h].counted
                        /\ t.groups[h].heard = s.groups[h].heard
                        /\ t.groups[h].sending = s.groups[h].sending
                        /\ t.groups[h].all = s.groups[h].all
                        /\ t.groups[h].clean = s.groups[h].clean
                        /\ t.groups[h].since = s.groups[h].since
                        /\ t.groups[h].before = s.groups[h].before
                        /\ t.groups[h].sounding = s.groups[h].sounding
                        /\ t.groups[h].untimed = s.groups[h].untimed
                        /\ t.groups[h].pausedComplete = s.groups[h].pausedComplete
  BY DEF Entered, Played, Keyed
<1>3. Learned(t) /\ Told(t) = Told(s)
  <2>1. /\ \A h \in Groups : h > Told(s) => t.groups[h] = s.groups[h]
        /\ t.over # "kept"
    BY <1>1 DEF Ready, Primed
  <2>2. Told(t) = Told(s)
    BY DEF Told
  <2>3. \A i \in 1 .. Told(s) : t.learned[i] = <<i - 1, t.groups[i - 1].input>>
    <3>. SUFFICES ASSUME NEW i \in 1 .. Told(s)
                  PROVE  t.learned[i] = <<i - 1, t.groups[i - 1].input>>
      OBVIOUS
    <3>1. s.learned[i] \in Groups \X Answers /\ s.learned[i] = <<i - 1, s.groups[i - 1].input>>
      BY <1>1 DEF Ready, Primed, Learned, Told, Session
    <3>2. i - 1 \in Groups
      BY <3>1
    <3>. QED BY <3>1, <3>2, <1>2
  <2>. QED BY <1>1, <1>2, <2>1, <2>2, <2>3 DEF Ready, Primed, Learned
<1>4. FullLength(t)
  BY <1>1, <1>2, FullLengthStays DEF Ready, Primed
<1>5. TimedRight(t)
  BY <1>1, <1>2, TimedStays DEF Ready, Primed
<1>6. ~IsTerminal(t) /\ ~Paused(t) /\ ~Still(t) /\ Answerable(t)
  BY DEF IsTerminal, Paused, Still, Answerable, Playing
<1>7. Leased(t, "no")
  <2>1. /\ \A x, y \in t.sends : x = y
        /\ \A x \in t.sends : x.of = t.about
        /\ t.sends # {}
    BY DEF NewSend
  <2>2. t.over = "no" /\ t.held /\ t.resume.kind = "none"
    BY DEF Ready, Primed
  <2>3. \A h \in t.stopped : h \in Groups /\ t.groups[h].done
    BY <1>1, <1>2 DEF Ready, Primed, Session
  <2>. QED BY <1>6, <2>1, <2>2, <2>3 DEF Leased
<1>8. TimersFit(t, {}) /\ Waits(t)
  BY DEF Ready, Primed, TimersFit, Waits
<1>9. AboutNext(t)
  BY <1>1, <1>3 DEF AboutNext
<1>10. Confirmed(t)
  BY <1>1, <1>2, <1>6 DEF Confirmed, Ready, Primed
<1>11. HeardRight(t, "no")
  <2>. SUFFICES ASSUME NEW h \in Groups, ~t.groups[h].done
                PROVE  LET grp == t.groups[h]
                       IN  /\ grp.heard <= grp.all
                           /\ grp.sending = "sounded" => grp.heard < grp.all + One(Sounds(t, h))
                           /\ grp.counted <= grp.all + One(Sounds(t, h))
                           /\ grp.clean + One(SoundsWhole(t, h)) <= grp.heard + One(grp.sending = "sounded")
                           /\ grp.clean <= grp.heard
                           /\ ~PlayingGroup(t, h) => grp.sending = "none"
                           /\ PlayingGroup(t, h) /\ t.missed => grp.sending = "none"
    BY DEF HeardRight, HeardSo
  <2>1. ~Sounds(t, h) /\ ~SoundsWhole(t, h)
    BY DEF Sounds, SoundsWhole, NewSend
  <2>2. /\ t.groups[h].heard <= t.groups[h].all /\ t.groups[h].counted <= t.groups[h].all
        /\ t.groups[h].clean <= t.groups[h].heard /\ t.groups[h].sending = "none"
    BY <1>2 DEF Ready, Primed
  <2>. QED BY <2>1, <2>2, GroupNumbers DEF One
<1>12. OutRight(t)
  BY DEF OutRight, NewSend
<1>13. Room(t) = Cardinality(s.timers) + 1
  BY DEF Room
<1>. QED BY <1>3, <1>4, <1>5, <1>7, <1>8, <1>9, <1>10, <1>11, <1>12, <1>13 DEF Fits

LEMMA BeginFits ==
  ASSUME NEW s, NEW g, Ready(s, g), NEW t, t = BeginGroup(s, g)
  PROVE  Fits(t, {}, "no") /\ Room(t) = Cardinality(s.timers) + 1 /\ Box(t) = Box(s)
<1>1. s \in Session /\ g \in Groups /\ s.sends = {}
  BY DEF Ready, Primed
<1>2. /\ t \in Session /\ t.sends = s.sends \cup {NewSend(g)}
      /\ t.phase = "playing" /\ t.about = g /\ t.current = g
      /\ \A h \in Groups : /\ Entered(t.groups[h]) = Entered(s.groups[h])
                           /\ Played(t.groups[h]) = Played(s.groups[h])
                           /\ Keyed(t.groups[h]) = Keyed(s.groups[h])
                           /\ h # g => t.groups[h] = s.groups[h]
      /\ t.begun = (s.groups[g].input # "none")
      /\ t.learned = s.learned /\ t.resume = s.resume /\ t.settings = s.settings
      /\ Box(t) = Box(s) /\ t.over = s.over /\ t.held = s.held
      /\ t.timers = s.timers /\ t.phaseTimer = s.phaseTimer
      /\ t.auto = s.auto /\ t.stopped = s.stopped
  BY <1>1, BeginDoes
<1>3. t.sends = {NewSend(g)}
  BY <1>1, <1>2
<1>4. t.groups[g].input = s.groups[g].input
  BY <1>1, <1>2 DEF Entered
<1>5. t.groups[g].input # "none" => t.begun
  BY <1>2, <1>4
<1>. QED BY <1>2, <1>3, <1>5, PlayingFits

-----------------------------------------------------------------------------

\* What a timer started leaves as it was.
Rest(s) == <<s.groups, s.phase, s.over, s.held, s.sends, s.stopped>>

LEMMA PhaseTimerDoes ==
  ASSUME NEW s \in Session, NEW kind \in TimerKinds, Cardinality(s.timers) <= MaxTimers + 2,
         s.auto # NoAuto => s.auto.id \in s.timers,
         NEW t, t = StartPhaseTimer(s, kind)
  PROVE  /\ t \in Session /\ t.phaseTimer.kind = kind /\ t.auto = s.auto
         /\ Place(t) = Place(s) /\ Box(t) = Box(s) /\ Rest(t) = Rest(s)
         /\ TimersFit(t, {}) /\ Cardinality(t.timers) = Cardinality(s.timers) + 1
<1>1. PICK id : id = FreeTimer(s)
  OBVIOUS
<1>2. id \in TimerIds /\ id \notin s.timers
  BY <1>1, TimerIsFree
<1>3. t \in Session /\ Cardinality(s.timers \cup {id}) = Cardinality(s.timers) + 1
  BY <1>1, PhaseTimerStarts
<1>4. t = [s EXCEPT !.timers = s.timers \cup {id}, !.phaseTimer = [id |-> id, kind |-> kind]]
  BY <1>1 DEF StartPhaseTimer
<1>5. /\ t.timers = s.timers \cup {id} /\ t.phaseTimer = [id |-> id, kind |-> kind]
      /\ t.auto = s.auto
      /\ Place(t) = Place(s) /\ Box(t) = Box(s) /\ Rest(t) = Rest(s)
  BY <1>4 DEF Session, Place, Box, Rest
<1>6. t.phaseTimer.id = id /\ t.phaseTimer.kind = kind
  BY <1>5
<1>7. TimersFit(t, {})
  BY <1>2, <1>5, <1>6 DEF TimersFit
<1>. QED BY <1>3, <1>5, <1>6, <1>7

LEMMA AutoDoes ==
  ASSUME NEW s \in Session, NEW g \in Groups, NEW a \in Whole,
         Cardinality(s.timers) <= MaxTimers + 2,
         s.phaseTimer # NoPhaseTimer => s.phaseTimer.id \in s.timers,
         NEW t, t = StartAuto(s, g, a)
  PROVE  /\ t \in Session /\ t.phaseTimer = s.phaseTimer
         /\ t.auto # NoAuto /\ t.auto.of = g /\ t.auto.value = a
         /\ Place(t) = Place(s) /\ Box(t) = Box(s) /\ Rest(t) = Rest(s)
         /\ TimersFit(t, {}) /\ Cardinality(t.timers) = Cardinality(s.timers) + 1
<1>1. PICK id : id = FreeTimer(s)
  OBVIOUS
<1>2. id \in TimerIds /\ id \notin s.timers
  BY <1>1, TimerIsFree
<1>3. t \in Session /\ Cardinality(s.timers \cup {id}) = Cardinality(s.timers) + 1
  BY <1>1, AutoStarts
<1>4. t = [s EXCEPT !.timers = s.timers \cup {id}, !.auto = [id |-> id, of |-> g, value |-> a]]
  BY <1>1 DEF StartAuto
<1>5. /\ t.timers = s.timers \cup {id} /\ t.auto = [id |-> id, of |-> g, value |-> a]
      /\ t.phaseTimer = s.phaseTimer
      /\ Place(t) = Place(s) /\ Box(t) = Box(s) /\ Rest(t) = Rest(s)
  BY <1>4 DEF Session, Place, Box, Rest
<1>6. t.auto.id = id /\ t.auto.of = g /\ t.auto.value = a
  BY <1>5
<1>7. t.auto # NoAuto
  BY <1>2, <1>6, TimersAreFinite DEF NoAuto
<1>8. TimersFit(t, {})
  BY <1>2, <1>5, <1>6 DEF TimersFit
<1>. QED BY <1>3, <1>5, <1>6, <1>7, <1>8

\* A session that waits for a timer, or for its learner.
LEMMA PrimedFits ==
  ASSUME NEW s, NEW g, Primed(s, g), NEW t \in Session, t.groups = s.groups,
         t.learned = s.learned, t.current = s.current, t.resume = s.resume,
         t.settings = s.settings, t.over = s.over, t.held = s.held,
         t.sends = s.sends, t.stopped = s.stopped,
         t.phase \in {"countdown", "repeatGap", "awaiting", "interGroupGap"},
         TimersFit(t, {}), Waits(t), AboutNext(t), Confirmed(t)
  PROVE  Fits(t, {}, "no") /\ Room(t) = Cardinality(t.timers)
<1>1. s \in Session /\ t.over = "no" /\ t.held /\ t.sends = {} /\ t.resume.kind = "none"
  BY DEF Primed
<1>2. Learned(t) /\ FullLength(t) /\ TimedRight(t)
  BY <1>1, LearnedStays, FullLengthStays, TimedStays DEF Primed
<1>3. ~IsTerminal(t) /\ ~Paused(t) /\ ~Still(t) /\ t.phase # "playing"
  BY DEF IsTerminal, Paused, Still
<1>4. Leased(t, "no")
  BY <1>1, <1>3 DEF Leased, Primed
<1>5. HeardRight(t, "no")
  <2>. SUFFICES ASSUME NEW h \in Groups, ~t.groups[h].done
                PROVE  LET grp == t.groups[h]
                       IN  /\ grp.heard <= grp.all
                           /\ grp.sending = "sounded" => grp.heard < grp.all + One(Sounds(t, h))
                           /\ grp.counted <= grp.all + One(Sounds(t, h))
                           /\ grp.clean + One(SoundsWhole(t, h)) <= grp.heard + One(grp.sending = "sounded")
                           /\ grp.clean <= grp.heard
                           /\ grp.sending = "none"
    BY DEF HeardRight, HeardSo
  <2>1. ~Sounds(t, h) /\ ~SoundsWhole(t, h)
    BY <1>1 DEF Sounds, SoundsWhole
  <2>2. /\ t.groups[h].heard <= t.groups[h].all /\ t.groups[h].counted <= t.groups[h].all
        /\ t.groups[h].clean <= t.groups[h].heard /\ t.groups[h].sending = "none"
    BY DEF Primed
  <2>. QED BY <2>1, <2>2, GroupNumbers DEF One
<1>6. OutRight(t)
  BY <1>1 DEF OutRight
<1>7. Room(t) = Cardinality(t.timers)
  BY <1>1, TimersAreFinite DEF Room
<1>. QED BY <1>2, <1>4, <1>5, <1>6, <1>7 DEF Fits

LEMMA WaitingFits ==
  ASSUME NEW s, NEW g, Ready(s, g), NEW t \in Session, t.groups = s.groups,
         t.learned = s.learned, t.current = s.current, t.resume = s.resume,
         t.settings = s.settings, t.over = s.over, t.held = s.held,
         t.sends = s.sends, t.stopped = s.stopped,
         t.phase \in {"countdown", "repeatGap", "awaiting", "interGroupGap"},
         TimersFit(t, {}), Waits(t), AboutNext(t), Confirmed(t)
  PROVE  Fits(t, {}, "no") /\ Room(t) = Cardinality(t.timers)
BY PrimedFits DEF Ready

LEMMA CountDownFits ==
  ASSUME NEW s, NEW g, Ready(s, g), ~s.groups[g].complete,
         Cardinality(s.timers) <= MaxTimers + 2, NEW t, t = CountDown(s, g)
  PROVE  Fits(t, {}, "no") /\ Room(t) = Cardinality(s.timers) + 1 /\ Box(t) = Box(s)
<1>1. PICK u : u = [s EXCEPT !.countdownTo = g, !.phase = "countdown",
                             !.remaining = s.settings.countdown]
  OBVIOUS
<1>2. s \in Session /\ g \in Groups /\ g = Told(s)
  BY DEF Ready, Primed
<1>3. s.settings.countdown \in Nat
  BY <1>2, SettingsAssumption DEF Session
<1>4. u \in Session
  BY <1>1, <1>2, <1>3 DEF Session, Phases
<1>5. /\ u.countdownTo = g /\ u.phase = "countdown" /\ u.auto = s.auto /\ u.timers = s.timers
      /\ u.groups = s.groups /\ u.learned = s.learned /\ u.current = s.current
      /\ u.resume = s.resume /\ u.settings = s.settings /\ u.over = s.over /\ u.held = s.held
      /\ u.sends = s.sends /\ u.stopped = s.stopped /\ Box(u) = Box(s)
  BY <1>1, <1>2 DEF Session, Box
<1>6. s.auto = NoAuto
  BY DEF Ready, Primed
<1>7. t = StartPhaseTimer(u, "countdown") /\ "countdown" \in TimerKinds
  BY <1>1 DEF CountDown, TimerKinds
<1>8. /\ t \in Session /\ t.phaseTimer.kind = "countdown" /\ t.auto = u.auto
      /\ Place(t) = Place(u) /\ Box(t) = Box(u) /\ Rest(t) = Rest(u)
      /\ TimersFit(t, {}) /\ Cardinality(t.timers) = Cardinality(u.timers) + 1
  BY <1>4, <1>5, <1>6, <1>7, PhaseTimerDoes
<1>9. /\ t.groups = s.groups /\ t.learned = s.learned /\ t.current = s.current
      /\ t.resume = s.resume /\ t.settings = s.settings /\ t.over = s.over /\ t.held = s.held
      /\ t.sends = s.sends /\ t.stopped = s.stopped
      /\ t.phase = "countdown" /\ t.countdownTo = g
  BY <1>5, <1>8 DEF Place, Rest
<1>10. Waits(t) /\ AboutNext(t) /\ Confirmed(t)
  BY <1>2, <1>5, <1>6, <1>8, <1>9
     DEF Waits, AboutNext, Confirmed, Told, Answerable, Playing
<1>11. Fits(t, {}, "no") /\ Room(t) = Cardinality(t.timers)
  BY <1>8, <1>9, <1>10, WaitingFits
<1>. QED BY <1>5, <1>8, <1>11

\* Once more, just the send or from the start.
\* A pause before it is sent once more.
OnceMore(s, g, kind) == StartPhaseTimer([s EXCEPT !.phase = "repeatGap", !.about = g], kind)

LEMMA RepeatFits ==
  ASSUME NEW s, NEW g, Ready(s, g), AtNext(s, g), NEW kind \in {"gap", "again"},
         Cardinality(s.timers) <= MaxTimers + 2, NEW t, t = OnceMore(s, g, kind)
  PROVE  Fits(t, {}, "no") /\ Room(t) = Cardinality(s.timers) + 1 /\ Box(t) = Box(s)
<1>1. PICK u : u = [s EXCEPT !.phase = "repeatGap", !.about = g]
  OBVIOUS
<1>2. s \in Session /\ g \in Groups /\ g = Told(s)
  BY DEF Ready, Primed
<1>4. u \in Session
  BY <1>1, <1>2 DEF Session, Phases
<1>5. /\ u.about = g /\ u.phase = "repeatGap" /\ u.auto = s.auto /\ u.timers = s.timers
      /\ u.groups = s.groups /\ u.learned = s.learned /\ u.current = s.current
      /\ u.resume = s.resume /\ u.settings = s.settings /\ u.over = s.over /\ u.held = s.held
      /\ u.sends = s.sends /\ u.stopped = s.stopped /\ Box(u) = Box(s) /\ u.begun = s.begun
  BY <1>1, <1>2 DEF Session, Box
<1>6. s.auto # NoAuto => s.auto.id \in s.timers
  BY DEF Ready, Primed, TimersFit
<1>7. t = StartPhaseTimer(u, kind) /\ kind \in TimerKinds
  BY <1>1 DEF TimerKinds, OnceMore
<1>8. /\ t \in Session /\ t.phaseTimer.kind = kind /\ t.auto = u.auto
      /\ Place(t) = Place(u) /\ Box(t) = Box(u) /\ Rest(t) = Rest(u)
      /\ TimersFit(t, {}) /\ Cardinality(t.timers) = Cardinality(u.timers) + 1
  BY <1>4, <1>5, <1>6, <1>7, PhaseTimerDoes
<1>9. /\ t.groups = s.groups /\ t.learned = s.learned /\ t.current = s.current
      /\ t.resume = s.resume /\ t.settings = s.settings /\ t.over = s.over /\ t.held = s.held
      /\ t.sends = s.sends /\ t.stopped = s.stopped /\ t.begun = s.begun
      /\ t.phase = "repeatGap" /\ t.about = g
  BY <1>5, <1>8 DEF Place, Rest
<1>10. Waits(t) /\ AboutNext(t)
  BY <1>2, <1>8, <1>9 DEF Waits, AboutNext, Told, AtNext, Answerable, Playing
<1>11. Confirmed(t)
  BY <1>5, <1>8, <1>9 DEF Confirmed, Answerable, Playing, Ready, Primed, AtNext
<1>12. Fits(t, {}, "no") /\ Room(t) = Cardinality(t.timers)
  BY <1>8, <1>9, <1>10, <1>11, WaitingFits
<1>. QED BY <1>5, <1>8, <1>12

LEMMA AwaitFits ==
  ASSUME NEW s, NEW g, Ready(s, g), AtNext(s, g),
         Cardinality(s.timers) <= MaxTimers + 2, NEW t, t = AwaitAnswer(s, g)
  PROVE  Fits(t, {}, "no") /\ Room(t) <= Cardinality(s.timers) + 1 /\ Box(t) = Box(s)
<1>1. PICK u : u = [s EXCEPT !.phase = "awaiting", !.about = g]
  OBVIOUS
<1>2. s \in Session /\ g \in Groups /\ g = Told(s)
  BY DEF Ready, Primed
<1>4. u \in Session
  BY <1>1, <1>2 DEF Session, Phases
<1>5. /\ u.about = g /\ u.phase = "awaiting" /\ u.auto = s.auto /\ u.timers = s.timers
      /\ u.groups = s.groups /\ u.learned = s.learned /\ u.current = s.current
      /\ u.resume = s.resume /\ u.settings = s.settings /\ u.over = s.over /\ u.held = s.held
      /\ u.sends = s.sends /\ u.stopped = s.stopped /\ Box(u) = Box(s) /\ u.begun = s.begun
      /\ u.phaseTimer = s.phaseTimer
  BY <1>1, <1>2 DEF Session, Box
<1>6. s.auto # NoAuto => s.auto.id \in s.timers
  BY DEF Ready, Primed, TimersFit
<1>7. CASE s.settings.window
  <2>1. t = StartPhaseTimer(u, "window") /\ "window" \in TimerKinds
    BY <1>1, <1>7 DEF AwaitAnswer, TimerKinds
  <2>2. /\ t \in Session /\ t.phaseTimer.kind = "window" /\ t.auto = u.auto
        /\ Place(t) = Place(u) /\ Box(t) = Box(u) /\ Rest(t) = Rest(u)
        /\ TimersFit(t, {}) /\ Cardinality(t.timers) = Cardinality(u.timers) + 1
    BY <1>4, <1>5, <1>6, <2>1, PhaseTimerDoes
  <2>3. /\ t.groups = s.groups /\ t.learned = s.learned /\ t.current = s.current
        /\ t.resume = s.resume /\ t.settings = s.settings /\ t.over = s.over /\ t.held = s.held
        /\ t.sends = s.sends /\ t.stopped = s.stopped /\ t.begun = s.begun
        /\ t.phase = "awaiting" /\ t.about = g
    BY <1>5, <2>2 DEF Place, Rest
  <2>4. Waits(t) /\ AboutNext(t)
    BY <1>2, <2>2, <2>3 DEF Waits, AboutNext, Told, AtNext, Answerable, Playing
  <2>5. Confirmed(t)
    BY <1>5, <2>2, <2>3 DEF Confirmed, Answerable, Playing, Ready, Primed, AtNext
  <2>6. Fits(t, {}, "no") /\ Room(t) = Cardinality(t.timers)
    BY <2>2, <2>3, <2>4, <2>5, WaitingFits
  <2>. QED BY <1>2, <1>5, <2>2, <2>6, TimersAreFinite
<1>8. CASE ~s.settings.window
  <2>1. t = u
    BY <1>1, <1>8 DEF AwaitAnswer
  <2>2. TimersFit(t, {})
    BY <1>5, <2>1 DEF TimersFit, Ready, Primed
  <2>3. Waits(t) /\ AboutNext(t)
    BY <1>2, <1>5, <1>8, <2>1 DEF Waits, AboutNext, Told, AtNext, Answerable, Playing
  <2>4. Confirmed(t)
    BY <1>5, <2>1 DEF Confirmed, Answerable, Playing, Ready, Primed, AtNext
  <2>5. Fits(t, {}, "no") /\ Room(t) = Cardinality(t.timers)
    BY <1>4, <1>5, <2>1, <2>2, <2>3, <2>4, WaitingFits
  <2>. QED BY <1>2, <1>5, <2>1, <2>5, TimersAreFinite
<1>. QED BY <1>2, <1>7, <1>8 DEF Session

-----------------------------------------------------------------------------

(***************************************************************************)
(* Pausing.                                                                *)
(***************************************************************************)
LEMMA SendsAreOfNext ==
  ASSUME NEW s, NEW due, NEW amiss, Fits(s, due, amiss)
  PROVE  /\ \A x, y \in s.sends : x = y
         /\ \A x \in s.sends : x.of = Told(s) /\ x.of = s.about /\ x \in SendOf
         /\ \A x \in s.sends : s.phase = "playing"
         /\ Told(s) \in Nat
<1>1. /\ \A x, y \in s.sends : x = y
      /\ \A x \in s.sends : s.phase = "playing" /\ x.of = s.about
      /\ s \in Session
  BY DEF Fits, Leased
<1>2. s.phase = "playing" => s.about = Told(s)
  BY DEF Fits, AboutNext, Answerable, Playing
<1>. QED BY <1>1, <1>2 DEF Session, Told

LEMMA ResumeFromDoes ==
  ASSUME NEW s, NEW due, NEW amiss, Fits(s, due, amiss), ~Still(s),
         NEW to, to = ResumeFrom(s)
  PROVE  /\ to \in ResumeOf /\ to.kind \in {"send", "answer"} /\ to.of = Told(s)
         /\ to.kind = "send" => ~s.groups[to.of].complete
         /\ to.kind = "answer" =>
              s.current = Told(s) /\ (s.groups[s.current].input # "none" => s.begun)
         /\ PlayingGroup(s, s.about) => s.about = to.of
<1>1. s \in Session
  BY DEF Fits
<1>2. s.phase \in {"countdown", "playing", "repeatGap", "interGroupGap", "awaiting"}
  BY <1>1 DEF Session, Phases, Still, IsTerminal
<1>3. CASE s.phase = "countdown"
  <2>1. to = [kind |-> "send", of |-> s.countdownTo]
    BY <1>3 DEF ResumeFrom, Playing
  <2>2. s.countdownTo = Told(s) /\ ~s.groups[s.countdownTo].complete
    BY <1>3 DEF Fits, AboutNext, Confirmed
  <2>. QED BY <1>1, <1>3, <2>1, <2>2 DEF ResumeOf, Session, PlayingGroup
<1>4. CASE s.phase = "interGroupGap"
  <2>1. to = [kind |-> "send", of |-> s.about]
    BY <1>4 DEF ResumeFrom, Playing
  <2>2. s.about = Told(s) /\ ~s.groups[s.about].complete
    BY <1>4 DEF Fits, AboutNext, Confirmed
  <2>. QED BY <1>1, <1>4, <2>1, <2>2 DEF ResumeOf, Session, PlayingGroup
<1>5. CASE s.phase \in {"playing", "repeatGap", "awaiting"}
  <2>1. Answerable(s)
    BY <1>5 DEF Answerable, Playing
  <2>2. /\ s.current = Told(s) /\ s.about = Told(s)
        /\ s.groups[s.current].input # "none" => s.begun
        /\ s.auto # NoAuto <=> s.groups[s.about].complete
        /\ s.auto # NoAuto => s.auto.of = s.about
    BY <2>1 DEF Fits, AboutNext, Confirmed
  <2>3. CASE Playing(s)
    <3>1. to = [kind |-> IF s.auto # NoAuto /\ s.auto.of = s.about THEN "answer" ELSE "send",
                of |-> s.about]
      BY <2>3 DEF ResumeFrom, Playing
    <3>2. CASE s.groups[s.about].complete
      BY <1>1, <2>2, <3>1, <3>2 DEF ResumeOf, Session
    <3>3. CASE ~s.groups[s.about].complete
      BY <1>1, <2>2, <3>1, <3>3 DEF ResumeOf, Session
    <3>. QED BY <3>2, <3>3
  <2>4. CASE s.phase = "awaiting"
    <3>1. to = [kind |-> "answer", of |-> s.about]
      BY <2>4 DEF ResumeFrom, Playing
    <3>. QED BY <1>1, <2>2, <3>1 DEF ResumeOf, Session
  <2>. QED BY <1>5, <2>3, <2>4 DEF Playing
<1>. QED BY <1>2, <1>3, <1>4, <1>5

LEMMA Ones == \A b : One(b) \in {0, 1} /\ (b => One(b) = 1) /\ (~b => One(b) = 0)
BY DEF One

\* The hearings of a group as its send is stopped, and cut, where it is.
LEMMA HeardOfStopped ==
  ASSUME NEW s, NEW due, NEW amiss, Fits(s, due, amiss), ~IsTerminal(s),
         NEW h \in Groups, ~s.groups[h].done
  PROVE  LET grp == s.groups[h]
             all == grp.all + One(Sounds(s, h))
             clean == grp.clean + One(SoundsWhole(s, h))
         IN  /\ HeardByNow(grp) <= all /\ grp.heard <= all /\ grp.counted <= all
             /\ clean <= HeardByNow(grp)
             /\ grp.sending = "none" => clean <= grp.heard
<1>1. s \in Session /\ HeardRight(s, amiss)
  BY DEF Fits
<1>2. /\ s.groups[h].heard \in Nat /\ s.groups[h].all \in Nat
      /\ s.groups[h].clean \in Nat /\ s.groups[h].counted \in Nat
  BY <1>1, GroupNumbers
<1>3. /\ s.groups[h].heard <= s.groups[h].all
      /\ s.groups[h].sending = "sounded" => s.groups[h].heard < s.groups[h].all + One(Sounds(s, h))
      /\ s.groups[h].counted <= s.groups[h].all + One(Sounds(s, h))
      /\ s.groups[h].clean + One(SoundsWhole(s, h))
           <= s.groups[h].heard + One(s.groups[h].sending = "sounded")
  BY <1>1 DEF HeardRight, HeardSo
<1>4. One(Sounds(s, h)) \in {0, 1} /\ One(SoundsWhole(s, h)) \in {0, 1}
  BY Ones
<1>5. CASE s.groups[h].sending = "sounded"
  <2>1. One(s.groups[h].sending = "sounded") = 1
    BY <1>5 DEF One
  <2>2. HeardByNow(s.groups[h]) = s.groups[h].heard + 1
    BY <1>5 DEF HeardByNow
  <2>. QED BY <1>2, <1>3, <1>4, <1>5, <2>1, <2>2
<1>6. CASE s.groups[h].sending # "sounded"
  <2>1. One(s.groups[h].sending = "sounded") = 0
    BY <1>6 DEF One
  <2>2. HeardByNow(s.groups[h]) = s.groups[h].heard
    BY <1>2, <1>6 DEF HeardByNow
  <2>. QED BY <1>2, <1>3, <1>4, <1>6, <2>1, <2>2
<1>. QED BY <1>5, <1>6

LEMMA PauseDoes ==
  ASSUME NEW s, NEW due, NEW amiss, Fits(s, due, amiss), ~Still(s),
         NEW t, t = PauseSession(s), NEW g, g = Told(s)
  PROVE  /\ t \in Session /\ g \in Groups
         /\ t.phase = "paused" /\ t.about = g /\ t.resume = ResumeFrom(s) /\ t.resume.of = g
         /\ \E groups :
              /\ Stopped(s, groups)
              /\ t.groups[g] = KeysBeforePause(CutSend(groups[g]))
              /\ \A h \in Groups \ {g} : t.groups[h] = groups[h]
         /\ t.settings = s.settings /\ t.current = s.current /\ t.begun = s.begun
         /\ t.learned = s.learned /\ t.over = s.over /\ Box(t) = Box(s)
         /\ ~t.held /\ t.timers = {} /\ t.sends = {}
         /\ t.phaseTimer = NoPhaseTimer /\ t.auto = NoAuto
<1>1. s \in Session /\ \A x, y \in s.sends : x = y
  BY SendsAreOfNext DEF Fits
<1>2. PICK to : to = ResumeFrom(s)
  OBVIOUS
<1>3. to \in ResumeOf /\ to.of = g
  BY <1>2, ResumeFromDoes
<1>4. g \in Groups
  BY <1>3 DEF ResumeOf
<1>5. PICK u : u = ReleaseAudio(CancelTimers(s))
  OBVIOUS
<1>6. /\ u \in Session /\ Stopped(s, u.groups)
      /\ Place(u) = Place(s) /\ Box(u) = Box(s) /\ u.over = s.over /\ ~u.held
      /\ u.timers = {} /\ u.phaseTimer = NoPhaseTimer /\ u.auto = NoAuto /\ u.sends = {}
  BY <1>1, <1>5, ReleaseDoes
<1>7. u.groups \in [Groups -> GroupOf] /\ u.groups[g] \in GroupOf
  BY <1>4, <1>6, GroupTypes
<1>8. PICK grp : grp = KeysBeforePause(CutSend(u.groups[g]))
  OBVIOUS
<1>9. grp \in GroupOf
  BY <1>7, <1>8, CutDoes
<1>10. PICK groups : groups = [u.groups EXCEPT ![g] = grp]
  OBVIOUS
<1>11. /\ groups \in [Groups -> GroupOf] /\ groups[g] = grp
       /\ \A h \in Groups \ {g} : groups[h] = u.groups[h]
  BY <1>4, <1>7, <1>9, <1>10
<1>12. ~Paused(s) /\ ~IsTerminal(s)
  BY DEF Still, Paused
<1>13. t = [u EXCEPT !.groups = groups, !.resume = to, !.phase = "paused", !.about = g]
  BY <1>2, <1>3, <1>5, <1>8, <1>10, <1>12 DEF PauseSession
<1>14. t \in Session
  BY <1>3, <1>4, <1>6, <1>11, <1>13 DEF Session, Phases
<1>15. /\ t.phase = "paused" /\ t.about = g /\ t.resume = to /\ t.groups = groups
       /\ t.settings = u.settings /\ t.current = u.current /\ t.begun = u.begun
       /\ t.learned = u.learned /\ t.over = u.over /\ Box(t) = Box(u)
       /\ t.held = u.held /\ t.timers = u.timers /\ t.sends = u.sends
       /\ t.phaseTimer = u.phaseTimer /\ t.auto = u.auto
  BY <1>6, <1>13 DEF Session, Box
<1>16. /\ u.settings = s.settings /\ u.current = s.current /\ u.begun = s.begun
       /\ u.learned = s.learned
  BY <1>6 DEF Place
<1>17. \E some : /\ Stopped(s, some)
                 /\ t.groups[g] = KeysBeforePause(CutSend(some[g]))
                 /\ \A h \in Groups \ {g} : t.groups[h] = some[h]
  BY <1>6, <1>8, <1>11, <1>15
<1>. QED BY <1>2, <1>3, <1>4, <1>6, <1>14, <1>15, <1>16, <1>17

LEMMA PauseFits ==
  ASSUME NEW s, NEW due, NEW amiss, Fits(s, due, amiss), ~Still(s),
         NEW t, t = PauseSession(s)
  PROVE  Fits(t, {}, "no") /\ Room(t) = 0 /\ Box(t) = Box(s) /\ Paused(t)
<1>0. PICK g : g = Told(s)
  OBVIOUS
<1>1. /\ t \in Session /\ g \in Groups
      /\ t.phase = "paused" /\ t.about = g /\ t.resume = ResumeFrom(s) /\ t.resume.of = g
      /\ t.current = s.current /\ t.begun = s.begun
      /\ t.learned = s.learned /\ t.over = s.over /\ Box(t) = Box(s)
      /\ ~t.held /\ t.timers = {} /\ t.sends = {}
      /\ t.phaseTimer = NoPhaseTimer /\ t.auto = NoAuto
  BY <1>0, PauseDoes
<1>2. PICK groups : /\ Stopped(s, groups)
                    /\ t.groups[g] = KeysBeforePause(CutSend(groups[g]))
                    /\ \A h \in Groups \ {g} : t.groups[h] = groups[h]
  BY <1>0, PauseDoes
<1>3. /\ s \in Session /\ ~IsTerminal(s) /\ s.over = "no"
      /\ Learned(s) /\ FullLength(s) /\ TimedRight(s) /\ s.resume.kind = "none"
  BY DEF Fits, Leased, Still, Paused
<1>4. PICK to : to = ResumeFrom(s)
  OBVIOUS
<1>5. /\ to.kind \in {"send", "answer"} /\ to.of = g
      /\ to.kind = "send" => ~s.groups[g].complete
      /\ to.kind = "answer" =>
           s.current = g /\ (s.groups[g].input # "none" => s.begun)
      /\ PlayingGroup(s, s.about) => s.about = g
  BY <1>0, <1>4, ResumeFromDoes
<1>6. groups \in [Groups -> GroupOf]
  BY <1>2 DEF Stopped
<1>7. /\ Entered(t.groups[g]) = Entered(groups[g])
      /\ t.groups[g].heard = HeardByNow(groups[g]) /\ t.groups[g].sending = "none"
      /\ t.groups[g].all = groups[g].all /\ t.groups[g].clean = groups[g].clean
      /\ t.groups[g].sounding = groups[g].sounding /\ t.groups[g].untimed = groups[g].untimed
      /\ t.groups[g].pausedComplete = groups[g].pausedComplete
      /\ ~t.groups[g].since /\ (t.groups[g].before => groups[g].before \/ groups[g].since)
  <2>1. groups[g] \in GroupOf
    BY <1>1, <1>6
  <2>2. PICK grp : grp = groups[g]
    OBVIOUS
  <2>3. PICK cut : cut = KeysBeforePause(CutSend(grp))
    OBVIOUS
  <2>4. /\ Entered(cut) = Entered(grp)
        /\ cut.heard = HeardByNow(grp) /\ cut.sending = "none"
        /\ cut.all = grp.all /\ cut.clean = grp.clean
        /\ cut.sounding = grp.sounding /\ cut.untimed = grp.untimed
        /\ cut.pausedComplete = grp.pausedComplete
        /\ ~cut.since /\ (cut.before => grp.before \/ grp.since)
    BY <2>1, <2>2, <2>3, CutDoes
  <2>. QED BY <1>2, <2>2, <2>3, <2>4
<1>8. \A h \in Groups :
        /\ Entered(groups[h]) = Entered(s.groups[h]) /\ Keyed(groups[h]) = Keyed(s.groups[h])
        /\ groups[h].heard = s.groups[h].heard /\ groups[h].sending = s.groups[h].sending
        /\ ~s.groups[h].done =>
             /\ groups[h].all = s.groups[h].all + One(Sounds(s, h))
             /\ groups[h].clean = s.groups[h].clean + One(SoundsWhole(s, h))
        /\ (\A x \in s.sends : x.of # h) => groups[h] = s.groups[h]
  BY <1>2 DEF Stopped
<1>9. \A h \in Groups : /\ t.groups[h].input = s.groups[h].input
                        /\ t.groups[h].done = s.groups[h].done
                        /\ t.groups[h].complete = s.groups[h].complete
                        /\ t.groups[h].counted = s.groups[h].counted
  BY <1>2, <1>7, <1>8 DEF Entered
<1>10. Learned(t) /\ Told(t) = g
  <2>1. \A h \in Groups : h > g => t.groups[h] = s.groups[h]
    <3>. SUFFICES ASSUME NEW h \in Groups, h > g PROVE t.groups[h] = s.groups[h]
      OBVIOUS
    <3>1. g \in Nat /\ h # g
      BY <1>0, SendsAreOfNext
    <3>2. \A x \in s.sends : x.of # h
      BY <1>0, <3>1, SendsAreOfNext
    <3>. QED BY <1>2, <1>8, <3>1, <3>2
  <2>. QED BY <1>0, <1>1, <1>3, <1>9, <2>1, LearnedStays
<1>11. FullLength(t)
  BY <1>1, <1>3, <1>9, FullLengthStays
<1>12. TimedRight(t)
  <2>. SUFFICES ASSUME NEW h \in Groups
                PROVE  LET grp == t.groups[h]
                           toResume == t.resume.kind # "none" /\ t.resume.of = h
                       IN  /\ grp.since => grp.sounding /\ ~toResume
                           /\ grp.before => grp.sounding
                                            /\ (grp.untimed \/ grp.pausedComplete \/ toResume)
                           /\ grp.since /\ grp.before => grp.untimed
    BY DEF TimedRight
  <2>1. /\ s.groups[h].since => s.groups[h].sounding
        /\ s.groups[h].before =>
             s.groups[h].sounding /\ (s.groups[h].untimed \/ s.groups[h].pausedComplete)
        /\ s.groups[h].since /\ s.groups[h].before => s.groups[h].untimed
    BY <1>3 DEF TimedRight
  <2>2. Keyed(groups[h]) = Keyed(s.groups[h])
    BY <1>8
  <2>3. CASE h = g
    BY <1>1, <1>4, <1>5, <1>7, <2>1, <2>2, <2>3 DEF Keyed
  <2>4. CASE h # g
    BY <1>1, <1>2, <2>1, <2>2, <2>4 DEF Keyed
  <2>. QED BY <2>3, <2>4
<1>13. HeardRight(t, "no")
  <2>. SUFFICES ASSUME NEW h \in Groups, ~t.groups[h].done
                PROVE  LET grp == t.groups[h]
                       IN  /\ grp.heard <= grp.all
                           /\ grp.sending = "sounded" => grp.heard < grp.all + One(Sounds(t, h))
                           /\ grp.counted <= grp.all + One(Sounds(t, h))
                           /\ grp.clean + One(SoundsWhole(t, h)) <= grp.heard + One(grp.sending = "sounded")
                           /\ grp.clean <= grp.heard
                           /\ grp.sending = "none"
    BY DEF HeardRight, HeardSo
  <2>1. /\ One(Sounds(t, h)) = 0 /\ One(SoundsWhole(t, h)) = 0
    BY <1>1 DEF Sounds, SoundsWhole, One
  <2>2. ~s.groups[h].done
    BY <1>9
  <2>3. LET grp == s.groups[h]
            all == grp.all + One(Sounds(s, h))
            clean == grp.clean + One(SoundsWhole(s, h))
        IN  /\ HeardByNow(grp) <= all /\ grp.heard <= all /\ grp.counted <= all
            /\ clean <= HeardByNow(grp)
            /\ grp.sending = "none" => clean <= grp.heard
    BY <1>3, <2>2, HeardOfStopped
  <2>4. t.groups[h].sending = "none" /\ t.groups[h].counted = s.groups[h].counted
    <3>1. CASE h = g
      BY <1>7, <1>9, <3>1
    <3>2. CASE h # g
      <4>1. ~PlayingGroup(s, h)
        BY <1>5, <3>2 DEF PlayingGroup
      <4>2. s.groups[h].sending = "none"
        BY <1>3, <2>2, <4>1 DEF Fits, HeardRight, HeardSo
      <4>. QED BY <1>2, <1>8, <1>9, <3>2, <4>2
    <3>. QED BY <3>1, <3>2
  <2>5. /\ t.groups[h].all = s.groups[h].all + One(Sounds(s, h))
        /\ t.groups[h].clean = s.groups[h].clean + One(SoundsWhole(s, h))
    BY <1>2, <1>7, <1>8, <2>2
  <2>6. t.groups[h].heard <= t.groups[h].all /\ t.groups[h].clean <= t.groups[h].heard
    <3>1. CASE h = g
      <4>1. HeardByNow(groups[h]) = HeardByNow(s.groups[h])
        BY <1>8 DEF HeardByNow
      <4>. QED BY <1>7, <2>3, <2>5, <3>1, <4>1
    <3>2. CASE h # g
      <4>1. t.groups[h].heard = s.groups[h].heard /\ s.groups[h].sending = "none"
        BY <1>2, <1>8, <2>4, <3>2
      <4>. QED BY <2>3, <2>5, <4>1
    <3>. QED BY <3>1, <3>2
  <2>7. t.groups[h].counted <= t.groups[h].all
    BY <2>3, <2>4, <2>5
  <2>8. One(t.groups[h].sending = "sounded") = 0
    BY <2>4 DEF One
  <2>. QED BY <1>1, <2>1, <2>4, <2>6, <2>7, <2>8, GroupNumbers
<1>14. Leased(t, "no") /\ TimersFit(t, {}) /\ Waits(t) /\ OutRight(t)
  <2>1. ~IsTerminal(t) /\ Paused(t) /\ Still(t) /\ t.resume.kind # "none"
    BY <1>1, <1>4, <1>5 DEF IsTerminal, Paused, Still
  <2>. QED BY <1>1, <1>3, <2>1 DEF Leased, TimersFit, Waits, OutRight, Paused
<1>15. AboutNext(t)
  BY <1>1, <1>4, <1>5, <1>10 DEF AboutNext, Answerable, Playing
<1>16. Confirmed(t)
  BY <1>1, <1>4, <1>5, <1>9 DEF Confirmed, Answerable, Playing
<1>17. Room(t) = 0 /\ Paused(t)
  BY <1>1, StillHasRoom DEF Paused
<1>. QED BY <1>1, <1>10, <1>11, <1>12, <1>13, <1>14, <1>15, <1>16, <1>17 DEF Fits

-----------------------------------------------------------------------------

(***************************************************************************)
(* Entering.                                                               *)
(***************************************************************************)
LEMMA NextIsCurrent ==
  ASSUME NEW s, NEW due, NEW amiss, Fits(s, due, amiss), Answerable(s)
  PROVE  /\ s.about = Told(s) /\ s.current = Told(s) /\ s.about \in Groups
         /\ ~s.groups[s.about].done /\ s.resume.kind = "none" /\ ~Still(s)
         /\ s.over = "no" /\ s.held
<1>1. s.about = Told(s) /\ s.current = Told(s) /\ s \in Session
  BY DEF Fits, AboutNext
<1>2. ~Still(s) /\ ~IsTerminal(s) /\ ~Paused(s)
  BY DEF Answerable, Playing, Still, IsTerminal, Paused
<1>3. s.about \in Groups /\ s.groups[s.about].done \in BOOLEAN /\ Told(s) \in Nat
  BY <1>1, SendsAreOfNext DEF Session, GroupOf
<1>4. ~s.groups[s.about].done
  BY <1>1, <1>3 DEF Fits, Learned
<1>. QED BY <1>1, <1>2, <1>3, <1>4 DEF Fits, Leased

\* An answer entered, but for when it is confirmed.
LEMMA EnteredFits ==
  ASSUME NEW s, NEW due, NEW amiss, Fits(s, due, amiss), Answerable(s),
         NEW a \in Answers, NEW grp, grp = SetInput(s.groups[s.about], a),
         NEW t \in Session, t.groups = [s.groups EXCEPT ![s.about] = grp],
         t.begun = (s.begun \/ a # "none"),
         t.settings = s.settings, t.phase = s.phase, t.about = s.about, t.current = s.current,
         t.countdownTo = s.countdownTo, t.resume = s.resume, t.missed = s.missed,
         t.known = s.known, t.learned = s.learned, t.over = s.over, t.held = s.held,
         t.sends = s.sends, t.stopped = s.stopped, t.phaseTimer = s.phaseTimer,
         TimersFit(t, due), Confirmed(t)
  PROVE  Fits(t, due, amiss)
<1>0. PICK g : g = s.about
  OBVIOUS
<1>1. /\ g = Told(s) /\ s.current = g /\ g \in Groups /\ ~s.groups[g].done
      /\ s.resume.kind = "none" /\ ~Still(s) /\ s.over = "no" /\ s.held
  BY <1>0, NextIsCurrent
<1>2. s \in Session /\ ~IsTerminal(s)
  BY <1>1 DEF Fits, Still
<1>3. s.groups \in [Groups -> GroupOf] /\ s.groups[g] \in GroupOf
  BY <1>1, <1>2, GroupTypes
<1>4. PICK old : old = s.groups[g]
  OBVIOUS
<1>5. /\ grp \in GroupOf /\ grp.input = a /\ ~grp.done /\ (grp.complete <=> a \in Whole)
      /\ grp.counted \in {old.counted, 0, HeardByNow(old)}
      /\ Played(grp) = Played(old)
      /\ grp.sounding = old.sounding /\ grp.pausedComplete = old.pausedComplete
      /\ old.untimed => grp.untimed
      /\ old.pausedComplete /\ a # old.input /\ old.sounding => grp.untimed
      /\ grp.since => old.since \/ (a # old.input /\ old.sounding)
      /\ grp.before => old.before
  BY <1>0, <1>1, <1>3, <1>4, SetInputDoes
<1>6. t.groups[g] = grp /\ \A h \in Groups \ {g} : t.groups[h] = s.groups[h]
  BY <1>0, <1>1, <1>3
<1>7. Learned(t)
  <2>1. Told(t) = g /\ g \in Nat
    BY <1>1, SendsAreOfNext DEF Told
  <2>2. \A h \in Groups : t.groups[h].done = s.groups[h].done
    BY <1>1, <1>3, <1>5, <1>6 DEF GroupOf
  <2>3. \A h \in Groups : h > g => t.groups[h] = s.groups[h]
    BY <1>6, <2>1
  <2>4. \A i \in 1 .. g : t.learned[i] = <<i - 1, t.groups[i - 1].input>>
    <3>. SUFFICES ASSUME NEW i \in 1 .. g
                  PROVE  t.learned[i] = <<i - 1, t.groups[i - 1].input>>
      OBVIOUS
    <3>1. s.learned[i] \in Groups \X Answers /\ s.learned[i] = <<i - 1, s.groups[i - 1].input>>
      BY <1>1, <1>2 DEF Fits, Learned, Told, Session
    <3>2. i - 1 \in Groups /\ i - 1 # g
      BY <2>1, <3>1
    <3>. QED BY <1>6, <3>1, <3>2
  <2>. QED BY <1>1, <2>1, <2>2, <2>3, <2>4 DEF Fits, Learned
<1>8. FullLength(t)
  BY <1>5, <1>6 DEF Fits, FullLength
<1>9. TimedRight(t)
  <2>. SUFFICES ASSUME NEW h \in Groups
                PROVE  /\ t.groups[h].since => t.groups[h].sounding
                       /\ t.groups[h].before =>
                            t.groups[h].sounding
                            /\ (t.groups[h].untimed \/ t.groups[h].pausedComplete)
                       /\ t.groups[h].since /\ t.groups[h].before => t.groups[h].untimed
    BY <1>1 DEF TimedRight
  <2>1. /\ s.groups[h].since => s.groups[h].sounding
        /\ s.groups[h].before =>
             s.groups[h].sounding /\ (s.groups[h].untimed \/ s.groups[h].pausedComplete)
        /\ s.groups[h].since /\ s.groups[h].before => s.groups[h].untimed
    BY <1>1 DEF Fits, TimedRight
  <2>2. CASE h = g
    BY <1>4, <1>5, <1>6, <2>1, <2>2
  <2>3. CASE h # g
    BY <1>6, <2>1, <2>3
  <2>. QED BY <2>2, <2>3
<1>10. HeardRight(t, amiss)
  <2>1. \A h \in Groups : /\ Sounds(t, h) = Sounds(s, h) /\ SoundsWhole(t, h) = SoundsWhole(s, h)
                          /\ PlayingGroup(t, h) = PlayingGroup(s, h)
    BY DEF Sounds, SoundsWhole, PlayingGroup
  <2>2. \A h \in Groups : t.groups[h].done = s.groups[h].done /\ Played(t.groups[h]) = Played(s.groups[h])
    BY <1>1, <1>2, <1>3, <1>4, <1>5, <1>6 DEF GroupOf
  <2>3. ASSUME NEW h \in Groups, ~s.groups[h].done
        PROVE  t.groups[h].counted <= s.groups[h].all + One(Sounds(s, h))
    <3>1. /\ HeardByNow(s.groups[h]) <= s.groups[h].all + One(Sounds(s, h))
          /\ s.groups[h].counted <= s.groups[h].all + One(Sounds(s, h))
      BY <1>2, <2>3, HeardOfStopped
    <3>2. 0 <= s.groups[h].all + One(Sounds(s, h))
      BY <1>2, Ones, GroupNumbers
    <3>. QED BY <1>4, <1>5, <1>6, <3>1, <3>2
  <2>. SUFFICES ASSUME NEW h \in Groups, ~t.groups[h].done
                PROVE  LET was == t.groups[h]
                       IN  /\ was.heard <= was.all
                           /\ was.sending = "sounded" => was.heard < was.all + One(Sounds(t, h))
                           /\ was.counted <= was.all + One(Sounds(t, h))
                           /\ was.clean + One(SoundsWhole(t, h)) <= was.heard + One(was.sending = "sounded")
                           /\ amiss \notin {"failed", "ended"} => was.clean <= was.heard
                           /\ ~PlayingGroup(t, h) => was.sending = "none"
                           /\ PlayingGroup(t, h) /\ t.missed => was.sending = "none"
                           /\ amiss = "ended" /\ PlayingGroup(t, h) => was.heard < was.all
    BY DEF HeardRight, HeardSo
  <2>4. LET was == s.groups[h]
        IN  /\ was.heard <= was.all
            /\ was.sending = "sounded" => was.heard < was.all + One(Sounds(s, h))
            /\ was.clean + One(SoundsWhole(s, h)) <= was.heard + One(was.sending = "sounded")
            /\ amiss \notin {"failed", "ended"} => was.clean <= was.heard
            /\ ~PlayingGroup(s, h) => was.sending = "none"
            /\ PlayingGroup(s, h) /\ s.missed => was.sending = "none"
            /\ amiss = "ended" /\ PlayingGroup(s, h) => was.heard < was.all
    BY <1>2, <2>2 DEF Fits, HeardRight, HeardSo
  <2>5. /\ t.groups[h].heard = s.groups[h].heard /\ t.groups[h].sending = s.groups[h].sending
        /\ t.groups[h].all = s.groups[h].all /\ t.groups[h].clean = s.groups[h].clean
    BY <2>2 DEF Played
  <2>. QED BY <2>1, <2>2, <2>3, <2>4, <2>5
<1>11. OutRight(s) => OutRight(t)
  <2>. SUFFICES ASSUME OutRight(s), NEW x \in t.sends, x.out
                PROVE  t.known /\ (~x.lost /\ ~x.sounded => t.groups[x.of].sending = "silent")
    BY DEF OutRight
  <2>1. x.of = g
    BY <1>1, SendsAreOfNext
  <2>2. t.groups[x.of].sending = s.groups[x.of].sending
    BY <1>4, <1>5, <1>6, <2>1 DEF Played
  <2>. QED BY <2>2 DEF OutRight
<1>12. Leased(t, amiss)
  <2>1. IsTerminal(t) = IsTerminal(s) /\ Still(t) = Still(s) /\ Paused(t) = Paused(s)
    BY DEF IsTerminal, Still, Paused
  <2>2. \A h \in t.stopped : h # g /\ t.groups[h].done
    BY <1>1, <1>2, <1>6 DEF Fits, Leased, Session
  <2>3. /\ \A x, y \in t.sends : x = y
        /\ \A x \in t.sends : t.phase = "playing" /\ x.of = t.about
        /\ t.phase = "playing" => (t.sends = {} <=> amiss \in {"failed", "ended"})
        /\ ~IsTerminal(t) => (t.resume.kind = "none" <=> ~Paused(t))
        /\ IsTerminal(t) <=> t.over # "no"
    BY <2>1 DEF Fits, Leased
  <2>. QED BY <1>1, <1>2, <2>1, <2>2, <2>3 DEF Leased, Still
<1>13. Waits(t)
  BY DEF Fits, Waits
<1>14. AboutNext(t)
  BY DEF Fits, AboutNext, Told, Answerable, Playing
<1>. QED BY <1>7, <1>8, <1>9, <1>10, <1>11, <1>12, <1>13, <1>14 DEF Fits

\* What of a session entering leaves as it was.
Scene(s) == <<s.phase, s.about, s.sends, s.phaseTimer, s.current, s.learned, s.resume,
              s.over, s.held>>

LEMMA InputFits ==
  ASSUME NEW s, NEW due, NEW amiss, Fits(s, due, amiss), NEW a \in Answers,
         a \in Whole => due = {} /\ Cardinality(s.timers) <= MaxTimers + 2,
         NEW t, t = Input(s, a)
  PROVE  /\ Fits(t, due, amiss) /\ Scene(t) = Scene(s) /\ Box(t) = Box(s)
         /\ Cardinality(t.timers) <= Cardinality(s.timers) + One(a \in Whole)
<1>0. s \in Session
  BY DEF Fits
<1>1. CASE ~Answerable(s) \/ InputLocked(s, s.about)
  <2>1. t = s
    BY <1>1 DEF Input
  <2>2. Cardinality(t.timers) <= Cardinality(s.timers) + One(a \in Whole)
    BY <1>0, <2>1, Ones, TimersAreFinite
  <2>. QED BY <2>1, <2>2
<1>2. CASE Answerable(s) /\ ~InputLocked(s, s.about)
  <2>0. PICK g : g = s.about
    OBVIOUS
  <2>1. /\ g = Told(s) /\ s.current = g /\ g \in Groups /\ ~s.groups[g].done
    BY <1>2, <2>0, NextIsCurrent
  <2>2. s.settings.lock => s.phase = "awaiting"
    <3>1. s.settings.lock \in BOOLEAN
      BY <1>0, SettingsAssumption DEF Session
    <3>. QED BY <1>2, <2>0, <2>1, <3>1 DEF InputLocked, Answerable
  <2>3. PICK grp : grp = SetInput(s.groups[g], a)
    OBVIOUS
  <2>4. s.groups \in [Groups -> GroupOf] /\ s.groups[g] \in GroupOf
    BY <1>0, <2>1, GroupTypes
  <2>5. grp \in GroupOf /\ grp.input = a /\ (grp.complete <=> a \in Whole)
    BY <2>1, <2>3, <2>4, SetInputDoes
  <2>6. PICK begun \in BOOLEAN : begun = (s.begun \/ a # "none")
    OBVIOUS
  <2>7. PICK groups : groups = [s.groups EXCEPT ![g] = grp]
    OBVIOUS
  <2>8. groups \in [Groups -> GroupOf] /\ groups[g] = grp
    BY <2>1, <2>4, <2>5, <2>7
  <2>9. PICK typed : typed = [s EXCEPT !.groups = groups, !.begun = begun]
    OBVIOUS
  <2>10. typed \in Session
    BY <1>0, <2>8, <2>9 DEF Session
  <2>11. /\ typed.groups = groups /\ typed.begun = begun
         /\ typed.settings = s.settings /\ typed.phase = s.phase /\ typed.about = s.about
         /\ typed.current = s.current /\ typed.countdownTo = s.countdownTo
         /\ typed.resume = s.resume /\ typed.missed = s.missed
         /\ typed.known = s.known /\ typed.learned = s.learned
         /\ typed.over = s.over /\ typed.held = s.held
         /\ typed.sends = s.sends /\ typed.stopped = s.stopped
         /\ typed.phaseTimer = s.phaseTimer /\ typed.auto = s.auto /\ typed.timers = s.timers
         /\ Box(typed) = Box(s)
    BY <1>0, <2>9 DEF Session, Box
  <2>12. t = IF a \notin Whole THEN [typed EXCEPT !.auto = NoAuto]
             ELSE IF s.auto # NoAuto /\ s.groups[g].input = a THEN typed
             ELSE StartAuto(typed, g, a)
    BY <1>2, <2>0, <2>3, <2>6, <2>7, <2>9 DEF Input
  <2>13. TimersFit(s, due) /\ Confirmed(s)
    BY DEF Fits
  <2>14. CASE a \notin Whole
    <3>1. NoAuto \in AutoTimer
      BY DEF AutoTimer, NoAuto
    <3>2. t = [typed EXCEPT !.auto = NoAuto]
      BY <2>12, <2>14
    <3>3. t \in Session
      BY <2>10, <3>1, <3>2 DEF Session
    <3>4. /\ t.groups = groups /\ t.begun = begun
          /\ t.settings = s.settings /\ t.phase = s.phase /\ t.about = s.about
          /\ t.current = s.current /\ t.countdownTo = s.countdownTo
          /\ t.resume = s.resume /\ t.missed = s.missed
          /\ t.known = s.known /\ t.learned = s.learned
          /\ t.over = s.over /\ t.held = s.held
          /\ t.sends = s.sends /\ t.stopped = s.stopped
          /\ t.phaseTimer = s.phaseTimer /\ t.auto = NoAuto /\ t.timers = s.timers
          /\ Box(t) = Box(typed)
      BY <2>10, <2>11, <3>2 DEF Session, Box
    <3>5. TimersFit(t, due)
      BY <2>13, <3>4 DEF TimersFit
    <3>6. Confirmed(t)
      BY <1>2, <2>0, <2>1, <2>5, <2>6, <2>8, <2>14, <3>4 DEF Confirmed, Answerable, Playing
    <3>7. Fits(t, due, amiss)
      BY <1>2, <2>0, <2>3, <2>6, <2>7, <3>3, <3>4, <3>5, <3>6, EnteredFits
    <3>8. One(a \in Whole) = 0 /\ Cardinality(s.timers) \in Nat
      BY <1>0, <2>14, TimersAreFinite DEF One
    <3>. QED BY <2>11, <3>4, <3>7, <3>8 DEF Scene
  <2>15. CASE a \in Whole /\ s.auto # NoAuto /\ s.groups[g].input = a
    <3>1. t = typed
      BY <2>12, <2>15
    <3>2. TimersFit(t, due)
      BY <2>11, <2>13, <3>1 DEF TimersFit
    <3>3. Confirmed(t)
      BY <1>2, <2>0, <2>1, <2>5, <2>6, <2>8, <2>11, <2>13, <2>15, <3>1
         DEF Confirmed, Answerable, Playing
    <3>4. Fits(t, due, amiss)
      BY <1>2, <2>0, <2>3, <2>6, <2>7, <2>10, <2>11, <3>1, <3>2, <3>3, EnteredFits
    <3>5. Cardinality(t.timers) <= Cardinality(s.timers) + One(a \in Whole)
      BY <1>0, <2>11, <3>1, Ones, TimersAreFinite
    <3>. QED BY <2>11, <3>1, <3>4, <3>5 DEF Scene
  <2>16. CASE a \in Whole /\ ~(s.auto # NoAuto /\ s.groups[g].input = a)
    <3>1. t = StartAuto(typed, g, a) /\ due = {}
      BY <2>12, <2>16
    <3>2. s.phaseTimer # NoPhaseTimer => s.phaseTimer.id \in s.timers
      BY <2>13, <3>1 DEF TimersFit
    <3>3. /\ t \in Session /\ t.phaseTimer = typed.phaseTimer
          /\ t.auto # NoAuto /\ t.auto.of = g /\ t.auto.value = a
          /\ Place(t) = Place(typed) /\ Box(t) = Box(typed) /\ Rest(t) = Rest(typed)
          /\ TimersFit(t, {}) /\ Cardinality(t.timers) = Cardinality(typed.timers) + 1
      BY <2>1, <2>10, <2>11, <2>16, <3>1, <3>2, AutoDoes
    <3>4. /\ t.groups = groups /\ t.begun = begun
          /\ t.settings = s.settings /\ t.phase = s.phase /\ t.about = s.about
          /\ t.current = s.current /\ t.countdownTo = s.countdownTo
          /\ t.resume = s.resume /\ t.missed = s.missed
          /\ t.known = s.known /\ t.learned = s.learned
          /\ t.over = s.over /\ t.held = s.held
          /\ t.sends = s.sends /\ t.stopped = s.stopped /\ t.phaseTimer = s.phaseTimer
      BY <2>11, <3>3 DEF Place, Rest
    <3>5. Confirmed(t)
      BY <1>2, <2>0, <2>1, <2>2, <2>5, <2>6, <2>8, <2>16, <3>3, <3>4
         DEF Confirmed, Answerable, Playing
    <3>6. Fits(t, due, amiss)
      BY <1>2, <2>0, <2>3, <2>6, <2>7, <3>1, <3>3, <3>4, <3>5, EnteredFits
    <3>7. One(a \in Whole) = 1 /\ Cardinality(s.timers) \in Nat
      BY <1>0, <2>16, TimersAreFinite DEF One
    <3>. QED BY <2>11, <3>3, <3>4, <3>6, <3>7 DEF Scene
  <2>. QED BY <2>14, <2>15, <2>16
<1>. QED BY <1>1, <1>2

-----------------------------------------------------------------------------

(***************************************************************************)
(* Confirming.                                                             *)
(***************************************************************************)
\* RecordAnswer, where it records.
Recorded(s, g) == [s EXCEPT !.groups[g] = AsAnswered(@),
                            !.learned = Append(@, <<g, s.groups[g].input>>)]

\* g is to be answered next, and can be answered now.
IsNext(s, g) ==
  /\ s \in Session /\ g \in Groups /\ g = Told(s) /\ ~s.groups[g].done
  /\ Learned(s) /\ FullLength(s) /\ TimedRight(s)

ToAnswer(s, g) == IsNext(s, g) /\ g = s.current

LEMMA RecordDoes ==
  ASSUME NEW s, NEW g, ToAnswer(s, g), NEW t, t = Recorded(s, g)
  PROVE  /\ t \in Session /\ Learned(t) /\ FullLength(t) /\ TimedRight(t)
         /\ Told(t) = g + 1 /\ t.groups[g].done
         /\ \A h \in Groups \ {g} : t.groups[h] = s.groups[h]
         /\ Box(t) = Box(s) /\ t.settings = s.settings /\ t.current = s.current
         /\ t.resume = s.resume /\ t.phase = s.phase /\ t.over = s.over /\ t.held = s.held
         /\ t.sends = s.sends /\ t.stopped = s.stopped /\ t.timers = s.timers
<1>0. /\ s \in Session /\ g \in Groups /\ g = Told(s) /\ g = s.current /\ ~s.groups[g].done
      /\ Learned(s) /\ FullLength(s) /\ TimedRight(s)
  BY DEF ToAnswer, IsNext
<1>1. s.groups \in [Groups -> GroupOf] /\ s.groups[g] \in GroupOf
  BY <1>0, GroupTypes
<1>2. PICK grp : grp = AsAnswered(s.groups[g])
  OBVIOUS
<1>3. /\ grp \in GroupOf /\ grp.input = s.groups[g].input /\ grp.done
      /\ ~grp.since /\ ~grp.before
  BY <1>0, <1>1, <1>2, AnsweredDoes
<1>4. PICK groups : groups = [s.groups EXCEPT ![g] = grp]
  OBVIOUS
<1>5. /\ groups \in [Groups -> GroupOf] /\ groups[g] = grp
      /\ \A h \in Groups \ {g} : groups[h] = s.groups[h]
  BY <1>0, <1>1, <1>3, <1>4
<1>6. PICK learned : learned = Append(s.learned, <<g, s.groups[g].input>>)
  OBVIOUS
<1>7. <<g, s.groups[g].input>> \in Groups \X Answers
  BY <1>0, <1>1 DEF GroupOf
<1>8. /\ learned \in Seq(Groups \X Answers) /\ Len(learned) = g + 1
      /\ \A i \in 1 .. g : learned[i] = s.learned[i]
      /\ learned[g + 1] = <<g, s.groups[g].input>>
      /\ g \in Nat
  <2>1. s.learned \in Seq(Groups \X Answers) /\ Len(s.learned) = g
    BY <1>0 DEF Session, Told
  <2>. QED BY <1>0, <1>6, <1>7, <2>1
<1>9. t = [s EXCEPT !.groups = groups, !.learned = learned]
  BY <1>0, <1>2, <1>4, <1>6 DEF Recorded
<1>10. t \in Session
  BY <1>0, <1>5, <1>8, <1>9 DEF Session
<1>11. /\ t.groups = groups /\ t.learned = learned
       /\ Box(t) = Box(s) /\ t.settings = s.settings /\ t.current = s.current
       /\ t.resume = s.resume /\ t.phase = s.phase /\ t.over = s.over /\ t.held = s.held
       /\ t.sends = s.sends /\ t.stopped = s.stopped /\ t.timers = s.timers
  BY <1>0, <1>9 DEF Session, Box
<1>12. Told(t) = g + 1
  BY <1>0, <1>8, <1>11 DEF Told
<1>13. Learned(t)
  <2>0. Groups \subseteq Nat
    BY DEF Groups
  <2>1. \A h \in Groups : t.groups[h].done <=> h < g + 1
    <3>. SUFFICES ASSUME NEW h \in Groups PROVE t.groups[h].done <=> h < g + 1
      OBVIOUS
    <3>1. CASE h = g
      BY <1>0, <1>3, <1>5, <1>8, <1>11, <3>1
    <3>2. CASE h # g
      <4>1. t.groups[h].done <=> h < g
        BY <1>0, <1>5, <1>11, <3>2 DEF Learned
      <4>2. h < g <=> h < g + 1
        BY <1>0, <1>8, <2>0, <3>2
      <4>. QED BY <1>0, <4>1, <4>2
    <3>. QED BY <1>0, <3>1, <3>2
  <2>2. \A i \in 1 .. g + 1 : t.learned[i] = <<i - 1, t.groups[i - 1].input>>
    <3>. SUFFICES ASSUME NEW i \in 1 .. g + 1
                  PROVE  t.learned[i] = <<i - 1, t.groups[i - 1].input>>
      OBVIOUS
    <3>1. CASE i = g + 1
      BY <1>0, <1>3, <1>5, <1>8, <1>11, <3>1
    <3>2. CASE i # g + 1
      <4>1. i \in 1 .. g /\ i - 1 # g
        BY <1>0, <1>8, <3>2
      <4>2. s.learned[i] \in Groups \X Answers /\ s.learned[i] = <<i - 1, s.groups[i - 1].input>>
        <5>1. s.learned \in Seq(Groups \X Answers) /\ Len(s.learned) = g
          BY <1>0 DEF Session, Told
        <5>2. s.learned[i] \in Groups \X Answers
          BY <1>8, <4>1, <5>1
        <5>. QED BY <1>0, <4>1, <5>2 DEF Learned
      <4>3. i - 1 \in Groups
        BY <1>0, <4>2
      <4>. QED BY <1>0, <1>5, <1>8, <1>11, <4>1, <4>2, <4>3
    <3>. QED BY <1>0, <3>1, <3>2
  <2>3. \A h \in Groups : h > g + 1 => t.groups[h] = Blank
    <3>. SUFFICES ASSUME NEW h \in Groups, h > g + 1 PROVE t.groups[h] = Blank
      OBVIOUS
    <3>1. h > g /\ h # g
      BY <1>0, <1>8, <2>0
    <3>. QED BY <1>0, <1>5, <1>11, <3>1 DEF Learned
  <2>4. t.current \in {Told(t) - 1, Told(t)} /\ Told(t) > 0
    <3>1. g \in Nat /\ t.current = g
      BY <1>0, <1>8, <1>11
    <3>2. (g + 1) - 1 = g /\ g + 1 > 0
      BY <1>0, <3>1
    <3>. QED BY <1>0, <1>12, <3>1, <3>2
  <2>. QED BY <1>0, <1>12, <2>1, <2>2, <2>3, <2>4 DEF Learned
<1>14. FullLength(t)
  BY <1>0, <1>3, <1>5, <1>11 DEF FullLength
<1>15. TimedRight(t)
  <2>1. \A h \in Groups : h = g \/ t.groups[h] = s.groups[h]
    BY <1>0, <1>5, <1>11
  <2>. QED BY <1>0, <1>1, <1>3, <1>5, <1>10, <1>11, <2>1, TimedStays
<1>. QED BY <1>0, <1>3, <1>5, <1>10, <1>11, <1>12, <1>13, <1>14, <1>15

\* The current group answered, and the gap before the next, or the end.
LEMMA ConfirmCurrentFits ==
  ASSUME NEW s \in Session, Answerable(s), ~InputLocked(s, s.current),
         Leased(s, "no"), Learned(s), AboutNext(s), FullLength(s), TimedRight(s),
         Cardinality(s.timers) <= MaxTimers + 2, NEW t, t = ConfirmCurrent(s)
  PROVE  Fits(t, {}, "no") /\ Room(t) <= Cardinality(s.timers) + 1 /\ Box(t) = Box(s)
<1>1. PICK g : g = s.current
  OBVIOUS
<1>2. g = Told(s) /\ g = s.about /\ g \in Groups /\ g \in Nat
  BY <1>1 DEF AboutNext, Session, Groups
<1>3. ~IsTerminal(s) /\ ~Paused(s) /\ ~Still(s)
  BY DEF Answerable, Playing, IsTerminal, Paused, Still
<1>4. /\ s.over = "no" /\ s.held /\ s.resume.kind = "none"
      /\ \A h \in s.stopped : s.groups[h].done
      /\ \A x, y \in s.sends : x = y
      /\ \A x \in s.sends : x.of = g
  BY <1>2, <1>3 DEF Leased
<1>5. ~s.groups[g].done
  <2>1. s.groups[g].done \in BOOLEAN
    BY <1>2 DEF Session, GroupOf
  <2>. QED BY <1>2, <2>1 DEF Learned
<1>7. PICK r : r = Recorded(s, g)
  OBVIOUS
<1>6. RecordAnswer(s, FALSE) = r
  BY <1>1, <1>5, <1>7 DEF RecordAnswer, Recorded, AsAnswered
<1>8. /\ r \in Session /\ Learned(r) /\ FullLength(r) /\ TimedRight(r)
      /\ Told(r) = g + 1 /\ r.groups[g].done
      /\ \A h \in Groups \ {g} : r.groups[h] = s.groups[h]
      /\ Box(r) = Box(s) /\ r.settings = s.settings /\ r.current = s.current
      /\ r.resume = s.resume /\ r.phase = s.phase /\ r.over = s.over /\ r.held = s.held
      /\ r.sends = s.sends /\ r.stopped = s.stopped /\ r.timers = s.timers
  <2>1. ToAnswer(s, g)
    BY <1>1, <1>2, <1>5 DEF ToAnswer, IsNext
  <2>. QED BY <1>7, <2>1, RecordDoes
<1>9. PICK u : u = CancelTimers(r)
  OBVIOUS
<1>10. /\ u \in Session /\ u.phaseTimer = NoPhaseTimer /\ u.auto = NoAuto
       /\ Place(u) = Place(r) /\ Box(u) = Box(r) /\ u.groups = r.groups
       /\ u.phase = r.phase /\ u.over = r.over /\ u.held = r.held
       /\ u.timers = r.timers /\ u.sends = r.sends /\ u.stopped = r.stopped
  BY <1>8, <1>9, CancelDoes
<1>11. /\ u.settings = s.settings /\ u.current = g /\ u.resume = s.resume
       /\ u.learned = r.learned
  BY <1>1, <1>8, <1>10 DEF Place
<1>12. Learned(u) /\ FullLength(u) /\ TimedRight(u) /\ Told(u) = g + 1
  <2>1. u.over = "kept" => Told(r) > 0
    BY <1>8, <1>10 DEF Learned
  <2>2. Learned(u) /\ Told(u) = g + 1
    BY <1>1, <1>8, <1>10, <1>11, <2>1, LearnedStays
  <2>3. FullLength(u)
    BY <1>8, <1>10, FullLengthStays
  <2>4. TimedRight(u)
    BY <1>8, <1>10, <1>11, TimedStays
  <2>. QED BY <2>2, <2>3, <2>4
<1>13. Cardinality(s.timers) \in Nat
  BY TimersAreFinite
<1>14. CASE g + 1 = NumGroups
  <2>1. PICK keep \in BOOLEAN : keep = TRUE
    OBVIOUS
  <2>2. t = EndSession(u, keep)
    BY <1>1, <1>5, <1>6, <1>7, <1>9, <1>14, <2>1 DEF ConfirmCurrent
  <2>3. /\ \A x, y \in u.sends : x = y
        /\ \A x \in u.sends : x.of <= Told(u)
        /\ keep => Told(u) > 0
    BY <1>2, <1>4, <1>8, <1>10, <1>12
  <2>4. Fits(t, {}, "no") /\ Room(t) = 0 /\ Box(t) = Box(u)
    BY <1>10, <1>12, <2>2, <2>3, EndFits
  <2>. QED BY <1>8, <1>10, <1>13, <2>4
<1>15. CASE g + 1 # NumGroups
  <2>1. PICK next : next = g + 1
    OBVIOUS
  <2>2. next \in Groups /\ next # g /\ next > g
    BY <1>2, <1>15, <2>1, NumGroupsAssumption DEF Groups
  <2>3. PICK v : v = [u EXCEPT !.phase = "interGroupGap", !.about = next]
    OBVIOUS
  <2>4. v \in Session
    BY <1>10, <2>2, <2>3 DEF Session, Phases
  <2>5. /\ v.phase = "interGroupGap" /\ v.about = next /\ v.current = u.current
        /\ v.settings = u.settings /\ v.resume = u.resume /\ v.learned = u.learned
        /\ v.groups = u.groups /\ v.over = u.over /\ v.held = u.held /\ v.timers = u.timers
        /\ v.sends = u.sends /\ v.stopped = u.stopped /\ v.auto = u.auto
        /\ v.phaseTimer = u.phaseTimer /\ Box(v) = Box(u)
    BY <1>10, <2>3 DEF Session, Box
  <2>6. Learned(v) /\ FullLength(v) /\ TimedRight(v) /\ Told(v) = next
    <3>1. v.over = "kept" => Told(u) > 0
      BY <1>12, <2>5 DEF Learned
    <3>2. Learned(v) /\ Told(v) = next
      BY <1>10, <1>12, <2>1, <2>4, <2>5, <3>1, LearnedStays
    <3>3. FullLength(v)
      BY <1>10, <1>12, <2>4, <2>5, FullLengthStays
    <3>4. TimedRight(v)
      BY <1>10, <1>12, <2>4, <2>5, TimedStays
    <3>. QED BY <3>2, <3>3, <3>4
  <2>7. PICK w : w = StopAudio(v)
    OBVIOUS
  <2>8. /\ \A x, y \in v.sends : x = y
        /\ \A x \in v.sends : x.of = g /\ x.of <= Told(v)
    BY <1>2, <1>4, <1>8, <1>10, <2>1, <2>5, <2>6
  <2>9. /\ w \in Session /\ Stopped(v, w.groups)
        /\ Place(w) = Place(v) /\ Box(w) = Box(v)
        /\ w.phase = v.phase /\ w.over = v.over /\ w.held = v.held
        /\ w.timers = v.timers /\ w.phaseTimer = v.phaseTimer /\ w.auto = v.auto
        /\ w.sends = {} /\ w.stopped \subseteq v.stopped \cup {x.of : x \in v.sends}
    BY <2>4, <2>7, <2>8, StopDoes
  <2>10. /\ w.settings = s.settings /\ w.about = next /\ w.current = g
         /\ w.resume = s.resume /\ w.over = "no" /\ w.held /\ w.auto = NoAuto
         /\ w.timers = s.timers
    BY <1>4, <1>8, <1>10, <1>11, <2>5, <2>9 DEF Place
  <2>11. Learned(w) /\ FullLength(w) /\ TimedRight(w) /\ Told(w) = next
    BY <2>4, <2>6, <2>8, <2>9, <2>10, StoppedStays
  <2>12. \A h \in w.stopped : w.groups[h].done
    <3>. SUFFICES ASSUME NEW h \in w.stopped PROVE w.groups[h].done
      OBVIOUS
    <3>1. h \in Groups
      BY <2>9 DEF Session
    <3>2. v.groups[h].done
      BY <1>4, <1>8, <1>10, <2>5, <2>8, <2>9, <3>1
    <3>3. Entered(w.groups[h]) = Entered(v.groups[h])
      BY <2>9, <3>1 DEF Stopped
    <3>. QED BY <3>2, <3>3 DEF Entered
  <2>13. \A h \in Groups : w.groups[h].done \/ w.groups[h] = Blank
    <3>. SUFFICES ASSUME NEW h \in Groups, ~w.groups[h].done PROVE w.groups[h] = Blank
      OBVIOUS
    <3>1. h > g /\ h # g
      BY <1>2, <2>1, <2>11 DEF Learned, Groups
    <3>2. s.groups[h] = Blank
      BY <1>2, <3>1 DEF Learned
    <3>3. v.groups[h] = Blank
      BY <1>8, <1>10, <2>5, <3>1, <3>2
    <3>. QED BY <2>8, <2>9, <3>1, <3>3 DEF Stopped
  <2>14. w.groups[next] = Blank
    <3>1. ~w.groups[next].done
      BY <1>2, <2>1, <2>2, <2>11 DEF Learned
    <3>. QED BY <2>2, <2>13, <3>1
  <2>15. Primed(w, next)
    <3>1. \A h \in Groups : LET grp == w.groups[h] IN ~grp.done =>
            /\ grp.heard <= grp.all /\ grp.counted <= grp.all /\ grp.clean <= grp.heard
            /\ grp.sending = "none"
      BY <2>13 DEF Blank
    <3>. QED BY <1>4, <2>2, <2>9, <2>10, <2>11, <2>12, <3>1 DEF Primed
  <2>16. t = StartPhaseTimer(w, "gap") /\ "gap" \in TimerKinds
    BY <1>1, <1>5, <1>6, <1>7, <1>9, <1>15, <2>1, <2>3, <2>7 DEF ConfirmCurrent, TimerKinds
  <2>17. /\ t \in Session /\ t.phaseTimer.kind = "gap" /\ t.auto = w.auto
         /\ Place(t) = Place(w) /\ Box(t) = Box(w) /\ Rest(t) = Rest(w)
         /\ TimersFit(t, {}) /\ Cardinality(t.timers) = Cardinality(w.timers) + 1
    BY <2>9, <2>10, <2>16, PhaseTimerDoes
  <2>18. /\ t.groups = w.groups /\ t.learned = w.learned /\ t.current = g
         /\ t.resume = w.resume /\ t.settings = w.settings /\ t.over = w.over
         /\ t.held = w.held /\ t.sends = w.sends /\ t.stopped = w.stopped
         /\ t.phase = "interGroupGap" /\ t.about = next /\ t.current = w.current
    BY <2>5, <2>9, <2>10, <2>17 DEF Place, Rest
  <2>19. Waits(t)
    BY <2>17, <2>18 DEF Waits
  <2>20. AboutNext(t)
    <3>1. Told(t) = next /\ next - 1 = g
      BY <1>2, <2>1, <2>11, <2>18 DEF Told
    <3>. QED BY <2>18, <3>1 DEF AboutNext, Answerable, Playing
  <2>21. Confirmed(t)
    BY <2>10, <2>14, <2>17, <2>18 DEF Confirmed, Answerable, Playing, Blank
  <2>22. Fits(t, {}, "no") /\ Room(t) = Cardinality(t.timers)
    BY <2>15, <2>17, <2>18, <2>19, <2>20, <2>21, PrimedFits
  <2>. QED BY <1>8, <1>10, <1>13, <2>5, <2>9, <2>10, <2>17, <2>22
<1>. QED BY <1>14, <1>15

-----------------------------------------------------------------------------

(***************************************************************************)
(* Finishing.                                                              *)
(***************************************************************************)
\* A group noted as paused, and nothing else of the session changed.
Noted(s, g, to) == [s EXCEPT !.resume = to, !.groups[g] = NotePaused(@)]

ToNote(s, g, to) ==
  IsNext(s, g) /\ to \in ResumeOf /\ (to = s.resume \/ (to.kind = "none" /\ s.resume.of = g))

LEMMA NotedDoes ==
  ASSUME NEW s, NEW g, NEW to, ToNote(s, g, to),
         NEW t, t = Noted(s, g, to)
  PROVE  /\ t \in Session /\ Learned(t) /\ FullLength(t) /\ Told(t) = g
         /\ \A h \in Groups : /\ Entered(t.groups[h]) = Entered(s.groups[h])
                              /\ Played(t.groups[h]) = Played(s.groups[h])
                              /\ h # g => t.groups[h] = s.groups[h]
         /\ TimedRight(t)
         /\ t.resume = to /\ Box(t) = Box(s) /\ t.phase = s.phase /\ t.over = s.over
         /\ t.settings = s.settings /\ t.current = s.current /\ t.begun = s.begun
         /\ t.held = s.held /\ t.timers = s.timers /\ t.sends = s.sends
         /\ t.stopped = s.stopped /\ t.phaseTimer = s.phaseTimer /\ t.auto = s.auto
<1>0. /\ s \in Session /\ g \in Groups /\ g = Told(s) /\ ~s.groups[g].done
      /\ Learned(s) /\ FullLength(s) /\ TimedRight(s) /\ to \in ResumeOf
      /\ to = s.resume \/ (to.kind = "none" /\ s.resume.of = g)
  BY DEF IsNext, ToNote
<1>1. s.groups \in [Groups -> GroupOf] /\ s.groups[g] \in GroupOf
  BY <1>0, GroupTypes
<1>2. PICK old : old = s.groups[g]
  OBVIOUS
<1>3. PICK grp : grp = NotePaused(old)
  OBVIOUS
<1>4. /\ grp \in GroupOf /\ Entered(grp) = Entered(old) /\ Played(grp) = Played(old)
      /\ grp.since = old.since /\ grp.before = old.before /\ grp.sounding = old.sounding
      /\ old.untimed => grp.untimed
      /\ old.pausedComplete => grp.pausedComplete
      /\ ~old.done /\ old.sounding => grp.untimed \/ grp.pausedComplete
  BY <1>0, <1>1, <1>2, <1>3, NotePausedDoes
<1>5. PICK groups : groups = [s.groups EXCEPT ![g] = grp]
  OBVIOUS
<1>6. /\ groups \in [Groups -> GroupOf] /\ groups[g] = grp
      /\ \A h \in Groups \ {g} : groups[h] = s.groups[h]
  BY <1>0, <1>1, <1>4, <1>5
<1>7. t = [s EXCEPT !.resume = to, !.groups = groups]
  BY <1>0, <1>2, <1>3, <1>5 DEF Noted
<1>8. t \in Session
  BY <1>0, <1>6, <1>7 DEF Session
<1>9. /\ t.groups = groups /\ t.resume = to /\ t.learned = s.learned
      /\ Box(t) = Box(s) /\ t.phase = s.phase /\ t.over = s.over
      /\ t.settings = s.settings /\ t.current = s.current /\ t.begun = s.begun
      /\ t.held = s.held /\ t.timers = s.timers /\ t.sends = s.sends
      /\ t.stopped = s.stopped /\ t.phaseTimer = s.phaseTimer /\ t.auto = s.auto
  BY <1>0, <1>7 DEF Session, Box
<1>10. \A h \in Groups : /\ Entered(t.groups[h]) = Entered(s.groups[h])
                         /\ Played(t.groups[h]) = Played(s.groups[h])
                         /\ h # g => t.groups[h] = s.groups[h]
  BY <1>0, <1>2, <1>4, <1>6, <1>9
<1>11. \A h \in Groups : /\ t.groups[h].input = s.groups[h].input
                         /\ t.groups[h].done = s.groups[h].done
                         /\ t.groups[h].complete = s.groups[h].complete
  BY <1>0, <1>10 DEF Entered
<1>12. Learned(t) /\ Told(t) = g
  <2>1. \A h \in Groups : h > Told(s) => t.groups[h] = s.groups[h]
    BY <1>0, <1>10 DEF Groups
  <2>2. t.over = "kept" => Told(s) > 0
    BY <1>0, <1>9 DEF Learned
  <2>3. t.learned = s.learned /\ t.current = s.current
    BY <1>0, <1>9
  <2>. QED BY <1>0, <1>8, <1>11, <2>1, <2>2, <2>3, LearnedStays
<1>13. FullLength(t)
  BY <1>0, <1>8, <1>11, FullLengthStays
<1>14. TimedRight(t)
  <2>. SUFFICES ASSUME NEW h \in Groups
                PROVE  LET was == t.groups[h]
                           toResume == t.resume.kind # "none" /\ t.resume.of = h
                       IN  /\ was.since => was.sounding /\ ~toResume
                           /\ was.before => was.sounding
                                            /\ (was.untimed \/ was.pausedComplete \/ toResume)
                           /\ was.since /\ was.before => was.untimed
    BY DEF TimedRight
  <2>1. LET was == s.groups[h]
            toResume == s.resume.kind # "none" /\ s.resume.of = h
        IN  /\ was.since => was.sounding /\ ~toResume
            /\ was.before => was.sounding
                             /\ (was.untimed \/ was.pausedComplete \/ toResume)
            /\ was.since /\ was.before => was.untimed
    BY <1>0 DEF TimedRight
  <2>2. CASE h = g
    BY <1>0, <1>2, <1>4, <1>6, <1>9, <2>1, <2>2
  <2>3. CASE h # g
    BY <1>0, <1>6, <1>9, <2>1, <2>3
  <2>. QED BY <1>0, <2>2, <2>3
<1>. QED BY <1>0, <1>8, <1>9, <1>10, <1>12, <1>13, <1>14

\* Whatever the phase: an answer typed is kept, and so is the session, if any is.
LEMMA FinishFits ==
  ASSUME NEW s, NEW due, NEW amiss, Fits(s, due, amiss), ~IsTerminal(s),
         NEW t, t = FinishNow(s)
  PROVE  Fits(t, {}, "no") /\ Room(t) = 0 /\ Box(t) = Box(s)
<1>0. /\ s \in Session /\ Learned(s) /\ FullLength(s) /\ TimedRight(s)
      /\ s.over = "no"
  BY DEF Fits, Leased
<1>1. PICK n : n = IF s.resume.kind = "answer"
                   THEN [s EXCEPT !.groups[s.resume.of] = NotePaused(@)] ELSE s
  OBVIOUS
<1>2. /\ n \in Session /\ Learned(n) /\ FullLength(n) /\ TimedRight(n) /\ Told(n) = Told(s)
      /\ \A h \in Groups : Entered(n.groups[h]) = Entered(s.groups[h])
      /\ Box(n) = Box(s) /\ n.current = s.current /\ n.sends = s.sends
  <2>1. CASE s.resume.kind = "answer"
    <3>1. PICK g : g = s.resume.of
      OBVIOUS
    <3>2. g = Told(s)
      BY <2>1, <3>1 DEF Fits, Leased, AboutNext, Paused
    <3>3. g \in Groups /\ s.resume \in ResumeOf
      BY <1>0, <3>1 DEF Session, ResumeOf
    <3>4. ~s.groups[g].done
      <4>1. s.groups[g].done \in BOOLEAN
        BY <1>0, <3>3 DEF Session, GroupOf
      <4>2. Told(s) \in Nat
        BY SendsAreOfNext
      <4>. QED BY <1>0, <3>2, <3>3, <4>1, <4>2 DEF Learned
    <3>7. IsNext(s, g)
      BY <1>0, <3>2, <3>3, <3>4 DEF IsNext
    <3>5. PICK to : to = s.resume
      OBVIOUS
    <3>6. n = Noted(s, g, to)
      BY <1>0, <1>1, <2>1, <3>1, <3>5 DEF Session, Noted
    <3>8. ToNote(s, g, to)
      BY <3>3, <3>5, <3>7 DEF ToNote
    <3>. QED BY <3>2, <3>6, <3>8, NotedDoes
  <2>2. CASE s.resume.kind # "answer"
    BY <1>0, <1>1, <2>2
  <2>. QED BY <2>1, <2>2
<1>3. PICK g : g = s.current
  OBVIOUS
<1>4. /\ g \in Groups /\ g \in Nat
      /\ n.groups[g].done = s.groups[g].done /\ n.groups[g].input = s.groups[g].input
      /\ Told(s) \in Nat /\ n.groups[g].done \in BOOLEAN
  <2>1. g \in Groups /\ g \in Nat
    BY <1>0, <1>3 DEF Session, Groups
  <2>2. n.groups[g].done = s.groups[g].done /\ n.groups[g].input = s.groups[g].input
    BY <1>2, <2>1 DEF Entered
  <2>3. n.groups[g].done \in BOOLEAN
    BY <1>2, <2>1 DEF Session, GroupOf
  <2>. QED BY <2>1, <2>2, <2>3, SendsAreOfNext
<1>5. PICK r : r = IF s.groups[g].input # "none" THEN RecordAnswer(n, TRUE) ELSE n
  OBVIOUS
<1>6. /\ r \in Session /\ Learned(r) /\ FullLength(r) /\ TimedRight(r)
      /\ Box(r) = Box(s) /\ r.sends = s.sends /\ Told(r) \in Nat /\ Told(s) <= Told(r)
  <2>1. CASE s.groups[g].input # "none" /\ ~s.groups[g].done
    <3>1. g = Told(n)
      BY <1>0, <1>2, <1>3, <1>4, <2>1 DEF Learned
    <3>2. ToAnswer(n, g)
      BY <1>2, <1>3, <1>4, <2>1, <3>1 DEF ToAnswer, IsNext
    <3>3. r = Recorded(n, g)
      BY <1>2, <1>3, <1>4, <1>5, <2>1 DEF RecordAnswer, Recorded, AsAnswered
    <3>4. /\ r \in Session /\ Learned(r) /\ FullLength(r) /\ TimedRight(r)
          /\ Told(r) = g + 1 /\ Box(r) = Box(n) /\ r.sends = n.sends
      BY <3>2, <3>3, RecordDoes
    <3>. QED BY <1>2, <1>4, <3>1, <3>4
  <2>2. CASE ~(s.groups[g].input # "none" /\ ~s.groups[g].done)
    <3>1. r = n
      BY <1>2, <1>3, <1>4, <1>5, <2>2 DEF RecordAnswer
    <3>. QED BY <1>2, <1>4, <3>1
  <2>. QED BY <2>1, <2>2
<1>7. PICK keep \in BOOLEAN : keep = \E h \in Groups : r.groups[h].done
  OBVIOUS
<1>8. t = EndSession(r, keep)
  BY <1>1, <1>3, <1>5, <1>7 DEF FinishNow
<1>9. ASSUME keep PROVE Told(r) > 0
  <2>1. PICK h \in Groups : r.groups[h].done
    BY <1>7, <1>9
  <2>2. h < Told(r) /\ h \in Nat
    BY <1>6, <2>1 DEF Learned, Groups
  <2>. QED BY <1>6, <2>2
<1>10. /\ \A x, y \in r.sends : x = y
       /\ \A x \in r.sends : x.of <= Told(r)
  <2>1. /\ \A x, y \in s.sends : x = y
        /\ \A x \in s.sends : x.of = Told(s)
    BY SendsAreOfNext
  <2>. QED BY <1>6, <2>1
<1>11. Fits(t, {}, "no") /\ Room(t) = 0 /\ Box(t) = Box(r)
  BY <1>6, <1>8, <1>9, <1>10, EndFits
<1>. QED BY <1>6, <1>11

-----------------------------------------------------------------------------

(***************************************************************************)
(* Resuming.                                                               *)
(***************************************************************************)
\* The audio is claimed afresh.
Claimed(s) == Fits(s, {}, "claimed") /\ Paused(s) /\ s.held /\ s.stopped = {}

LEMMA ResumeFits ==
  ASSUME NEW s, Claimed(s),
         NEW t, t = ResumeSession(s)
  PROVE  Fits(t, {}, "no") /\ Room(t) <= 1 /\ Box(t) = Box(s)
<1>0. /\ s \in Session /\ Learned(s) /\ FullLength(s) /\ TimedRight(s)
      /\ s.phase = "paused" /\ ~IsTerminal(s) /\ ~Answerable(s)
  BY DEF Claimed, Fits, Paused, IsTerminal, Answerable, Playing
<1>1. PICK g : g = s.resume.of
  OBVIOUS
<1>2. /\ g = Told(s) /\ g \in Groups /\ s.resume.kind \in {"send", "answer"}
      /\ s.resume.kind = "answer" => s.current = g
  <2>1. s.resume \in ResumeOf
    BY <1>0 DEF Session
  <2>2. s.resume.of \in Groups /\ s.resume.kind \in {"none", "send", "answer"}
    BY <2>1 DEF ResumeOf
  <2>3. s.resume.kind # "none"
    BY <1>0 DEF Claimed, Fits, Leased, Paused
  <2>. QED BY <1>0, <1>1, <2>2, <2>3 DEF Claimed, Fits, AboutNext
<1>3. s.over = "no" /\ s.timers = {} /\ s.sends = {}
  BY <1>0 DEF Claimed, Fits, Leased, Still
<1>4. s.phaseTimer = NoPhaseTimer /\ s.auto = NoAuto
  BY <1>3 DEF Claimed, Fits, TimersFit
<1>5. IsNext(s, g)
  <2>1. s.groups[g].done \in BOOLEAN /\ Told(s) \in Nat
    BY <1>0, <1>2, SendsAreOfNext DEF Claimed, Session, GroupOf
  <2>2. ~s.groups[g].done
    BY <1>0, <1>2, <2>1 DEF Learned
  <2>. QED BY <1>0, <1>2, <2>2 DEF IsNext
<1>20. PICK to : to = NoResume
  OBVIOUS
<1>6. PICK n : n = Noted(s, g, to)
  OBVIOUS
<1>7. to.kind = "none" /\ ToNote(s, g, to)
  BY <1>1, <1>5, <1>20, NumGroupsAssumption DEF NoResume, ResumeOf, Groups, ToNote
<1>8. /\ n \in Session /\ Learned(n) /\ FullLength(n) /\ Told(n) = g /\ TimedRight(n)
      /\ \A h \in Groups : /\ Entered(n.groups[h]) = Entered(s.groups[h])
                           /\ Played(n.groups[h]) = Played(s.groups[h])
                           /\ h # g => n.groups[h] = s.groups[h]
      /\ n.resume = to /\ Box(n) = Box(s) /\ n.over = s.over
      /\ n.settings = s.settings /\ n.current = s.current /\ n.begun = s.begun
      /\ n.held = s.held /\ n.timers = s.timers /\ n.sends = s.sends
      /\ n.stopped = s.stopped /\ n.phaseTimer = s.phaseTimer /\ n.auto = s.auto
  BY <1>6, <1>7, NotedDoes
<1>9. \A h \in Groups : LET grp == n.groups[h] IN ~grp.done =>
        /\ grp.heard <= grp.all /\ grp.counted <= grp.all /\ grp.clean <= grp.heard
        /\ grp.sending = "none"
  <2>. SUFFICES ASSUME NEW h \in Groups, ~n.groups[h].done
                PROVE  /\ n.groups[h].heard <= n.groups[h].all
                       /\ n.groups[h].counted <= n.groups[h].all
                       /\ n.groups[h].clean <= n.groups[h].heard
                       /\ n.groups[h].sending = "none"
    OBVIOUS
  <2>1. One(Sounds(s, h)) = 0
    BY <1>3 DEF One, Sounds
  <2>2. ~PlayingGroup(s, h)
    BY <1>0 DEF PlayingGroup
  <2>3. /\ ~s.groups[h].done /\ n.groups[h].counted = s.groups[h].counted
        /\ n.groups[h].heard = s.groups[h].heard /\ n.groups[h].all = s.groups[h].all
        /\ n.groups[h].clean = s.groups[h].clean
        /\ n.groups[h].sending = s.groups[h].sending
    BY <1>8 DEF Entered, Played
  <2>4. /\ s.groups[h].heard <= s.groups[h].all
        /\ s.groups[h].counted <= s.groups[h].all + One(Sounds(s, h))
        /\ s.groups[h].clean <= s.groups[h].heard
        /\ s.groups[h].sending = "none"
    BY <1>0, <2>2, <2>3 DEF Claimed, Fits, HeardRight, HeardSo
  <2>5. s.groups[h].all \in Nat
    BY <1>0, GroupNumbers
  <2>. QED BY <2>1, <2>3, <2>4, <2>5
<1>10. Primed(n, g)
  BY <1>2, <1>3, <1>7, <1>8, <1>9 DEF Claimed, Primed
<1>11. n.timers = {} /\ n.phaseTimer = NoPhaseTimer /\ n.auto = NoAuto
  BY <1>3, <1>4, <1>8
<1>12. Cardinality(n.timers) = 0 /\ Cardinality(n.timers) <= MaxTimers + 2
  BY <1>11, FS_EmptySet, MaxTimersAssumption
<1>13. /\ n.groups[g].input = s.groups[g].input
       /\ n.groups[g].complete = s.groups[g].complete
  BY <1>2, <1>8 DEF Entered
<1>14. ASSUME ~s.groups[g].complete PROVE Ready(n, g)
  BY <1>10, <1>11, <1>13, <1>14 DEF Ready, TimersFit
<1>15. ASSUME s.resume.kind = "answer" PROVE AtNext(n, g)
  <2>1. s.current = g /\ (s.groups[g].input # "none" => s.begun)
    BY <1>0, <1>2, <1>15 DEF Claimed, Fits, Confirmed
  <2>. QED BY <1>8, <1>13, <2>1 DEF AtNext
<1>16. t = CASE s.resume.kind = "answer" ->
                  IF s.groups[g].input \in Whole
                  THEN StartAuto([n EXCEPT !.phase = "awaiting", !.about = g], g, s.groups[g].input)
                  ELSE AwaitAnswer(n, g)
             [] s.resume.kind = "send" ->
                  IF s.settings.countdown = 0 THEN BeginGroup(n, g) ELSE CountDown(n, g)
  BY <1>1, <1>2, <1>6, <1>20 DEF ResumeSession, Noted
<1>17. CASE s.resume.kind = "send"
  <2>1. ~s.groups[g].complete
    BY <1>0, <1>2, <1>17 DEF Claimed, Fits, Confirmed, AboutNext
  <2>2. CASE s.settings.countdown = 0
    <3>1. t = BeginGroup(n, g)
      BY <1>16, <1>17, <2>2
    <3>2. Fits(t, {}, "no") /\ Room(t) = Cardinality(n.timers) + 1 /\ Box(t) = Box(n)
      BY <1>14, <2>1, <3>1, BeginFits
    <3>. QED BY <1>8, <1>12, <3>2
  <2>3. CASE s.settings.countdown # 0
    <3>1. t = CountDown(n, g)
      BY <1>16, <1>17, <2>3
    <3>2. Fits(t, {}, "no") /\ Room(t) = Cardinality(n.timers) + 1 /\ Box(t) = Box(n)
      BY <1>12, <1>13, <1>14, <2>1, <3>1, CountDownFits
    <3>. QED BY <1>8, <1>12, <3>2
  <2>. QED BY <2>2, <2>3
<1>18. CASE s.resume.kind = "answer" /\ s.groups[g].input \notin Whole
  <2>1. ~s.groups[g].complete
    BY <1>0, <1>2, <1>5, <1>18 DEF FullLength, IsNext
  <2>2. t = AwaitAnswer(n, g)
    BY <1>16, <1>18
  <2>3. Fits(t, {}, "no") /\ Room(t) <= Cardinality(n.timers) + 1 /\ Box(t) = Box(n)
    BY <1>12, <1>14, <1>15, <1>18, <2>1, <2>2, AwaitFits
  <2>. QED BY <1>8, <1>12, <2>3
<1>19. CASE s.resume.kind = "answer" /\ s.groups[g].input \in Whole
  <2>1. PICK a \in Whole : a = s.groups[g].input
    BY <1>19
  <2>2. PICK u : u = [n EXCEPT !.phase = "awaiting", !.about = g]
    OBVIOUS
  <2>3. u \in Session
    BY <1>2, <1>8, <2>2 DEF Session, Phases
  <2>4. /\ u.phase = "awaiting" /\ u.about = g /\ u.current = n.current /\ u.begun = n.begun
        /\ u.settings = n.settings /\ u.resume = n.resume /\ u.learned = n.learned
        /\ u.groups = n.groups /\ u.over = n.over /\ u.held = n.held /\ u.timers = n.timers
        /\ u.sends = n.sends /\ u.stopped = n.stopped /\ u.phaseTimer = n.phaseTimer
        /\ Box(u) = Box(n)
    BY <1>8, <2>2 DEF Session, Box
  <2>5. t = StartAuto(u, g, a)
    BY <1>16, <1>19, <2>1, <2>2
  <2>6. /\ t \in Session /\ t.phaseTimer = u.phaseTimer
        /\ t.auto # NoAuto /\ t.auto.of = g /\ t.auto.value = a
        /\ Place(t) = Place(u) /\ Box(t) = Box(u) /\ Rest(t) = Rest(u)
        /\ TimersFit(t, {}) /\ Cardinality(t.timers) = Cardinality(u.timers) + 1
    <3>1. /\ Cardinality(u.timers) <= MaxTimers + 2
          /\ u.phaseTimer # NoPhaseTimer => u.phaseTimer.id \in u.timers
      BY <1>11, <1>12, <2>4
    <3>. QED BY <1>2, <2>1, <2>3, <2>5, <3>1, AutoDoes
  <2>7. /\ t.groups = n.groups /\ t.learned = n.learned /\ t.current = n.current
        /\ t.resume = n.resume /\ t.settings = n.settings /\ t.over = n.over
        /\ t.held = n.held /\ t.sends = n.sends /\ t.stopped = n.stopped
        /\ t.phase = "awaiting" /\ t.about = g /\ t.begun = n.begun
    BY <2>4, <2>6 DEF Place, Rest
  <2>8. n.current = g /\ n.begun
    BY <1>13, <1>15, <1>19, WholeAssumption DEF AtNext
  <2>9. n.groups[g].complete /\ n.groups[g].input = a
    BY <1>2, <1>5, <1>13, <1>19, <2>1 DEF FullLength, IsNext
  <2>10. Waits(t)
    BY <2>7, <2>8 DEF Waits
  <2>11. AboutNext(t)
    BY <1>8, <2>7, <2>8 DEF AboutNext, Told
  <2>12. Confirmed(t)
    BY <2>6, <2>7, <2>8, <2>9 DEF Confirmed, Answerable
  <2>13. Fits(t, {}, "no") /\ Room(t) = Cardinality(t.timers)
    BY <1>10, <2>6, <2>7, <2>10, <2>11, <2>12, PrimedFits
  <2>. QED BY <1>8, <1>12, <2>4, <2>6, <2>13
<1>. QED BY <1>2, <1>17, <1>18, <1>19

-----------------------------------------------------------------------------

(***************************************************************************)
(* What a send does to the groups.                                         *)
(***************************************************************************)
\* What no send changes.
Stage(s) == <<s.phase, s.about, s.current, s.countdownTo, s.resume, s.begun, s.settings,
              s.learned, s.over, s.held, s.stopped, s.timers, s.phaseTimer, s.auto>>

\* A group may be sent, noted as it goes, and no more.
KeyedOn(new, old) ==
  /\ new.since = old.since /\ new.before = old.before
  /\ old.sounding => new.sounding
  /\ old.untimed => new.untimed
  /\ old.pausedComplete => new.pausedComplete

Regrouped(s, t) ==
  /\ t \in Session /\ Stage(t) = Stage(s)
  /\ \A h \in Groups : /\ Entered(t.groups[h]) = Entered(s.groups[h])
                       /\ KeyedOn(t.groups[h], s.groups[h])
                       /\ h > Told(s) => t.groups[h] = s.groups[h]
  /\ \A x, y \in t.sends : x = y
  /\ \A x \in t.sends : \E y \in s.sends : x.of = y.of

LEMMA RegroupedFits ==
  ASSUME NEW s, NEW due, NEW a1, Fits(s, due, a1), a1 # "claimed",
         NEW t, Regrouped(s, t), NEW a2,
         t.phase = "playing" => (t.sends = {} <=> a2 \in {"failed", "ended"}),
         \A g \in Groups : ~IsTerminal(s) /\ g = Told(s) => HeardSo(t, g, a2),
         a2 # "restart" => OutRight(t)
  PROVE  Fits(t, due, a2)
<1>0. /\ s \in Session /\ t \in Session /\ Learned(s) /\ FullLength(s) /\ TimedRight(s)
      /\ Told(s) \in Nat
  BY SendsAreOfNext DEF Fits, Regrouped
<1>1. /\ t.phase = s.phase /\ t.about = s.about /\ t.current = s.current
      /\ t.countdownTo = s.countdownTo /\ t.resume = s.resume /\ t.begun = s.begun
      /\ t.settings = s.settings /\ t.learned = s.learned /\ t.over = s.over
      /\ t.held = s.held /\ t.stopped = s.stopped /\ t.timers = s.timers
      /\ t.phaseTimer = s.phaseTimer /\ t.auto = s.auto
  BY DEF Regrouped, Stage
<1>2. \A h \in Groups : /\ t.groups[h].input = s.groups[h].input
                        /\ t.groups[h].done = s.groups[h].done
                        /\ t.groups[h].complete = s.groups[h].complete
                        /\ h > Told(s) => t.groups[h] = s.groups[h]
  BY DEF Regrouped, Entered
<1>3. Learned(t) /\ Told(t) = Told(s)
  <2>1. t.over = "kept" => Told(s) > 0
    BY <1>0, <1>1 DEF Learned
  <2>. QED BY <1>0, <1>1, <1>2, <2>1, LearnedStays
<1>4. FullLength(t)
  BY <1>0, <1>2, FullLengthStays
<1>5. TimedRight(t)
  <2>1. \A h \in Groups : KeyedOn(t.groups[h], s.groups[h])
    BY DEF Regrouped
  <2>. QED BY <1>0, <1>1, <2>1, TimedStays DEF KeyedOn
<1>6. IsTerminal(t) = IsTerminal(s) /\ Still(t) = Still(s) /\ Paused(t) = Paused(s)
  BY <1>1 DEF IsTerminal, Still, Paused
<1>7. Leased(t, a2)
  <2>1. \A x \in t.sends : t.phase = "playing" /\ x.of = t.about
    BY <1>1, SendsAreOfNext DEF Regrouped
  <2>2. \A x, y \in t.sends : x = y
    BY DEF Regrouped
  <2>3. Still(s) => s.sends = {} /\ s.timers = {}
    BY DEF Fits, Leased
  <2>4. Still(t) => t.sends = {} /\ t.timers = {}
    BY <1>1, <1>6, <2>3 DEF Regrouped
  <2>5. ~Still(t) => \A h \in t.stopped : h \in Groups /\ t.groups[h].done
    <3>1. ~Still(s) => \A h \in s.stopped : s.groups[h].done
      BY DEF Fits, Leased
    <3>2. s.stopped \subseteq Groups
      BY <1>0 DEF Session
    <3>. QED BY <1>1, <1>2, <1>6, <3>1, <3>2
  <2>6. /\ IsTerminal(s) <=> s.over # "no"
        /\ ~Still(s) => s.held
        /\ IsTerminal(s) => ~s.held
        /\ s.phase = "paused" => ~s.held
        /\ ~IsTerminal(s) => (s.resume.kind = "none" <=> ~Paused(s))
    BY DEF Fits, Leased
  <2>. QED BY <1>1, <1>6, <2>1, <2>2, <2>4, <2>5, <2>6 DEF Leased
<1>8. TimersFit(t, due) /\ Waits(t)
  BY <1>1 DEF Fits, TimersFit, Waits
<1>9. AboutNext(t)
  BY <1>1, <1>3 DEF Fits, AboutNext, Answerable, Playing
<1>10. Confirmed(t)
  <2>1. s.about \in Groups /\ s.current \in Groups /\ s.countdownTo \in Groups
    BY <1>0 DEF Session
  <2>2. Answerable(t) = Answerable(s)
    BY <1>1 DEF Answerable, Playing
  <2>3. /\ t.groups[s.about].complete = s.groups[s.about].complete
        /\ t.groups[s.about].input = s.groups[s.about].input
        /\ t.groups[s.current].input = s.groups[s.current].input
        /\ t.groups[s.countdownTo].complete = s.groups[s.countdownTo].complete
    BY <1>2, <2>1
  <2>. QED BY <1>1, <2>2, <2>3 DEF Fits, Confirmed
<1>11. HeardRight(t, a2)
  <2>. SUFFICES ASSUME ~IsTerminal(t), NEW h \in Groups, ~t.groups[h].done
                PROVE  HeardSo(t, h, a2)
    BY DEF HeardRight
  <2>1. CASE h = Told(s)
    BY <1>6, <2>1
  <2>2. CASE h # Told(s)
    <3>1. h > Told(s)
      BY <1>0, <1>2, <2>2 DEF Learned, Groups
    <3>2. t.groups[h] = Blank
      BY <1>0, <1>2, <3>1 DEF Learned
    <3>3. ~Sounds(t, h) /\ ~SoundsWhole(t, h)
      BY <2>2, SendsAreOfNext DEF Sounds, SoundsWhole, Regrouped
    <3>4. ~PlayingGroup(t, h)
      BY <1>1, <2>2 DEF Fits, AboutNext, Answerable, Playing, PlayingGroup
    <3>. QED BY <3>2, <3>3, <3>4 DEF HeardSo, Blank, One
  <2>. QED BY <2>1, <2>2
<1>. QED BY <1>0, <1>3, <1>4, <1>5, <1>7, <1>8, <1>9, <1>10, <1>11 DEF Fits

\* What was amiss with its send is nothing to a session that does not play.
LEMMA AtRest ==
  ASSUME NEW s, NEW due, NEW amiss, Fits(s, due, amiss), s.phase # "playing",
         amiss # "claimed"
  PROVE  Fits(s, due, "no")
<1>0. s \in Session
  BY DEF Fits
<1>1. Leased(s, "no")
  BY DEF Fits, Leased
<1>2. OutRight(s)
  BY SendsAreOfNext DEF OutRight
<1>3. HeardRight(s, "no")
  <2>. SUFFICES ASSUME ~IsTerminal(s), NEW h \in Groups, ~s.groups[h].done
                PROVE  HeardSo(s, h, "no")
    BY DEF HeardRight
  <2>1. HeardSo(s, h, amiss) /\ ~PlayingGroup(s, h)
    BY DEF Fits, HeardRight, PlayingGroup
  <2>2. s.groups[h].sending = "none"
    BY <2>1 DEF HeardSo
  <2>3. LET grp == s.groups[h]
            clean == grp.clean + One(SoundsWhole(s, h))
        IN  grp.sending = "none" => clean <= grp.heard
    BY HeardOfStopped
  <2>4. s.groups[h].clean <= s.groups[h].heard
    <3>1. s.groups[h].clean \in Nat /\ s.groups[h].heard \in Nat
      BY <1>0, GroupNumbers
    <3>. QED BY <2>2, <2>3, <3>1, Ones
  <2>. QED BY <2>1, <2>4 DEF HeardSo
<1>. QED BY <1>1, <1>2, <1>3 DEF Fits

\* The group it is about to answer is heard as it should be.
LEMMA NextHeard ==
  ASSUME NEW s, NEW due, NEW amiss, Fits(s, due, amiss), ~IsTerminal(s),
         NEW g \in Groups, g = Told(s)
  PROVE  HeardSo(s, g, amiss) /\ ~s.groups[g].done
<1>1. s.groups[g].done <=> g < Told(s)
  BY DEF Fits, Learned
<1>2. ~s.groups[g].done
  BY <1>1, SendsAreOfNext
<1>. QED BY <1>2 DEF Fits, HeardRight

\* A group sent, or noted, and what of its send has been heard of.
Marked(s, g, grp, missed, known) ==
  [s EXCEPT !.groups = [s.groups EXCEPT ![g] = grp], !.missed = missed, !.known = known]

MarkFits(s, g, grp) ==
  /\ g \in Groups /\ grp \in GroupOf /\ Entered(grp) = Entered(s.groups[g])
  /\ KeyedOn(grp, s.groups[g]) /\ (g > Told(s) => grp = s.groups[g])

LEMMA MarkedDoes ==
  ASSUME NEW s, NEW due, NEW amiss, Fits(s, due, amiss),
         NEW g, NEW grp, MarkFits(s, g, grp), NEW missed \in BOOLEAN, NEW known \in BOOLEAN,
         NEW t, t = Marked(s, g, grp, missed, known)
  PROVE  /\ Regrouped(s, t) /\ t.sends = s.sends /\ Box(t) = Box(s)
         /\ t.groups[g] = grp /\ \A h \in Groups \ {g} : t.groups[h] = s.groups[h]
         /\ t.missed = missed /\ t.known = known
<1>1. /\ s \in Session /\ g \in Groups /\ grp \in GroupOf
      /\ Entered(grp) = Entered(s.groups[g]) /\ KeyedOn(grp, s.groups[g])
      /\ g > Told(s) => grp = s.groups[g]
  BY DEF Fits, MarkFits
<1>2. PICK groups : groups = [s.groups EXCEPT ![g] = grp]
  OBVIOUS
<1>3. s.groups \in [Groups -> GroupOf]
  BY <1>1, GroupTypes
<1>4. /\ groups \in [Groups -> GroupOf] /\ groups[g] = grp
      /\ \A h \in Groups \ {g} : groups[h] = s.groups[h]
  BY <1>1, <1>2, <1>3
<1>5. t = [s EXCEPT !.groups = groups, !.missed = missed, !.known = known]
  BY <1>2 DEF Marked
<1>6. t \in Session
  BY <1>1, <1>4, <1>5 DEF Session
<1>7. /\ t.groups = groups /\ Stage(t) = Stage(s) /\ t.sends = s.sends /\ Box(t) = Box(s)
      /\ t.missed = missed /\ t.known = known
  BY <1>1, <1>5 DEF Session, Stage, Box
<1>8. \A h \in Groups : /\ Entered(t.groups[h]) = Entered(s.groups[h])
                        /\ KeyedOn(t.groups[h], s.groups[h])
                        /\ h > Told(s) => t.groups[h] = s.groups[h]
  BY <1>1, <1>4, <1>7 DEF KeyedOn
<1>9. \A x, y \in t.sends : x = y
  BY <1>7, SendsAreOfNext
<1>10. Regrouped(s, t)
  BY <1>6, <1>7, <1>8, <1>9 DEF Regrouped
<1>. QED BY <1>4, <1>7, <1>10

LEMMA HeldUpFits ==
  ASSUME NEW s, NEW due, NEW amiss, Fits(s, due, amiss), amiss # "claimed",
         NEW g \in Groups, NEW t, t = NoteHeldUp(s, g)
  PROVE  /\ Fits(t, due, amiss) /\ t.sends = s.sends /\ Box(t) = Box(s)
         /\ Stage(t) = Stage(s) /\ t.known = s.known
<1>1. s \in Session /\ s.groups \in [Groups -> GroupOf] /\ s.groups[g] \in GroupOf
  BY GroupTypes DEF Fits
<1>2. CASE ~(s.groups[g].plays = 0 /\ s.groups[g].sounding)
  BY <1>2 DEF NoteHeldUp
<1>3. CASE s.groups[g].plays = 0 /\ s.groups[g].sounding
  <2>1. PICK yes \in BOOLEAN : yes = TRUE
    OBVIOUS
  <2>2. PICK old : old = s.groups[g]
    OBVIOUS
  <2>3. PICK grp : grp = [old EXCEPT !.untimed = yes]
    OBVIOUS
  <2>4. /\ grp \in GroupOf /\ Entered(grp) = Entered(old) /\ Played(grp) = Played(old)
    BY <1>1, <2>2, <2>3 DEF GroupOf, Entered, Played
  <2>5. KeyedOn(grp, old)
    BY <1>1, <2>1, <2>2, <2>3 DEF GroupOf, KeyedOn
  <2>6. g > Told(s) => grp = s.groups[g]
    BY <1>1, <1>3 DEF Fits, Learned, Blank
  <2>7. MarkFits(s, g, grp)
    BY <2>2, <2>4, <2>5, <2>6 DEF MarkFits
  <2>8. s.missed \in BOOLEAN /\ s.known \in BOOLEAN
    BY <1>1 DEF Session
  <2>9. PICK missed \in BOOLEAN, known \in BOOLEAN : missed = s.missed /\ known = s.known
    BY <2>8
  <2>10. t = Marked(s, g, grp, missed, known)
    BY <1>1, <1>3, <2>1, <2>2, <2>3, <2>9 DEF NoteHeldUp, Marked, Session
  <2>11. /\ Regrouped(s, t) /\ t.sends = s.sends /\ Box(t) = Box(s)
         /\ t.groups[g] = grp /\ \A h \in Groups \ {g} : t.groups[h] = s.groups[h]
         /\ t.missed = missed /\ t.known = known
    BY <2>7, <2>10, MarkedDoes
  <2>12. Stage(t) = Stage(s)
    BY <2>11 DEF Regrouped
  <2>13. t.phase = s.phase /\ t.about = s.about
    BY <2>12 DEF Stage
  <2>14. t.phase = "playing" => (t.sends = {} <=> amiss \in {"failed", "ended"})
    BY <2>11, <2>13 DEF Fits, Leased
  <2>15. \A h \in Groups : Played(t.groups[h]) = Played(s.groups[h])
                           /\ Entered(t.groups[h]) = Entered(s.groups[h])
    BY <2>2, <2>4, <2>11
  <2>16. ASSUME NEW h \in Groups, ~IsTerminal(s), h = Told(s) PROVE HeardSo(t, h, amiss)
    <3>1. HeardSo(s, h, amiss)
      BY <2>16, NextHeard
    <3>2. /\ t.groups[h].heard = s.groups[h].heard /\ t.groups[h].sending = s.groups[h].sending
          /\ t.groups[h].all = s.groups[h].all /\ t.groups[h].clean = s.groups[h].clean
          /\ t.groups[h].counted = s.groups[h].counted
      BY <2>15 DEF Played, Entered
    <3>3. /\ Sounds(t, h) = Sounds(s, h) /\ SoundsWhole(t, h) = SoundsWhole(s, h)
          /\ PlayingGroup(t, h) = PlayingGroup(s, h)
      BY <2>11, <2>13 DEF Sounds, SoundsWhole, PlayingGroup
    <3>. QED BY <2>9, <2>11, <3>1, <3>2, <3>3 DEF HeardSo
  <2>17. amiss # "restart" => OutRight(t)
    <3>1. \A x \in t.sends : x.of \in Groups
      BY <1>1, <2>11 DEF Session, SendOf
    <3>2. \A h \in Groups : t.groups[h].sending = s.groups[h].sending
      BY <2>15 DEF Played
    <3>. QED BY <2>9, <2>11, <3>1, <3>2 DEF Fits, OutRight
  <2>18. Fits(t, due, amiss)
    BY <2>11, <2>14, <2>16, <2>17, RegroupedFits
  <2>. QED BY <2>9, <2>11, <2>12, <2>18
<1>. QED BY <1>2, <1>3

LEMMA StartedFits ==
  ASSUME NEW s, NEW due, Fits(s, due, "restart"), NEW g \in Groups,
         \A x \in s.sends : x.of = g /\ ~x.sounded /\ ~x.lost,
         NEW t, t = PlaybackStarted(s, g)
  PROVE  Fits(t, due, "no") /\ t.sends = s.sends /\ Box(t) = Box(s) /\ Stage(t) = Stage(s)
<1>1. s \in Session /\ s.groups \in [Groups -> GroupOf] /\ s.groups[g] \in GroupOf
  BY GroupTypes DEF Fits
<1>2. CASE ~PlayingGroup(s, g)
  <2>1. t = s
    BY <1>2 DEF PlaybackStarted
  <2>2. s.phase = "playing" => s.sends # {}
    BY DEF Fits, Leased
  <2>3. s.phase # "playing"
    BY <1>2, <2>2, SendsAreOfNext DEF PlayingGroup
  <2>. QED BY <2>1, <2>3, AtRest
<1>3. CASE PlayingGroup(s, g)
  <2>1. g = Told(s) /\ s.phase = "playing" /\ ~IsTerminal(s)
    BY <1>3 DEF PlayingGroup, IsTerminal, Fits, AboutNext, Answerable, Playing
  <2>2. PICK old : old = s.groups[g]
    OBVIOUS
  <2>3. PICK grp : grp = StartPlayback(old)
    OBVIOUS
  <2>4. /\ grp \in GroupOf /\ Entered(grp) = Entered(old) /\ grp.sending = "silent"
        /\ grp.heard = old.heard /\ grp.all = old.all /\ grp.clean = old.clean
        /\ grp.since = old.since /\ grp.before = old.before
        /\ grp.pausedComplete = old.pausedComplete
        /\ old.sounding => grp.sounding
        /\ old.untimed => grp.untimed
    BY <1>1, <2>2, <2>3, StartPlaybackDoes
  <2>5. KeyedOn(grp, old)
    BY <2>4 DEF KeyedOn
  <2>6. ~(g > Told(s))
    BY <2>1, SendsAreOfNext
  <2>7. MarkFits(s, g, grp)
    BY <2>2, <2>4, <2>5, <2>6 DEF MarkFits
  <2>9. PICK missed \in BOOLEAN, known \in BOOLEAN : missed = FALSE /\ known = TRUE
    OBVIOUS
  <2>10. t = Marked(s, g, grp, missed, known)
    BY <1>1, <1>3, <2>2, <2>3, <2>9 DEF PlaybackStarted, Marked, Session
  <2>11. /\ Regrouped(s, t) /\ t.sends = s.sends /\ Box(t) = Box(s)
         /\ t.groups[g] = grp /\ t.missed = missed /\ t.known = known
    BY <2>7, <2>10, MarkedDoes
  <2>12. Stage(t) = Stage(s)
    BY <2>11 DEF Regrouped
  <2>13. t.phase = s.phase /\ t.about = s.about
    BY <2>12 DEF Stage
  <2>14. t.phase = "playing" => (t.sends = {} <=> "no" \in {"failed", "ended"})
    BY <2>11, <2>13 DEF Fits, Leased
  <2>16. HeardSo(t, g, "no")
    <3>1. HeardSo(s, g, "restart")
      BY <2>1, NextHeard
    <3>2. grp.counted = old.counted
      BY <2>4 DEF Entered
    <3>3. /\ One(Sounds(t, g)) = 0 /\ One(SoundsWhole(t, g)) = 0
          /\ One(Sounds(s, g)) = 0 /\ One(SoundsWhole(s, g)) = 0
          /\ PlayingGroup(t, g)
      BY <1>3, <2>11, <2>13 DEF Sounds, SoundsWhole, PlayingGroup, One
    <3>4. /\ old.heard <= old.all /\ old.counted <= old.all + 0 /\ old.clean <= old.heard
      BY <2>2, <3>1, <3>3 DEF HeardSo
    <3>5. old.clean \in Nat /\ old.heard \in Nat
      BY <1>1, <2>2 DEF GroupOf
    <3>6. One("silent" = "sounded") = 0 /\ old.clean + 0 <= old.heard + 0
      BY <3>4, <3>5 DEF One
    <3>. QED BY <2>4, <2>9, <2>11, <3>2, <3>3, <3>4, <3>6 DEF HeardSo
  <2>17. OutRight(t)
    BY <2>4, <2>9, <2>11 DEF OutRight
  <2>18. Fits(t, due, "no")
    BY <2>1, <2>11, <2>14, <2>16, <2>17, RegroupedFits
  <2>. QED BY <2>11, <2>12, <2>18
<1>. QED BY <1>2, <1>3

\* Characters of a send going out went unheard, or the session knows of what did.
MissOf(s, g, lost) ==
  PlayingGroup(s, g) => (lost /\ \A x \in s.sends : x.lost) \/ (~lost /\ s.known)

LEMMA MissedFits ==
  ASSUME NEW s, NEW due, Fits(s, due, "no"), NEW g \in Groups, NEW lost \in BOOLEAN,
         MissOf(s, g, lost), NEW t, t = PlaybackMissed(s, g, lost)
  PROVE  Fits(t, due, "no") /\ t.sends = s.sends /\ Box(t) = Box(s) /\ Stage(t) = Stage(s)
<1>0. PICK n : n = NoteHeldUp(s, g)
  OBVIOUS
<1>1. /\ Fits(n, due, "no") /\ n.sends = s.sends /\ Box(n) = Box(s)
      /\ Stage(n) = Stage(s) /\ n.known = s.known
  BY <1>0, HeldUpFits
<1>2. n \in Session /\ n.groups \in [Groups -> GroupOf] /\ n.groups[g] \in GroupOf
  BY <1>1, GroupTypes DEF Fits
<1>3. CASE ~lost /\ s.known
  BY <1>3 DEF PlaybackMissed
<1>4. CASE ~(~lost /\ s.known) /\ ~PlayingGroup(s, g)
  <2>1. t = n
    BY <1>0, <1>4 DEF PlaybackMissed
  <2>. QED BY <1>1, <2>1
<1>5. CASE ~(~lost /\ s.known) /\ PlayingGroup(s, g)
  <2>1. \A x \in n.sends : x.lost
    BY <1>1, <1>5 DEF MissOf
  <2>2. n.phase = s.phase /\ n.about = s.about
    BY <1>1 DEF Stage
  <2>3. PlayingGroup(n, g)
    BY <1>5, <2>2 DEF PlayingGroup
  <2>4. g = Told(n) /\ n.phase = "playing" /\ ~IsTerminal(n)
    BY <1>1, <2>3 DEF PlayingGroup, IsTerminal, Fits, AboutNext, Answerable, Playing
  <2>5. PICK old : old = n.groups[g]
    OBVIOUS
  <2>6. PICK grp : grp = [old EXCEPT !.sending = "none"]
    OBVIOUS
  <2>7. /\ grp \in GroupOf /\ Entered(grp) = Entered(old) /\ Keyed(grp) = Keyed(old)
        /\ grp.sending = "none"
        /\ grp.heard = old.heard /\ grp.all = old.all /\ grp.clean = old.clean
    BY <1>2, <2>5, <2>6 DEF GroupOf, Entered, Keyed
  <2>8. KeyedOn(grp, old)
    BY <2>7 DEF Keyed, KeyedOn
  <2>9. ~(g > Told(n))
    BY <1>1, <2>4, SendsAreOfNext
  <2>10. MarkFits(n, g, grp)
    BY <2>5, <2>7, <2>8, <2>9 DEF MarkFits
  <2>11. n.known \in BOOLEAN
    BY <1>2 DEF Session
  <2>12. PICK missed \in BOOLEAN, known \in BOOLEAN : missed = TRUE /\ known = n.known
    BY <2>11
  <2>13. t = [n EXCEPT !.groups[g].sending = "none", !.missed = TRUE]
    BY <1>0, <1>5 DEF PlaybackMissed
  <2>14. t = Marked(n, g, grp, missed, known)
    BY <1>2, <2>5, <2>6, <2>12, <2>13 DEF Marked, Session
  <2>15. /\ Regrouped(n, t) /\ t.sends = n.sends /\ Box(t) = Box(n)
         /\ t.groups[g] = grp /\ t.missed = missed /\ t.known = known
    BY <1>1, <2>10, <2>14, MarkedDoes
  <2>16. Stage(t) = Stage(n)
    BY <2>15 DEF Regrouped
  <2>17. t.phase = n.phase /\ t.about = n.about
    BY <2>16 DEF Stage
  <2>18. t.phase = "playing" => (t.sends = {} <=> "no" \in {"failed", "ended"})
    BY <1>1, <2>15, <2>17 DEF Fits, Leased
  <2>19. HeardSo(t, g, "no")
    <3>1. HeardSo(n, g, "no")
      BY <1>1, <2>4, NextHeard
    <3>2. grp.counted = old.counted
      BY <2>7 DEF Entered
    <3>3. Sounds(t, g) = Sounds(n, g) /\ One(SoundsWhole(t, g)) = 0
      BY <2>1, <2>15 DEF Sounds, SoundsWhole, One
    <3>4. /\ old.heard <= old.all /\ old.counted <= old.all + One(Sounds(n, g))
          /\ old.clean <= old.heard
      BY <2>5, <3>1 DEF HeardSo
    <3>5. old.clean \in Nat /\ old.heard \in Nat
      BY <1>2, <2>5 DEF GroupOf
    <3>6. One("none" = "sounded") = 0 /\ old.clean + 0 <= old.heard + 0
      BY <3>4, <3>5 DEF One
    <3>. QED BY <2>7, <2>15, <3>2, <3>3, <3>4, <3>6 DEF HeardSo
  <2>20. OutRight(t)
    BY <1>1, <2>1, <2>12, <2>15 DEF OutRight, Fits
  <2>21. Fits(t, due, "no")
    BY <1>1, <2>4, <2>15, <2>18, <2>19, <2>20, RegroupedFits
  <2>. QED BY <1>1, <2>15, <2>16, <2>21
<1>. QED BY <1>3, <1>4, <1>5

-----------------------------------------------------------------------------
(***************************************************************************)
(* What a send goes through, before the session hears of it.               *)
(***************************************************************************)
\* Nothing of the box, of what it may take, and of what is typed has changed.
Alike(s, t) ==
  /\ t.settings = s.settings /\ t.phase = s.phase /\ t.current = s.current /\ Box(t) = Box(s)
  /\ t.learned = s.learned
  /\ \A h \in Groups : /\ t.groups[h].done = s.groups[h].done
                      /\ t.groups[h].input = s.groups[h].input

\* Its group, and what is left in flight.
Sent(s, g, grp, sends) ==
  [s EXCEPT !.groups = [s.groups EXCEPT ![g] = grp], !.sends = sends]

SendsFit(s, sends) ==
  /\ sends \subseteq SendOf
  /\ \A x, y \in sends : x = y
  /\ \A x \in sends : \E y \in s.sends : x.of = y.of

LEMMA SentDoes ==
  ASSUME NEW s, NEW due, NEW amiss, Fits(s, due, amiss),
         NEW g, NEW grp, MarkFits(s, g, grp), NEW sends, SendsFit(s, sends),
         NEW t, t = Sent(s, g, grp, sends)
  PROVE  /\ Regrouped(s, t) /\ t.sends = sends /\ Box(t) = Box(s)
         /\ t.groups[g] = grp /\ t.missed = s.missed /\ t.known = s.known
         /\ Alike(s, t)
<1>1. /\ s \in Session /\ g \in Groups /\ grp \in GroupOf
      /\ Entered(grp) = Entered(s.groups[g]) /\ KeyedOn(grp, s.groups[g])
      /\ g > Told(s) => grp = s.groups[g]
  BY DEF Fits, MarkFits
<1>2. PICK groups : groups = [s.groups EXCEPT ![g] = grp]
  OBVIOUS
<1>3. s.groups \in [Groups -> GroupOf]
  BY <1>1, GroupTypes
<1>4. /\ groups \in [Groups -> GroupOf] /\ groups[g] = grp
      /\ \A h \in Groups \ {g} : groups[h] = s.groups[h]
  BY <1>1, <1>2, <1>3
<1>5. t = [s EXCEPT !.groups = groups, !.sends = sends]
  BY <1>2 DEF Sent
<1>6. t \in Session
  <2>1. PICK n : n = [s EXCEPT !.groups = groups]
    OBVIOUS
  <2>2. s \in Session /\ groups \in [Groups -> GroupOf] /\ sends \in SUBSET SendOf
    BY <1>1, <1>4 DEF SendsFit
  <2>3. n \in Session
    BY <2>1, <2>2 DEF Session
  <2>4. t = [n EXCEPT !.sends = sends]
    BY <1>5, <2>1
  <2>. QED BY Zenon, <2>2, <2>3, <2>4 DEF Session
<1>7. /\ t.groups = groups /\ Stage(t) = Stage(s) /\ t.sends = sends /\ Box(t) = Box(s)
      /\ t.missed = s.missed /\ t.known = s.known
  BY <1>1, <1>5 DEF Session, Stage, Box
<1>8. \A h \in Groups : /\ Entered(t.groups[h]) = Entered(s.groups[h])
                        /\ KeyedOn(t.groups[h], s.groups[h])
                        /\ h > Told(s) => t.groups[h] = s.groups[h]
  BY <1>1, <1>4, <1>7 DEF KeyedOn
<1>10. Regrouped(s, t)
  BY <1>6, <1>7, <1>8 DEF Regrouped, SendsFit
<1>11. Alike(s, t)
  <2>1. /\ t.settings = s.settings /\ t.phase = s.phase /\ t.current = s.current
        /\ t.learned = s.learned /\ Box(t) = Box(s)
    BY <1>7 DEF Stage
  <2>2. \A h \in Groups : Entered(t.groups[h]) = Entered(s.groups[h])
    BY <1>8
  <2>3. \A h \in Groups : /\ t.groups[h].done = s.groups[h].done
                          /\ t.groups[h].input = s.groups[h].input
    BY <2>2 DEF Entered
  <2>. QED BY <2>1, <2>3 DEF Alike
<1>. QED BY <1>4, <1>7, <1>10, <1>11

\* The group of the send in flight is the next.
SendIn(s, send, g) == Fits(s, {}, "no") /\ send \in s.sends /\ g = send.of

LEMMA SendIsOfNext ==
  ASSUME NEW s, NEW send, NEW g, SendIn(s, send, g)
  PROVE  /\ g \in Groups /\ g = Told(s) /\ s.about = g /\ s.phase = "playing" /\ ~IsTerminal(s)
         /\ s.sends = {send} /\ send \in SendOf /\ ~(g > Told(s))
         /\ s \in Session /\ s.groups \in [Groups -> GroupOf] /\ s.groups[g] \in GroupOf
         /\ PlayingGroup(s, g) /\ HeardSo(s, g, "no") /\ ~s.groups[g].done
         /\ OutRight(s)
         /\ Sounds(s, g) = send.sounded /\ SoundsWhole(s, g) = (send.sounded /\ ~send.lost)
<1>1. /\ g = Told(s) /\ s.about = g /\ s.phase = "playing"
      /\ send \in SendOf /\ Told(s) \in Nat /\ s.sends = {send} /\ s \in Session
  BY SendsAreOfNext DEF SendIn, Fits
<1>2. g \in Groups /\ send.sounded \in BOOLEAN /\ send.lost \in BOOLEAN
  BY <1>1 DEF Session, SendOf
<1>3. ~IsTerminal(s) /\ PlayingGroup(s, g)
  BY <1>1 DEF IsTerminal, PlayingGroup
<1>4. Fits(s, {}, "no") /\ send.of = g
  BY DEF SendIn
<1>5. HeardSo(s, g, "no") /\ ~s.groups[g].done
  BY <1>1, <1>2, <1>3, <1>4, NextHeard
<1>6. OutRight(s)
  BY <1>4 DEF Fits
<1>7. Sounds(s, g) = send.sounded /\ SoundsWhole(s, g) = (send.sounded /\ ~send.lost)
  BY <1>1, <1>2, <1>4 DEF Sounds, SoundsWhole
<1>8. s.groups \in [Groups -> GroupOf] /\ s.groups[g] \in GroupOf
  BY <1>1, <1>2, GroupTypes
<1>. QED BY <1>1, <1>2, <1>3, <1>5, <1>6, <1>7, <1>8

\* What becomes of one.
Becomes(s, send, g, now, grp, sends) ==
  /\ SendIn(s, send, g) /\ now \in SendOf /\ now.of = g /\ sends = {now}
  /\ MarkFits(s, g, grp)

LEMMA BecomesFits ==
  ASSUME NEW s, NEW send, NEW g, NEW now, NEW grp, NEW sends,
         Becomes(s, send, g, now, grp, sends), NEW t, t = Sent(s, g, grp, sends), NEW a2 \in {"no", "restart"},
         PlayingGroup(t, g) => HeardSo(t, g, a2),
         a2 = "no" => OutRight(t)
  PROVE  Fits(t, {}, a2)
<1>1. /\ g = Told(s) /\ s.phase = "playing" /\ s.about = g /\ Fits(s, {}, "no")
      /\ send \in s.sends /\ send.of = g
  BY SendIsOfNext DEF Becomes, SendIn
<1>2. SendsFit(s, sends)
  BY <1>1 DEF Becomes, SendsFit
<1>3. Regrouped(s, t) /\ t.sends = sends /\ sends = {now}
  BY <1>1, <1>2, SentDoes DEF Becomes
<1>4. t.about = s.about /\ t.phase = s.phase
  BY <1>3 DEF Regrouped, Stage
<1>5. HeardSo(t, g, a2)
  BY <1>1, <1>4 DEF PlayingGroup
<1>. QED BY <1>1, <1>3, <1>5, RegroupedFits

LEMMA BecomesDoes ==
  ASSUME NEW s, NEW send, NEW g, NEW now, NEW grp, NEW sends,
         Becomes(s, send, g, now, grp, sends), NEW t, t = Sent(s, g, grp, sends)
  PROVE  /\ t.sends = sends /\ Box(t) = Box(s) /\ Stage(t) = Stage(s)
         /\ t.groups[g] = grp /\ t.missed = s.missed /\ t.known = s.known
         /\ Room(t) = Room(s) /\ PlayingGroup(t, g)
         /\ Sounds(t, g) = now.sounded /\ SoundsWhole(t, g) = (now.sounded /\ ~now.lost)
         /\ Alike(s, t)
<1>1. /\ Fits(s, {}, "no") /\ s.sends = {send} /\ send.of = g /\ now \in SendOf
      /\ now.of = g /\ PlayingGroup(s, g) /\ sends = {now}
  BY SendIsOfNext DEF Becomes, SendIn
<1>2. SendsFit(s, sends)
  BY <1>1 DEF SendsFit
<1>3. /\ Regrouped(s, t) /\ t.sends = sends /\ Box(t) = Box(s)
      /\ t.groups[g] = grp /\ t.missed = s.missed /\ t.known = s.known
      /\ Alike(s, t)
  BY <1>1, <1>2, SentDoes DEF Becomes
<1>4. Stage(t) = Stage(s) /\ t.timers = s.timers /\ t.phase = s.phase /\ t.about = s.about
  BY <1>3 DEF Regrouped, Stage
<1>5. Room(t) = Room(s) /\ PlayingGroup(t, g)
  BY <1>1, <1>3, <1>4 DEF Room, PlayingGroup
<1>6. now.sounded \in BOOLEAN /\ now.lost \in BOOLEAN
  BY <1>1 DEF SendOf
<1>7. Sounds(t, g) = now.sounded /\ SoundsWhole(t, g) = (now.sounded /\ ~now.lost)
  BY <1>1, <1>3, <1>6 DEF Sounds, SoundsWhole
<1>. QED BY <1>3, <1>4, <1>5, <1>7

\* It goes out, on its first attempt or a later one: what sounded before counts.
GoesOut(s, send, g) ==
  [With(s, send, [send EXCEPT !.out = TRUE, !.sounded = FALSE, !.lost = FALSE])
     EXCEPT !.groups[g].all = IF send.sounded THEN @ + 1 ELSE @]

LEMMA GoesOutFits ==
  ASSUME NEW s, NEW send, NEW g, SendIn(s, send, g), NEW t, t = GoesOut(s, send, g)
  PROVE  /\ Fits(t, {}, "restart") /\ Room(t) = Room(s) /\ Box(t) = Box(s)
         /\ \A x \in t.sends : x.of = g /\ ~x.sounded /\ ~x.lost
         /\ Alike(s, t)
<1>1. /\ g \in Groups /\ s.sends = {send} /\ send \in SendOf /\ ~(g > Told(s))
      /\ s \in Session /\ s.groups \in [Groups -> GroupOf] /\ s.groups[g] \in GroupOf
      /\ HeardSo(s, g, "no")
      /\ Sounds(s, g) = send.sounded /\ SoundsWhole(s, g) = (send.sounded /\ ~send.lost)
      /\ PlayingGroup(s, g) /\ send.of = g
  BY SendIsOfNext DEF SendIn
<1>2. PICK now : now = [send EXCEPT !.out = TRUE, !.sounded = FALSE, !.lost = FALSE]
  OBVIOUS
<1>3. now \in SendOf /\ now.of = g /\ ~now.sounded /\ ~now.lost
  BY <1>1, <1>2 DEF SendOf
<1>4. PICK old : old = s.groups[g]
  OBVIOUS
<1>5. old.all \in Nat /\ old.heard \in Nat /\ old.clean \in Nat /\ old \in GroupOf
  BY <1>1, <1>4 DEF GroupOf
<1>6. PICK all \in Nat : all = old.all + One(send.sounded)
  BY <1>5, Ones
<1>7. PICK grp : grp = [old EXCEPT !.all = all]
  OBVIOUS
<1>8. /\ grp \in GroupOf /\ Entered(grp) = Entered(old) /\ Keyed(grp) = Keyed(old)
      /\ grp.all = all /\ grp.heard = old.heard /\ grp.clean = old.clean
      /\ grp.sending = old.sending /\ grp.counted = old.counted
  BY <1>5, <1>6, <1>7 DEF GroupOf, Entered, Keyed
<1>9. KeyedOn(grp, old)
  BY <1>8 DEF Keyed, KeyedOn
<1>10. MarkFits(s, g, grp)
  BY <1>1, <1>4, <1>8, <1>9 DEF MarkFits
<1>11. (IF send.sounded THEN old.all + 1 ELSE old.all) = all
  BY <1>5, <1>6 DEF One
<1>12. PICK u : u = With(s, send, now)
  OBVIOUS
<1>13. u = [s EXCEPT !.sends = {now}]
  BY <1>1, <1>12 DEF With
<1>14. u.groups = s.groups
  BY <1>1, <1>13 DEF Session
<1>15. t = [u EXCEPT !.groups = [s.groups EXCEPT ![g] = grp]]
  <2>1. t = [u EXCEPT !.groups[g].all = IF send.sounded THEN @ + 1 ELSE @]
    BY <1>2, <1>12 DEF GoesOut
  <2>. QED BY <1>1, <1>4, <1>7, <1>11, <1>13, <1>14, <2>1 DEF Session
<1>0. PICK sends : sends = {now}
  OBVIOUS
<1>16. t = Sent(s, g, grp, sends)
  BY <1>0, <1>1, <1>13, <1>15 DEF Sent, Session
<1>17. Becomes(s, send, g, now, grp, sends)
  BY <1>0, <1>3, <1>10 DEF Becomes
<1>18. /\ t.sends = sends /\ Box(t) = Box(s) /\ Room(t) = Room(s)
       /\ t.groups[g] = grp /\ t.missed = s.missed /\ t.known = s.known /\ PlayingGroup(t, g)
       /\ Sounds(t, g) = now.sounded /\ SoundsWhole(t, g) = (now.sounded /\ ~now.lost)
       /\ Alike(s, t)
  BY <1>16, <1>17, BecomesDoes
<1>19. HeardSo(t, g, "restart")
  <2>1. One(Sounds(t, g)) = 0 /\ One(SoundsWhole(t, g)) = 0
    BY <1>0, <1>3, <1>18 DEF One
  <2>2. /\ old.heard <= old.all
        /\ old.sending = "sounded" => old.heard < old.all + One(send.sounded)
        /\ old.counted <= old.all + One(send.sounded)
        /\ old.clean <= old.heard
        /\ s.missed => old.sending = "none"
    BY <1>1, <1>4 DEF HeardSo
  <2>3. old.heard <= all + 0
    BY <1>5, <1>6, <2>2, Ones
  <2>4. old.clean + 0 <= old.heard + One(old.sending = "sounded")
    BY <1>5, <2>2 DEF One
  <2>5. all + 0 = all
    BY <1>6
  <2>. QED BY <1>6, <1>8, <1>18, <2>1, <2>2, <2>3, <2>4, <2>5 DEF HeardSo
<1>20. Fits(t, {}, "restart")
  BY <1>16, <1>17, <1>19, BecomesFits
<1>. QED BY <1>0, <1>3, <1>18, <1>20

\* Its first character sounds.
SoundsFirst(s, send, g) ==
  [With(s, send, [send EXCEPT !.sounded = TRUE])
     EXCEPT !.groups[g].sending = IF @ = "silent" THEN "sounded" ELSE @]

LEMMA SoundsFits ==
  ASSUME NEW s, NEW send, NEW g, SendIn(s, send, g), ~send.sounded,
         send.out \/ s.groups[g].sending = "silent",
         NEW t, t = SoundsFirst(s, send, g)
  PROVE  Fits(t, {}, "no") /\ Room(t) = Room(s) /\ Box(t) = Box(s) /\ Alike(s, t)
<1>1. /\ g \in Groups /\ s.sends = {send} /\ send \in SendOf /\ ~(g > Told(s))
      /\ s \in Session /\ s.groups \in [Groups -> GroupOf] /\ s.groups[g] \in GroupOf
      /\ HeardSo(s, g, "no") /\ OutRight(s)
      /\ Sounds(s, g) = send.sounded /\ SoundsWhole(s, g) = (send.sounded /\ ~send.lost)
      /\ PlayingGroup(s, g) /\ send.of = g
  BY SendIsOfNext DEF SendIn
<1>2. PICK now : now = [send EXCEPT !.sounded = TRUE]
  OBVIOUS
<1>3. now \in SendOf /\ now.of = g /\ now.sounded /\ now.lost = send.lost /\ now.out = send.out
  BY <1>1, <1>2 DEF SendOf
<1>4. PICK old : old = s.groups[g]
  OBVIOUS
<1>5. /\ old.all \in Nat /\ old.heard \in Nat /\ old.clean \in Nat /\ old \in GroupOf
      /\ old.counted \in Nat
      /\ old.sending \in {"none", "silent", "sounded"}
  BY <1>1, <1>4 DEF GroupOf
<1>6. PICK sending \in {"none", "silent", "sounded"} :
        sending = IF old.sending = "silent" THEN "sounded" ELSE old.sending
  BY <1>5
<1>7. PICK grp : grp = [old EXCEPT !.sending = sending]
  OBVIOUS
<1>8. /\ grp \in GroupOf /\ Entered(grp) = Entered(old) /\ Keyed(grp) = Keyed(old)
      /\ grp.all = old.all /\ grp.heard = old.heard /\ grp.clean = old.clean
      /\ grp.sending = sending /\ grp.counted = old.counted
  BY <1>5, <1>7 DEF GroupOf, Entered, Keyed
<1>9. KeyedOn(grp, old)
  BY <1>8 DEF Keyed, KeyedOn
<1>10. MarkFits(s, g, grp)
  BY <1>1, <1>4, <1>8, <1>9 DEF MarkFits
<1>12. PICK u : u = With(s, send, now)
  OBVIOUS
<1>13. u = [s EXCEPT !.sends = {now}]
  BY <1>1, <1>12 DEF With
<1>14. u.groups = s.groups
  BY <1>1, <1>13 DEF Session
<1>15. t = [u EXCEPT !.groups = [s.groups EXCEPT ![g] = grp]]
  <2>1. t = [u EXCEPT !.groups[g].sending = IF @ = "silent" THEN "sounded" ELSE @]
    BY <1>2, <1>12 DEF SoundsFirst
  <2>. QED BY <1>1, <1>4, <1>6, <1>7, <1>13, <1>14, <2>1 DEF Session
<1>0. PICK sends : sends = {now}
  OBVIOUS
<1>16. t = Sent(s, g, grp, sends)
  BY <1>0, <1>1, <1>13, <1>15 DEF Sent, Session
<1>17. Becomes(s, send, g, now, grp, sends)
  BY <1>0, <1>3, <1>10 DEF Becomes
<1>18. /\ t.sends = sends /\ Box(t) = Box(s) /\ Room(t) = Room(s)
       /\ t.groups[g] = grp /\ t.missed = s.missed /\ t.known = s.known /\ PlayingGroup(t, g)
       /\ Sounds(t, g) = now.sounded /\ SoundsWhole(t, g) = (now.sounded /\ ~now.lost)
       /\ Alike(s, t)
  BY <1>16, <1>17, BecomesDoes
<1>19. ~send.lost => old.sending = "silent"
  BY <1>1, <1>4 DEF OutRight
<1>20. HeardSo(t, g, "no")
  <2>1. One(Sounds(t, g)) = 1 /\ One(SoundsWhole(t, g)) = One(~send.lost)
    BY <1>0, <1>3, <1>18 DEF One
  <2>2. /\ old.heard <= old.all /\ old.counted <= old.all + One(send.sounded)
        /\ old.clean <= old.heard
        /\ s.missed => old.sending = "none"
    BY <1>1, <1>4 DEF HeardSo
  <2>3. old.heard < old.all + 1 /\ old.counted <= old.all + 1
    BY <1>5, <2>2, Ones
  <2>4. old.clean + One(~send.lost) <= old.heard + One(sending = "sounded")
    <3>1. ~send.lost => sending = "sounded"
      BY <1>6, <1>19
    <3>2. One(~send.lost) <= One(sending = "sounded")
      BY <3>1 DEF One
    <3>. QED BY <1>5, <2>2, <3>2, Ones
  <2>5. s.missed => sending = "none"
    BY <1>6, <2>2
  <2>. QED BY <1>8, <1>18, <2>1, <2>2, <2>3, <2>4, <2>5 DEF HeardSo
<1>21. OutRight(t)
  BY <1>0, <1>1, <1>3, <1>18, <1>19 DEF OutRight
<1>22. Fits(t, {}, "no")
  BY <1>16, <1>17, <1>20, <1>21, BecomesFits
<1>. QED BY <1>18, <1>22

\* Some of it was skipped, or an attempt at it has failed and it is tried again.
LEMMA ChangesFits ==
  ASSUME NEW s, NEW send, NEW g, SendIn(s, send, g),
         NEW now \in SendOf, now.of = g, now.sounded = send.sounded,
         send.lost => now.lost, now.out => send.out,
         NEW t, t = With(s, send, now)
  PROVE  /\ Fits(t, {}, "no") /\ Room(t) = Room(s) /\ Box(t) = Box(s) /\ t.sends = {now}
         /\ t.known = s.known /\ Stage(t) = Stage(s) /\ Alike(s, t)
<1>1. /\ g \in Groups /\ s.sends = {send} /\ send \in SendOf /\ ~(g > Told(s))
      /\ s \in Session /\ s.groups \in [Groups -> GroupOf] /\ s.groups[g] \in GroupOf
      /\ HeardSo(s, g, "no") /\ OutRight(s)
      /\ Sounds(s, g) = send.sounded /\ SoundsWhole(s, g) = (send.sounded /\ ~send.lost)
      /\ PlayingGroup(s, g) /\ send.of = g
  BY SendIsOfNext DEF SendIn
<1>2. PICK grp : grp = s.groups[g]
  OBVIOUS
<1>3. MarkFits(s, g, grp)
  BY <1>1, <1>2 DEF MarkFits, KeyedOn
<1>4. [s.groups EXCEPT ![g] = grp] = s.groups
  BY <1>1, <1>2
<1>0. PICK sends : sends = {now}
  OBVIOUS
<1>5. t = Sent(s, g, grp, sends)
  BY <1>0, <1>1, <1>4 DEF Sent, With, Session
<1>6. Becomes(s, send, g, now, grp, sends)
  BY <1>0, <1>3 DEF Becomes
<1>7. /\ t.sends = sends /\ Box(t) = Box(s) /\ Room(t) = Room(s) /\ Stage(t) = Stage(s)
      /\ t.groups[g] = grp /\ t.missed = s.missed /\ t.known = s.known /\ PlayingGroup(t, g)
      /\ Sounds(t, g) = now.sounded /\ SoundsWhole(t, g) = (now.sounded /\ ~now.lost)
      /\ Alike(s, t)
  BY <1>5, <1>6, BecomesDoes
<1>8. /\ send.sounded \in BOOLEAN /\ send.lost \in BOOLEAN /\ now.lost \in BOOLEAN
      /\ now.out \in BOOLEAN /\ send.out \in BOOLEAN /\ now.sounded \in BOOLEAN
  BY <1>1 DEF SendOf
<1>9. HeardSo(t, g, "no")
  <2>1. Sounds(t, g) = Sounds(s, g)
    BY <1>1, <1>7
  <2>2. SoundsWhole(t, g) => SoundsWhole(s, g)
    BY <1>1, <1>7, <1>8
  <2>3. One(SoundsWhole(t, g)) <= One(SoundsWhole(s, g))
    BY <2>2 DEF One
  <2>4. grp.clean \in Nat /\ grp.heard \in Nat
    BY <1>1, <1>2 DEF GroupOf
  <2>5. grp.clean + One(SoundsWhole(s, g)) <= grp.heard + One(grp.sending = "sounded")
    BY <1>1, <1>2 DEF HeardSo
  <2>6. grp.clean + One(SoundsWhole(t, g)) <= grp.heard + One(grp.sending = "sounded")
    BY <2>3, <2>4, <2>5, Ones
  <2>. QED BY <1>1, <1>2, <1>7, <2>1, <2>6 DEF HeardSo
<1>10. OutRight(t)
  BY <1>0, <1>1, <1>2, <1>7, <1>8 DEF OutRight
<1>11. Fits(t, {}, "no")
  BY <1>5, <1>6, <1>9, <1>10, BecomesFits
<1>. QED BY <1>0, <1>7, <1>11

\* It has ended, or failed for good, and the session is yet to hear of it.
LEMMA GoneFits ==
  ASSUME NEW s, NEW send, NEW g, SendIn(s, send, g), NEW ended \in BOOLEAN,
         NEW amiss, amiss = (IF ended THEN "ended" ELSE "failed"),
         NEW t, t = SendGone(s, send, ended)
  PROVE  /\ Fits(t, {}, amiss) /\ Room(t) = Room(s) - 1 /\ Box(t) = Box(s)
         /\ Stage(t) = Stage(s) /\ Alike(s, t)
<1>1. /\ g \in Groups /\ s.sends = {send} /\ send \in SendOf /\ ~(g > Told(s))
      /\ s \in Session /\ s.groups \in [Groups -> GroupOf] /\ s.groups[g] \in GroupOf
      /\ ~s.groups[g].done /\ g = Told(s)
      /\ HeardSo(s, g, "no") /\ OutRight(s)
      /\ Sounds(s, g) = send.sounded /\ SoundsWhole(s, g) = (send.sounded /\ ~send.lost)
      /\ PlayingGroup(s, g) /\ send.of = g /\ Fits(s, {}, "no")
  BY SendIsOfNext DEF SendIn
<1>2. PICK old : old = s.groups[g]
  OBVIOUS
<1>3. PICK grp : grp = Counted(old, send, ended)
  OBVIOUS
<1>4. /\ grp \in GroupOf /\ Entered(grp) = Entered(old) /\ Keyed(grp) = Keyed(old)
      /\ grp.heard = old.heard /\ grp.sending = old.sending
      /\ ~old.done => /\ grp.all = old.all + One(ended \/ send.sounded)
                      /\ grp.clean = old.clean + One(send.sounded /\ ~send.lost)
  BY <1>1, <1>2, <1>3, CountedDoes
<1>5. KeyedOn(grp, old)
  BY <1>4 DEF Keyed, KeyedOn
<1>6. MarkFits(s, g, grp)
  BY <1>1, <1>2, <1>4, <1>5 DEF MarkFits
<1>7. PICK sends : sends = {}
  OBVIOUS
<1>8. SendsFit(s, sends)
  BY <1>7 DEF SendsFit
<1>9. t = Sent(s, g, grp, sends)
  BY <1>1, <1>2, <1>3, <1>7 DEF SendGone, Sent, Session
<1>10. /\ Regrouped(s, t) /\ t.sends = sends /\ Box(t) = Box(s)
       /\ t.groups[g] = grp /\ t.missed = s.missed /\ t.known = s.known
       /\ Alike(s, t)
  BY <1>1, <1>6, <1>8, <1>9, SentDoes
<1>11. Stage(t) = Stage(s) /\ t.timers = s.timers /\ t.phase = s.phase /\ t.about = s.about
  BY <1>10 DEF Regrouped, Stage
<1>12. PlayingGroup(t, g)
  BY <1>1, <1>11 DEF PlayingGroup
<1>13. Room(t) = Room(s) - 1
  BY <1>1, <1>7, <1>10, <1>11, TimersAreFinite DEF Room
<1>14. HeardSo(t, g, amiss)
  <2>1. One(Sounds(t, g)) = 0 /\ One(SoundsWhole(t, g)) = 0
    BY <1>7, <1>10 DEF Sounds, SoundsWhole, One
  <2>2. PICK snd \in {0, 1} : snd = One(send.sounded)
    BY Ones
  <2>3. PICK whole \in {0, 1} : whole = One(send.sounded /\ ~send.lost)
    BY Ones
  <2>4. PICK count \in {0, 1} : count = One(ended \/ send.sounded)
    BY Ones
  <2>5. snd <= count /\ (ended => count = 1)
    BY <2>2, <2>4 DEF One
  <2>6. /\ old.heard <= old.all
        /\ old.sending = "sounded" => old.heard < old.all + snd
        /\ old.counted <= old.all + snd
        /\ old.clean + whole <= old.heard + One(old.sending = "sounded")
        /\ s.missed => old.sending = "none"
    BY <1>1, <1>2, <2>2, <2>3 DEF HeardSo
  <2>7. /\ old.heard \in Nat /\ old.all \in Nat /\ old.clean \in Nat /\ old.counted \in Nat
    BY <1>1, <1>2 DEF GroupOf
  <2>8. grp.all = old.all + count /\ grp.clean = old.clean + whole /\ grp.counted = old.counted
    BY <1>1, <1>2, <1>4, <2>3, <2>4 DEF Entered
  <2>9. /\ grp.heard <= grp.all
        /\ grp.sending = "sounded" => grp.heard < grp.all + 0
        /\ grp.counted <= grp.all + 0
        /\ ended => grp.heard < grp.all
    BY <1>4, <2>5, <2>6, <2>7, <2>8
  <2>10. grp.clean + 0 <= grp.heard + One(grp.sending = "sounded")
    BY <1>4, <2>6, <2>7, <2>8
  <2>11. amiss \in {"failed", "ended"} /\ (amiss = "ended" => ended)
    OBVIOUS
  <2>. QED BY <1>4, <1>10, <1>12, <2>1, <2>6, <2>9, <2>10, <2>11 DEF HeardSo
<1>15. OutRight(t)
  BY <1>7, <1>10 DEF OutRight
<1>16. t.phase = "playing" => (t.sends = {} <=> amiss \in {"failed", "ended"})
  BY <1>7, <1>10
<1>17. Fits(t, {}, amiss)
  BY <1>1, <1>10, <1>14, <1>15, <1>16, RegroupedFits
<1>. QED BY <1>10, <1>11, <1>13, <1>17

-----------------------------------------------------------------------------
(***************************************************************************)
(* What the box holds, and what only counts down, is nothing to whether a  *)
(* session fits.                                                           *)
(***************************************************************************)
View(s) == <<s.settings, s.phase, s.about, s.current, s.groups, s.phaseTimer, s.auto, s.begun,
             s.countdownTo, s.resume, s.missed, s.known, s.learned, s.timers, s.sends,
             s.stopped, s.held, s.over>>

LEMMA FitsAsSeen ==
  ASSUME NEW s, NEW due, NEW amiss, Fits(s, due, amiss), NEW t \in Session, View(t) = View(s)
  PROVE  Fits(t, due, amiss) /\ Room(t) = Room(s) /\ Told(t) = Told(s)
<1>1. /\ t.settings = s.settings /\ t.phase = s.phase /\ t.about = s.about
      /\ t.current = s.current /\ t.groups = s.groups /\ t.phaseTimer = s.phaseTimer
      /\ t.auto = s.auto /\ t.begun = s.begun /\ t.countdownTo = s.countdownTo
      /\ t.resume = s.resume /\ t.missed = s.missed /\ t.known = s.known
      /\ t.learned = s.learned /\ t.timers = s.timers /\ t.sends = s.sends
      /\ t.stopped = s.stopped /\ t.held = s.held /\ t.over = s.over
  BY DEF View
<1>2. Room(t) = Room(s) /\ Told(t) = Told(s)
  BY <1>1 DEF Room, Told
<1>3. /\ IsTerminal(t) = IsTerminal(s) /\ Still(t) = Still(s) /\ Paused(t) = Paused(s)
      /\ Answerable(t) = Answerable(s)
  BY <1>1 DEF IsTerminal, Still, Paused, Answerable, Playing
<1>4. Leased(t, amiss)
  BY <1>1, <1>3 DEF Fits, Leased
<1>5. TimersFit(t, due) /\ Waits(t)
  BY <1>1 DEF Fits, TimersFit, Waits
<1>6. Learned(t)
  BY <1>1, <1>2 DEF Fits, Learned
<1>7. AboutNext(t)
  BY <1>1, <1>2, <1>3 DEF Fits, AboutNext
<1>8. FullLength(t) /\ TimedRight(t)
  BY <1>1 DEF Fits, FullLength, TimedRight
<1>9. Confirmed(t)
  BY <1>1, <1>3 DEF Fits, Confirmed
<1>10. HeardRight(t, amiss)
  <2>. SUFFICES ASSUME ~IsTerminal(t), NEW g \in Groups, ~t.groups[g].done
                PROVE  HeardSo(t, g, amiss)
    BY DEF HeardRight
  <2>1. HeardSo(s, g, amiss)
    BY <1>1, <1>3 DEF Fits, HeardRight
  <2>2. /\ PlayingGroup(t, g) = PlayingGroup(s, g) /\ Sounds(t, g) = Sounds(s, g)
        /\ SoundsWhole(t, g) = SoundsWhole(s, g)
    BY <1>1 DEF PlayingGroup, Sounds, SoundsWhole
  <2>. QED BY <1>1, <2>1, <2>2 DEF HeardSo
<1>11. amiss # "restart" => OutRight(t)
  BY <1>1 DEF Fits, OutRight
<1>. QED BY <1>2, <1>4, <1>5, <1>6, <1>7, <1>8, <1>9, <1>10, <1>11 DEF Fits

\* What is due may be more than is waited for.
LEMMA MoreDue ==
  ASSUME NEW s, NEW due, NEW amiss, NEW more, Fits(s, due, amiss), due \subseteq more
  PROVE  Fits(s, more, amiss)
<1>1. TimersFit(s, more)
  BY DEF Fits, TimersFit
<1>. QED BY <1>1 DEF Fits

\* A session that does not play is none the worse for a send gone.
LEMMA AtRestAnyhow ==
  ASSUME NEW s, NEW due, NEW amiss, Fits(s, due, "no"), s.phase # "playing"
  PROVE  Fits(s, due, amiss)
<1>1. Leased(s, amiss) /\ OutRight(s)
  BY DEF Fits, Leased
<1>2. HeardRight(s, amiss)
  <2>. SUFFICES ASSUME ~IsTerminal(s), NEW g \in Groups, ~s.groups[g].done
                PROVE  HeardSo(s, g, amiss)
    BY DEF HeardRight
  <2>1. HeardSo(s, g, "no") /\ ~PlayingGroup(s, g)
    BY DEF Fits, HeardRight, PlayingGroup
  <2>. QED BY <2>1 DEF HeardSo
<1>. QED BY <1>1, <1>2 DEF Fits

-----------------------------------------------------------------------------
(***************************************************************************)
(* The end of a send.                                                      *)
(***************************************************************************)
\* The group, heard once more, or to be sent again.
EndOf(s, g, grp, left) ==
  [s EXCEPT !.groups = [s.groups EXCEPT ![g] = grp], !.missed = FALSE, !.known = FALSE,
            !.repeatsLeft = left]

HeardOf(s, g, grp) ==
  /\ Fits(s, {}, "ended") /\ PlayingGroup(s, g) /\ MarkFits(s, g, grp)
  /\ grp.sending = "none"
  /\ grp.heard <= grp.all /\ grp.counted <= grp.all /\ grp.clean <= grp.heard

LEMMA EndIsReady ==
  ASSUME NEW s, NEW g, NEW grp, HeardOf(s, g, grp), NEW left \in Nat,
         NEW t, t = EndOf(s, g, grp, left)
  PROVE  /\ Ready(t, g) /\ AtNext(t, g) /\ t.timers = s.timers /\ Box(t) = Box(s)
         /\ t.groups[g].plays = grp.plays
<1>1. /\ Fits(s, {}, "ended") /\ PlayingGroup(s, g) /\ MarkFits(s, g, grp)
      /\ grp.sending = "none" /\ grp \in GroupOf
      /\ grp.heard <= grp.all /\ grp.counted <= grp.all /\ grp.clean <= grp.heard
  BY DEF HeardOf, MarkFits
<1>2. PICK missed \in BOOLEAN, known \in BOOLEAN : missed = FALSE /\ known = FALSE
  OBVIOUS
<1>3. PICK u : u = Marked(s, g, grp, missed, known)
  OBVIOUS
<1>4. /\ Regrouped(s, u) /\ u.sends = s.sends /\ Box(u) = Box(s)
      /\ u.groups[g] = grp /\ u.missed = missed /\ u.known = known
  BY <1>1, <1>2, <1>3, MarkedDoes
<1>5. /\ s.phase = "playing" /\ s.about = g /\ g = Told(s) /\ s.sends = {} /\ ~IsTerminal(s)
      /\ g \in Groups
  BY <1>1 DEF PlayingGroup, Fits, Leased, AboutNext, Answerable, Playing, IsTerminal, MarkFits
<1>6. u.phase = "playing" /\ u.about = g /\ u.timers = s.timers /\ u.sends = {}
  BY <1>4, <1>5 DEF Regrouped, Stage
<1>7. HeardSo(u, g, "failed")
  <2>1. One(Sounds(u, g)) = 0 /\ One(SoundsWhole(u, g)) = 0 /\ One("none" = "sounded") = 0
    BY <1>6 DEF Sounds, SoundsWhole, One
  <2>2. grp.all + 0 = grp.all /\ grp.heard + 0 = grp.heard /\ grp.clean + 0 = grp.clean
    BY <1>1 DEF GroupOf
  <2>. QED BY <1>1, <1>2, <1>4, <2>1, <2>2 DEF HeardSo
<1>8. OutRight(u)
  BY <1>6 DEF OutRight
<1>9. Fits(u, {}, "failed")
  BY <1>1, <1>4, <1>5, <1>6, <1>7, <1>8, RegroupedFits
<1>10. u \in Session
  BY <1>9 DEF Fits
<1>11. t = [u EXCEPT !.repeatsLeft = left]
  BY <1>2, <1>3 DEF EndOf, Marked
<1>12. t \in Session
  BY <1>10, <1>11 DEF Session
<1>13. View(t) = View(u) /\ Box(t) = Box(u)
  BY <1>10, <1>11 DEF Session, View, Box
<1>14. Fits(t, {}, "failed") /\ Told(t) = Told(u)
  BY <1>9, <1>12, <1>13, FitsAsSeen
<1>15. /\ t.phase = "playing" /\ t.about = g /\ t.timers = s.timers /\ t.sends = {}
       /\ t.groups[g] = grp
  BY <1>4, <1>6, <1>13 DEF View
<1>16. t.current = g /\ g = Told(t)
  BY <1>14, <1>15 DEF Fits, AboutNext, Answerable, Playing
<1>17. /\ ~IsTerminal(t) /\ ~Still(t) /\ ~Paused(t) /\ Answerable(t)
  BY <1>15 DEF IsTerminal, Still, Paused, Answerable, Playing
<1>18. /\ t.over = "no" /\ t.held /\ t.resume.kind = "none"
       /\ \A h \in t.stopped : t.groups[h].done
  BY <1>14, <1>17 DEF Fits, Leased
<1>19. ASSUME NEW h \in Groups, ~t.groups[h].done
       PROVE  /\ t.groups[h].heard <= t.groups[h].all
              /\ t.groups[h].counted <= t.groups[h].all
              /\ t.groups[h].clean <= t.groups[h].heard
              /\ t.groups[h].sending = "none"
  <2>1. CASE h = g
    BY <1>1, <1>15, <2>1
  <2>2. CASE h # g
    <3>1. HeardSo(t, h, "failed") /\ ~PlayingGroup(t, h)
      BY <1>14, <1>15, <1>17, <1>19, <2>2 DEF Fits, HeardRight, PlayingGroup
    <3>2. One(Sounds(t, h)) = 0 /\ One(SoundsWhole(t, h)) = 0 /\ One("none" = "sounded") = 0
      BY <1>15 DEF Sounds, SoundsWhole, One
    <3>3. /\ t.groups[h].heard \in Nat /\ t.groups[h].all \in Nat
          /\ t.groups[h].clean \in Nat /\ t.groups[h].counted \in Nat
      BY <1>12, GroupNumbers
    <3>. QED BY <3>1, <3>2, <3>3 DEF HeardSo
  <2>. QED BY <2>1, <2>2
<1>20. Primed(t, g)
  BY <1>5, <1>12, <1>14, <1>15, <1>16, <1>18, <1>19 DEF Primed, Fits
<1>21. /\ t.auto # NoAuto <=> t.groups[g].complete
       /\ t.auto # NoAuto => /\ t.auto.of = g /\ t.auto.value = t.groups[g].input
                             /\ ~t.settings.lock
       /\ t.groups[t.current].input # "none" => t.begun
  BY <1>14, <1>15, <1>17 DEF Fits, Confirmed
<1>22. TimersFit(t, {})
  BY <1>14 DEF Fits
<1>. QED BY <1>4, <1>13, <1>15, <1>16, <1>20, <1>21, <1>22 DEF Ready, AtNext

\* Once more, or waiting for its answer.
HasEnded(s, g) ==
  Fits(s, {}, "ended") /\ g \in Groups /\ (s.phase = "playing" => s.about = g)

LEMMA EndedFits ==
  ASSUME NEW s, NEW g, HasEnded(s, g), Cardinality(s.timers) <= MaxTimers + 2,
         NEW t, t = PlaybackEnded(s, g)
  PROVE  Fits(t, {}, "no") /\ Room(t) <= Cardinality(s.timers) + 1 /\ Box(t) = Box(s)
<1>. Fits(s, {}, "ended") /\ g \in Groups /\ (s.phase = "playing" => s.about = g)
  BY DEF HasEnded
<1>0. s \in Session
  BY DEF Fits
<1>1. CASE ~PlayingGroup(s, g)
  <2>1. t = s
    BY <1>1 DEF PlaybackEnded
  <2>2. s.phase # "playing"
    BY <1>1 DEF PlayingGroup
  <2>3. Fits(s, {}, "no")
    BY <2>2, AtRest
  <2>4. s.sends = {}
    BY <2>2, SendsAreOfNext
  <2>5. Room(s) = Cardinality(s.timers) /\ Cardinality(s.timers) \in Nat
    BY <1>0, <2>4, TimersAreFinite DEF Room
  <2>. QED BY <2>1, <2>3, <2>5
<1>2. CASE PlayingGroup(s, g)
  <2>1. /\ s.phase = "playing" /\ s.about = g /\ g = Told(s) /\ s.sends = {} /\ ~IsTerminal(s)
        /\ ~(g > Told(s))
    BY <1>2, SendsAreOfNext
       DEF PlayingGroup, Fits, Leased, AboutNext, Answerable, Playing, IsTerminal
  <2>2. PICK old : old = s.groups[g]
    OBVIOUS
  <2>3. HeardSo(s, g, "ended")
    BY <2>1, NextHeard
  <2>4. /\ s.groups \in [Groups -> GroupOf] /\ old \in GroupOf
        /\ old.heard \in Nat /\ old.all \in Nat /\ old.clean \in Nat /\ old.counted \in Nat
        /\ old.plays \in Nat /\ old.again \in Nat
    BY <1>0, <2>2, GroupTypes DEF GroupOf
  <2>5. /\ old.heard < old.all /\ old.counted <= old.all
        /\ old.clean <= old.heard + One(old.sending = "sounded")
        /\ s.missed => old.sending = "none"
    <3>1. One(Sounds(s, g)) = 0 /\ One(SoundsWhole(s, g)) = 0
      BY <2>1 DEF Sounds, SoundsWhole, One
    <3>. QED BY <1>2, <2>2, <2>3, <2>4, <3>1 DEF HeardSo
  <2>6. s.repeatsLeft \in Nat
    BY <1>0 DEF Session
  <2>7. CASE s.missed /\ ~(s.auto # NoAuto /\ s.auto.of = g) /\ s.groups[g].again < MAX_SENT_AGAIN
    <3>1. PICK again \in Nat : again = old.again + 1
      BY <2>4
    <3>2. PICK grp : grp = [old EXCEPT !.again = again]
      OBVIOUS
    <3>3. /\ grp \in GroupOf /\ Entered(grp) = Entered(old) /\ Played(grp) = Played(old)
          /\ Keyed(grp) = Keyed(old)
      BY <2>4, <3>2 DEF GroupOf, Entered, Played, Keyed
    <3>4. KeyedOn(grp, old)
      BY <3>3 DEF Keyed, KeyedOn
    <3>5. MarkFits(s, g, grp)
      BY <2>1, <2>2, <3>3, <3>4 DEF MarkFits
    <3>6. /\ grp.sending = "none" /\ grp.heard = old.heard /\ grp.all = old.all
          /\ grp.clean = old.clean /\ grp.counted = old.counted
      BY <2>5, <2>7, <3>3 DEF Played, Entered
    <3>7. old.clean <= old.heard
      BY <2>4, <2>5, <2>7 DEF One
    <3>8. HeardOf(s, g, grp)
      BY <1>2, <2>4, <2>5, <3>5, <3>6, <3>7 DEF HeardOf
    <3>9. PICK left \in Nat : left = s.repeatsLeft
      BY <2>6
    <3>10. PICK u : u = EndOf(s, g, grp, left)
      OBVIOUS
    <3>11. Ready(u, g) /\ AtNext(u, g) /\ u.timers = s.timers /\ Box(u) = Box(s)
      BY <3>8, <3>10, EndIsReady
    <3>12. t = SendAgain([s EXCEPT !.known = FALSE, !.missed = FALSE], g)
      BY <1>2, <2>7 DEF PlaybackEnded
    <3>13. PICK kind \in {"gap", "again"} :
             t = OnceMore(u, g, kind)
      <4>1. PICK v : v = [s EXCEPT !.known = FALSE, !.missed = FALSE]
        OBVIOUS
      <4>2. u = [v EXCEPT !.groups[g].again = @ + 1]
        BY <1>0, <2>2, <2>4, <3>1, <3>2, <3>9, <3>10, <4>1 DEF EndOf, Session
      <4>3. \/ t = Repeat(u, g)
            \/ t = StartPhaseTimer([u EXCEPT !.phase = "repeatGap", !.about = g], "again")
        BY <3>12, <4>1, <4>2 DEF SendAgain
      <4>. QED BY <4>3 DEF Repeat, OnceMore
    <3>14. Fits(t, {}, "no") /\ Room(t) = Cardinality(u.timers) + 1 /\ Box(t) = Box(u)
      BY <3>11, <3>13, RepeatFits
    <3>15. Cardinality(s.timers) \in Nat
      BY <1>0, TimersAreFinite
    <3>. QED BY <3>11, <3>14, <3>15
  <2>8. CASE ~(s.missed /\ ~(s.auto # NoAuto /\ s.auto.of = g)
                 /\ s.groups[g].again < MAX_SENT_AGAIN)
    <3>1. PICK plays \in Nat, heard \in Nat : plays = old.plays + 1 /\ heard = old.heard + 1
      BY <2>4
    <3>2. PICK grp : grp = [old EXCEPT !.plays = plays, !.heard = heard, !.sending = "none"]
      OBVIOUS
    <3>3. /\ grp \in GroupOf /\ Entered(grp) = Entered(old) /\ Keyed(grp) = Keyed(old)
          /\ grp.sending = "none" /\ grp.heard = heard /\ grp.all = old.all
          /\ grp.clean = old.clean
      BY <2>4, <3>2 DEF GroupOf, Entered, Keyed
    <3>4. KeyedOn(grp, old)
      BY <3>3 DEF Keyed, KeyedOn
    <3>5. MarkFits(s, g, grp)
      BY <2>1, <2>2, <3>3, <3>4 DEF MarkFits
    <3>6. grp.counted = old.counted
      BY <3>3 DEF Entered
    <3>7. heard <= old.all /\ old.clean <= heard
      BY <2>4, <2>5, <3>1, Ones
    <3>8. HeardOf(s, g, grp)
      BY <1>2, <2>5, <3>3, <3>5, <3>6, <3>7 DEF HeardOf
    <3>9. PICK h : h = [s EXCEPT !.known = FALSE, !.missed = FALSE,
                                 !.groups = [s.groups EXCEPT ![g] = grp]]
      OBVIOUS
    <3>10. PICK v : v = [s EXCEPT !.known = FALSE, !.missed = FALSE]
      OBVIOUS
    <3>11. h = [v EXCEPT !.groups[g] = NotePlayFinished(@)]
      <4>1. v.groups = s.groups
        BY <1>0, <3>10 DEF Session
      <4>2. grp = NotePlayFinished(old)
        BY <3>1, <3>2 DEF NotePlayFinished
      <4>3. h = [v EXCEPT !.groups = [s.groups EXCEPT ![g] = grp]]
        BY <1>0, <3>9, <3>10 DEF Session
      <4>. QED BY <2>2, <4>1, <4>2, <4>3
    <3>12. h.repeatsLeft = s.repeatsLeft
      BY <1>0, <3>9 DEF Session
    <3>13. t = IF s.repeatsLeft > 1 THEN Repeat([h EXCEPT !.repeatsLeft = @ - 1], g)
               ELSE AwaitAnswer(h, g)
      BY <1>2, <2>8, <3>10, <3>11 DEF PlaybackEnded
    <3>14. Cardinality(s.timers) \in Nat
      BY <1>0, TimersAreFinite
    <3>15. CASE s.repeatsLeft > 1
      <4>1. PICK left \in Nat : left = s.repeatsLeft - 1
        BY <2>6, <3>15
      <4>2. PICK u : u = EndOf(s, g, grp, left)
        OBVIOUS
      <4>3. Ready(u, g) /\ AtNext(u, g) /\ u.timers = s.timers /\ Box(u) = Box(s)
        BY <3>8, <4>2, EndIsReady
      <4>4. u = [h EXCEPT !.repeatsLeft = @ - 1]
        BY <1>0, <3>9, <3>12, <4>1, <4>2 DEF EndOf, Session
      <4>5. PICK kind \in {"gap", "again"} : kind = "gap"
        OBVIOUS
      <4>6. t = OnceMore(u, g, kind)
        BY <3>13, <3>15, <4>4, <4>5 DEF Repeat, OnceMore
      <4>7. Fits(t, {}, "no") /\ Room(t) = Cardinality(u.timers) + 1 /\ Box(t) = Box(u)
        BY <4>3, <4>6, RepeatFits
      <4>. QED BY <3>14, <4>3, <4>7
    <3>16. CASE ~(s.repeatsLeft > 1)
      <4>1. PICK left \in Nat : left = s.repeatsLeft
        BY <2>6
      <4>2. PICK u : u = EndOf(s, g, grp, left)
        OBVIOUS
      <4>3. Ready(u, g) /\ AtNext(u, g) /\ u.timers = s.timers /\ Box(u) = Box(s)
        BY <3>8, <4>2, EndIsReady
      <4>4. u = h
        BY <1>0, <3>9, <4>1, <4>2 DEF EndOf, Session
      <4>5. t = AwaitAnswer(u, g)
        BY <3>13, <3>16, <4>4
      <4>6. Fits(t, {}, "no") /\ Room(t) <= Cardinality(u.timers) + 1 /\ Box(t) = Box(u)
        BY <4>3, <4>5, AwaitFits
      <4>. QED BY <4>3, <4>6
    <3>. QED BY <3>15, <3>16
  <2>. QED BY <2>7, <2>8
<1>. QED BY <1>1, <1>2

-----------------------------------------------------------------------------
(***************************************************************************)
(* The timers.                                                             *)
(***************************************************************************)
Taken(s) == [s EXCEPT !.phaseTimer = NoPhaseTimer]

\* The timer that ran out is its phase's.
Rings(s, id) ==
  /\ Fits(s, {id}, "no") /\ Room(s) <= MaxTimers + 1
  /\ s.phaseTimer # NoPhaseTimer /\ s.phaseTimer.id = id
  /\ ~(s.auto # NoAuto /\ s.auto.id = id)

LEMMA TakenDoes ==
  ASSUME NEW s, NEW id, Rings(s, id), NEW t, t = Taken(s)
  PROVE  /\ s \in Session /\ t \in Session /\ t.phaseTimer = NoPhaseTimer /\ t.auto = s.auto
         /\ Place(t) = Place(s) /\ Rest(t) = Rest(s) /\ Box(t) = Box(s)
         /\ t.timers = s.timers /\ t.remaining = s.remaining
         /\ TimersFit(t, {}) /\ Cardinality(t.timers) <= MaxTimers + 1
         /\ Cardinality(t.timers) \in Nat
         /\ Learned(t) /\ FullLength(t) /\ TimedRight(t) /\ Leased(t, "no") /\ AboutNext(t)
         /\ Confirmed(t) /\ HeardRight(t, "no") /\ OutRight(t)
<1>1. /\ s \in Session /\ Fits(s, {id}, "no") /\ ~(s.auto # NoAuto /\ s.auto.id = id)
      /\ Room(s) <= MaxTimers + 1
  BY DEF Rings, Fits
<1>2. NoPhaseTimer \in PhaseTimer
  BY DEF NoPhaseTimer, PhaseTimer
<1>3. t \in Session
  BY <1>1, <1>2 DEF Taken, Session
<1>4. /\ t.phaseTimer = NoPhaseTimer /\ t.auto = s.auto
      /\ Place(t) = Place(s) /\ Rest(t) = Rest(s) /\ Box(t) = Box(s)
      /\ t.timers = s.timers /\ t.remaining = s.remaining
  BY <1>1 DEF Taken, Session, Place, Rest, Box
<1>5. TimersFit(t, {})
  BY <1>1, <1>4 DEF Fits, TimersFit
<1>6. /\ t.settings = s.settings /\ t.phase = s.phase /\ t.about = s.about
      /\ t.current = s.current /\ t.groups = s.groups /\ t.begun = s.begun
      /\ t.countdownTo = s.countdownTo /\ t.resume = s.resume
      /\ t.missed = s.missed /\ t.known = s.known
      /\ t.learned = s.learned /\ t.sends = s.sends
      /\ t.stopped = s.stopped /\ t.held = s.held /\ t.over = s.over
  BY <1>4 DEF Place, Rest
<1>7. /\ IsTerminal(t) = IsTerminal(s) /\ Still(t) = Still(s) /\ Paused(t) = Paused(s)
      /\ Answerable(t) = Answerable(s) /\ Told(t) = Told(s)
  BY <1>6 DEF IsTerminal, Still, Paused, Answerable, Playing, Told
<1>8. Cardinality(t.timers) <= MaxTimers + 1 /\ Cardinality(t.timers) \in Nat
  BY <1>1, <1>4, TimersAreFinite, MaxTimersAssumption DEF Room
<1>9. Learned(t) /\ AboutNext(t)
  BY <1>1, <1>6, <1>7 DEF Fits, Learned, AboutNext
<1>10. FullLength(t) /\ TimedRight(t) /\ OutRight(t)
  BY <1>1, <1>6 DEF Fits, FullLength, TimedRight, OutRight
<1>11. Leased(t, "no")
  BY <1>1, <1>4, <1>6, <1>7 DEF Fits, Leased
<1>12. Confirmed(t)
  BY <1>1, <1>4, <1>6, <1>7 DEF Fits, Confirmed
<1>13. HeardRight(t, "no")
  <2>. SUFFICES ASSUME ~IsTerminal(t), NEW g \in Groups, ~t.groups[g].done
                PROVE  HeardSo(t, g, "no")
    BY DEF HeardRight
  <2>1. HeardSo(s, g, "no")
    BY <1>1, <1>6, <1>7 DEF Fits, HeardRight
  <2>2. /\ PlayingGroup(t, g) = PlayingGroup(s, g) /\ Sounds(t, g) = Sounds(s, g)
        /\ SoundsWhole(t, g) = SoundsWhole(s, g)
    BY <1>6 DEF PlayingGroup, Sounds, SoundsWhole
  <2>. QED BY <1>6, <2>1, <2>2 DEF HeardSo
<1>. QED BY <1>1, <1>3, <1>4, <1>5, <1>8, <1>9, <1>10, <1>11, <1>12, <1>13

\* Between two sends, the next can go out.
LEMMA TakenReady ==
  ASSUME NEW s, NEW id, Rings(s, id), NEW t, t = Taken(s),
         s.phase \in {"countdown", "interGroupGap", "repeatGap"},
         NEW g, g = Told(s)
  PROVE  /\ Ready(t, g)
         /\ s.phase = "countdown" => s.countdownTo = g /\ ~s.groups[g].complete
         /\ s.phase = "interGroupGap" => s.about = g
         /\ s.phase = "repeatGap" => s.about = g /\ AtNext(t, g)
<1>1. /\ s \in Session /\ t \in Session /\ t.phaseTimer = NoPhaseTimer /\ t.auto = s.auto
      /\ Place(t) = Place(s) /\ Rest(t) = Rest(s) /\ t.timers = s.timers
      /\ TimersFit(t, {})
      /\ Learned(t) /\ FullLength(t) /\ TimedRight(t) /\ Leased(t, "no") /\ AboutNext(t)
      /\ Confirmed(t) /\ HeardRight(t, "no") /\ OutRight(t)
  BY TakenDoes
<1>2. /\ t.phase = s.phase /\ t.about = s.about /\ t.countdownTo = s.countdownTo
      /\ t.learned = s.learned /\ t.groups = s.groups
  BY <1>1 DEF Place, Rest
<1>3. Told(t) = g
  BY <1>2 DEF Told
<1>4. /\ s.phase = "countdown" => t.countdownTo = g
      /\ s.phase = "interGroupGap" => t.about = g
      /\ s.phase = "repeatGap" => t.about = g /\ t.current = g
  BY <1>1, <1>2, <1>3 DEF AboutNext, Answerable, Playing
<1>5. g \in Groups
  BY <1>1, <1>2, <1>4 DEF Session
<1>6. ~IsTerminal(t) /\ ~Still(t) /\ ~Paused(t)
  BY <1>2 DEF IsTerminal, Still, Paused
<1>7. /\ t.over = "no" /\ t.held /\ t.resume.kind = "none"
      /\ \A h \in t.stopped : t.groups[h].done
      /\ t.sends = {}
  BY <1>1, <1>2, <1>6 DEF Leased
<1>8. ASSUME NEW h \in Groups, ~t.groups[h].done
      PROVE  /\ t.groups[h].heard <= t.groups[h].all
             /\ t.groups[h].counted <= t.groups[h].all
             /\ t.groups[h].clean <= t.groups[h].heard
             /\ t.groups[h].sending = "none"
  <2>1. HeardSo(t, h, "no")
    BY <1>1, <1>6, <1>8 DEF HeardRight
  <2>2. ~PlayingGroup(t, h)
    BY <1>2 DEF PlayingGroup
  <2>3. One(Sounds(t, h)) = 0
    BY <1>7 DEF Sounds, One
  <2>4. t.groups[h].all \in Nat /\ t.groups[h].counted \in Nat
    BY <1>1, GroupNumbers
  <2>. QED BY <2>1, <2>2, <2>3, <2>4 DEF HeardSo
<1>9. Primed(t, g)
  BY <1>1, <1>3, <1>5, <1>7, <1>8 DEF Primed
<1>10. /\ t.auto # NoAuto <=> t.groups[g].complete
       /\ t.auto # NoAuto => /\ t.auto.of = g /\ t.auto.value = t.groups[g].input
                             /\ ~t.settings.lock
       /\ s.phase = "repeatGap" => (t.groups[g].input # "none" => t.begun)
       /\ s.phase = "countdown" => ~t.groups[g].complete
  BY <1>1, <1>2, <1>4 DEF Confirmed, Answerable, Playing
<1>. QED BY <1>1, <1>2, <1>4, <1>9, <1>10 DEF Ready, AtNext

LEMMA GapFits ==
  ASSUME NEW s, NEW id, Rings(s, id), s.phase = "repeatGap",
         NEW t, t = Play([Taken(s) EXCEPT !.phase = "playing"], s.about)
  PROVE  Fits(t, {}, "no") /\ Room(t) <= MaxTimers + 2 /\ Box(t) = Box(s)
<1>1. PICK n : n = Taken(s)
  OBVIOUS
<1>2. PICK g : g = Told(s)
  OBVIOUS
<1>3. /\ n \in Session /\ Box(n) = Box(s) /\ Cardinality(n.timers) <= MaxTimers + 1
      /\ Cardinality(n.timers) \in Nat
  BY <1>1, TakenDoes
<1>4. Ready(n, g) /\ s.about = g /\ AtNext(n, g)
  BY <1>1, <1>2, TakenReady
<1>5. PICK u : u = [n EXCEPT !.phase = "playing"]
  OBVIOUS
<1>6. u \in Session
  BY <1>3, <1>5 DEF Session, Phases
<1>7. /\ Place(u) = Place(n) /\ Box(u) = Box(n) /\ u.groups = n.groups
      /\ u.over = n.over /\ u.held = n.held /\ u.timers = n.timers
      /\ u.phaseTimer = n.phaseTimer /\ u.auto = n.auto /\ u.stopped = n.stopped
      /\ u.sends = n.sends /\ u.phase = "playing"
  BY <1>3, <1>5 DEF Session, Place, Box
<1>8. g \in Groups /\ n.sends = {}
  BY <1>4 DEF Ready, Primed
<1>9. t = Play(u, g)
  BY <1>1, <1>4, <1>5
<1>10. /\ t \in Session /\ t.sends = u.sends \cup {NewSend(g)}
       /\ Place(t) = Place(u) /\ Box(t) = Box(u) /\ t.groups = u.groups
       /\ t.phase = u.phase /\ t.over = u.over /\ t.held = u.held
       /\ t.timers = u.timers /\ t.phaseTimer = u.phaseTimer
       /\ t.auto = u.auto /\ t.stopped = u.stopped
  BY <1>6, <1>8, <1>9, PlayDoes
<1>11. n.about = g /\ n.current = g
  <2>1. Place(n) = Place(s)
    BY <1>1, TakenDoes
  <2>. QED BY <1>4, <2>1 DEF Place, AtNext
<1>12. /\ t.about = g /\ t.current = g /\ t.begun = n.begun /\ t.learned = n.learned
       /\ t.resume = n.resume /\ t.settings = n.settings
  BY <1>7, <1>10, <1>11 DEF Place
<1>13. t.sends = {NewSend(g)}
  BY <1>7, <1>8, <1>10
<1>14. t.groups[g].input # "none" => t.begun
  BY <1>4, <1>7, <1>10, <1>12 DEF AtNext
<1>15. Fits(t, {}, "no") /\ Room(t) = Cardinality(n.timers) + 1
  BY <1>4, <1>7, <1>10, <1>12, <1>13, <1>14, PlayingFits
<1>. QED BY <1>3, <1>7, <1>10, <1>15, MaxTimersAssumption

\* Another second counted down.
LEMMA SecondFits ==
  ASSUME NEW s, NEW id, Rings(s, id), s.phase = "countdown", s.remaining > 1,
         NEW t, t = StartPhaseTimer([Taken(s) EXCEPT !.remaining = @ - 1], "countdown")
  PROVE  Fits(t, {}, "no") /\ Room(t) <= MaxTimers + 2 /\ Box(t) = Box(s)
<1>1. PICK n : n = Taken(s)
  OBVIOUS
<1>2. PICK g : g = Told(s)
  OBVIOUS
<1>3. /\ s \in Session
      /\ n \in Session /\ Box(n) = Box(s) /\ Cardinality(n.timers) <= MaxTimers + 1
      /\ Cardinality(n.timers) \in Nat /\ n.remaining = s.remaining
      /\ Rest(n) = Rest(s) /\ Place(n) = Place(s)
  BY <1>1, TakenDoes
<1>4. Ready(n, g) /\ s.countdownTo = g /\ ~s.groups[g].complete
  BY <1>1, <1>2, TakenReady
<1>5. PICK left \in Nat : left = n.remaining - 1
  <2>1. s.remaining \in Nat
    BY <1>3 DEF Session
  <2>. QED BY <1>3, <2>1
<1>6. PICK u : u = [n EXCEPT !.remaining = left]
  OBVIOUS
<1>7. u \in Session
  BY <1>3, <1>6 DEF Session
<1>8. /\ Place(u) = Place(n) /\ Box(u) = Box(n) /\ Rest(u) = Rest(n)
      /\ u.timers = n.timers /\ u.phaseTimer = n.phaseTimer /\ u.auto = n.auto
  BY <1>3, <1>6 DEF Session, Place, Box, Rest
<1>9. u.auto # NoAuto => u.auto.id \in u.timers
  BY <1>4, <1>8 DEF Ready, TimersFit
<1>10. PICK kind \in TimerKinds : kind = "countdown"
  BY DEF TimerKinds
<1>11. t = StartPhaseTimer(u, kind)
  BY <1>1, <1>5, <1>6, <1>10
<1>12. Cardinality(u.timers) <= MaxTimers + 2
  BY <1>3, <1>8, MaxTimersAssumption
<1>13. /\ t \in Session /\ t.phaseTimer.kind = kind /\ t.auto = u.auto
       /\ Place(t) = Place(u) /\ Box(t) = Box(u) /\ Rest(t) = Rest(u)
       /\ TimersFit(t, {}) /\ Cardinality(t.timers) = Cardinality(u.timers) + 1
  BY <1>7, <1>9, <1>11, <1>12, PhaseTimerDoes
<1>14. /\ t.groups = n.groups /\ t.learned = n.learned /\ t.current = n.current
       /\ t.resume = n.resume /\ t.settings = n.settings /\ t.over = n.over /\ t.held = n.held
       /\ t.sends = n.sends /\ t.stopped = n.stopped /\ t.begun = n.begun
       /\ t.phase = "countdown" /\ t.countdownTo = g /\ t.groups = s.groups
  BY <1>3, <1>4, <1>8, <1>13 DEF Place, Rest
<1>15. g = Told(t)
  BY <1>4, <1>14 DEF Ready, Primed, Told
<1>16. Waits(t) /\ AboutNext(t)
  BY <1>10, <1>13, <1>14, <1>15 DEF Waits, AboutNext, Answerable, Playing
<1>17. n.auto = NoAuto
  <2>1. n.groups[g].complete = s.groups[g].complete
    BY <1>14
  <2>. QED BY <1>4, <2>1 DEF Ready
<1>18. Confirmed(t)
  BY <1>4, <1>8, <1>13, <1>14, <1>17 DEF Confirmed, Answerable, Playing
<1>19. Fits(t, {}, "no") /\ Room(t) = Cardinality(t.timers)
  BY <1>4, <1>13, <1>14, <1>16, <1>18, WaitingFits
<1>. QED BY <1>3, <1>8, <1>13, <1>19, MaxTimersAssumption

\* Its time is up, and nobody began to answer.
LEMMA WindowFits ==
  ASSUME NEW s, NEW id, Rings(s, id), s.phase = "awaiting",
         NEW t, t = ConfirmCurrent(Taken(s))
  PROVE  Fits(t, {}, "no") /\ Room(t) <= MaxTimers + 2 /\ Box(t) = Box(s)
<1>1. PICK n : n = Taken(s)
  OBVIOUS
<1>2. /\ n \in Session /\ Box(n) = Box(s) /\ Rest(n) = Rest(s)
      /\ Cardinality(n.timers) <= MaxTimers + 1 /\ Cardinality(n.timers) \in Nat
      /\ Learned(n) /\ FullLength(n) /\ TimedRight(n) /\ Leased(n, "no") /\ AboutNext(n)
  BY <1>1, TakenDoes
<1>3. n.phase = "awaiting"
  BY <1>2 DEF Rest
<1>4. Answerable(n) /\ ~InputLocked(n, n.current)
  BY <1>3 DEF Answerable, InputLocked, Playing
<1>5. Cardinality(n.timers) <= MaxTimers + 2
  BY <1>2, MaxTimersAssumption
<1>6. t = ConfirmCurrent(n)
  BY <1>1
<1>7. Fits(t, {}, "no") /\ Room(t) <= Cardinality(n.timers) + 1 /\ Box(t) = Box(n)
  BY <1>2, <1>4, <1>5, <1>6, ConfirmCurrentFits
<1>8. Room(t) \in Nat
  <2>1. t \in Session
    BY <1>7 DEF Fits
  <2>. QED BY <2>1, TimersAreFinite DEF Room
<1>. QED BY <1>2, <1>7, <1>8, MaxTimersAssumption

\* One that ran out as nothing waited for it any more.
LEMMA SpentFits ==
  ASSUME NEW s, NEW id, Rings(s, id), s.phase \notin {"countdown", "interGroupGap", "repeatGap"},
         ~(s.phaseTimer.kind = "window" /\ s.phase = "awaiting" /\ ~s.begun),
         NEW t, t = Taken(s)
  PROVE  Fits(t, {}, "no") /\ Room(t) <= MaxTimers + 2 /\ Box(t) = Box(s)
<1>1. /\ s \in Session /\ t \in Session /\ Place(t) = Place(s) /\ Rest(t) = Rest(s)
      /\ Box(t) = Box(s) /\ t.timers = s.timers /\ Fits(s, {id}, "no")
      /\ TimersFit(t, {}) /\ Learned(t) /\ FullLength(t) /\ TimedRight(t) /\ Leased(t, "no")
      /\ AboutNext(t) /\ Confirmed(t) /\ HeardRight(t, "no") /\ OutRight(t)
  BY TakenDoes DEF Rings
<1>2. t.phase = s.phase /\ t.settings = s.settings /\ t.begun = s.begun /\ t.sends = s.sends
  BY <1>1 DEF Place, Rest
<1>3. ~(s.phase = "awaiting" /\ s.settings.window /\ ~s.begun)
  BY <1>1 DEF Fits, Waits
<1>4. Waits(t)
  BY <1>2, <1>3 DEF Waits
<1>5. Fits(t, {}, "no")
  BY <1>1, <1>4 DEF Fits
<1>6. Room(t) = Room(s) /\ Room(s) <= MaxTimers + 1 /\ Room(s) \in Nat
  BY <1>1, <1>2, TimersAreFinite DEF Room, Rings
<1>. QED BY <1>1, <1>5, <1>6, MaxTimersAssumption

LEMMA PhaseTimerFits ==
  ASSUME NEW s, NEW id, Rings(s, id), NEW t, t = PhaseTimerFired(s)
  PROVE  Fits(t, {}, "no") /\ Room(t) <= MaxTimers + 2 /\ Box(t) = Box(s)
<1>1. PICK n : n = Taken(s)
  OBVIOUS
<1>2. PICK g : g = Told(s)
  OBVIOUS
<1>3. /\ n \in Session /\ s \in Session /\ Box(n) = Box(s)
      /\ Cardinality(n.timers) <= MaxTimers + 1 /\ Cardinality(n.timers) \in Nat
  BY <1>1, TakenDoes
<1>4. /\ s.phase = "countdown" => s.phaseTimer.kind = "countdown"
      /\ s.phase = "interGroupGap" => s.phaseTimer.kind = "gap"
      /\ s.phase = "repeatGap" => s.phaseTimer.kind \in {"gap", "again"}
  BY DEF Rings, Fits, Waits
<1>5. ASSUME Ready(n, g), t = BeginGroup(n, g) PROVE Fits(t, {}, "no") /\ Room(t) <= MaxTimers + 2 /\ Box(t) = Box(s)
  <2>1. Fits(t, {}, "no") /\ Room(t) = Cardinality(n.timers) + 1 /\ Box(t) = Box(n)
    BY <1>5, BeginFits
  <2>. QED BY <1>3, <2>1, MaxTimersAssumption
<1>6. CASE s.phase = "interGroupGap"
  <2>1. Ready(n, g) /\ s.about = g
    BY <1>1, <1>2, <1>6, TakenReady
  <2>2. t = BeginGroup(n, g)
    BY <1>1, <1>4, <1>6, <2>1 DEF PhaseTimerFired, Taken
  <2>. QED BY <1>5, <2>1, <2>2
<1>7. CASE s.phase = "repeatGap" /\ s.phaseTimer.kind = "gap"
  <2>1. t = Play([Taken(s) EXCEPT !.phase = "playing"], s.about)
    BY <1>7 DEF PhaseTimerFired, Taken
  <2>. QED BY <1>7, <2>1, GapFits
<1>8. CASE s.phase = "repeatGap" /\ s.phaseTimer.kind = "again"
  <2>1. Ready(n, g) /\ s.about = g
    BY <1>1, <1>2, <1>8, TakenReady
  <2>2. t = BeginGroup(n, g)
    BY <1>1, <1>8, <2>1 DEF PhaseTimerFired, Taken
  <2>. QED BY <1>5, <2>1, <2>2
<1>9. CASE s.phase = "countdown" /\ s.remaining > 1
  <2>1. t = StartPhaseTimer([Taken(s) EXCEPT !.remaining = @ - 1], "countdown")
    BY <1>3, <1>4, <1>9 DEF PhaseTimerFired, Taken, Session
  <2>. QED BY <1>9, <2>1, SecondFits
<1>10. CASE s.phase = "countdown" /\ ~(s.remaining > 1)
  <2>1. Ready(n, g) /\ s.countdownTo = g
    BY <1>1, <1>2, <1>10, TakenReady
  <2>2. s.remaining <= 1
    BY <1>3, <1>10 DEF Session
  <2>3. t = BeginGroup(n, g)
    BY <1>1, <1>4, <1>10, <2>1, <2>2 DEF PhaseTimerFired, Taken
  <2>. QED BY <1>5, <2>1, <2>3
<1>11. CASE s.phaseTimer.kind = "window" /\ s.phase = "awaiting" /\ ~s.begun
  <2>1. t = ConfirmCurrent(Taken(s))
    BY <1>11 DEF PhaseTimerFired, Taken
  <2>. QED BY <1>11, <2>1, WindowFits
<1>12. CASE /\ s.phase \notin {"countdown", "interGroupGap", "repeatGap"}
            /\ ~(s.phaseTimer.kind = "window" /\ s.phase = "awaiting" /\ ~s.begun)
  <2>1. t = Taken(s)
    BY <1>12 DEF PhaseTimerFired, Taken
  <2>. QED BY <1>12, <2>1, SpentFits
<1>. QED BY <1>4, <1>6, <1>7, <1>8, <1>9, <1>10, <1>11, <1>12

LEMMA AutoFits ==
  ASSUME NEW s, NEW id, Fits(s, {id}, "no"), Room(s) <= MaxTimers + 1,
         s.auto # NoAuto, s.auto.id = id, NEW t, t = AutoFired(s)
  PROVE  Fits(t, {}, "no") /\ Room(t) <= MaxTimers + 2 /\ Box(t) = Box(s)
<1>1. PICK n : n = [s EXCEPT !.auto = NoAuto]
  OBVIOUS
<1>2. s \in Session /\ NoAuto \in AutoTimer
  BY DEF Fits, NoAuto, AutoTimer
<1>3. n \in Session
  BY <1>1, <1>2 DEF Session
<1>4. /\ Place(n) = Place(s) /\ Rest(n) = Rest(s) /\ Box(n) = Box(s)
      /\ n.timers = s.timers
  BY <1>1, <1>2 DEF Session, Place, Rest, Box
<1>5. /\ Answerable(s) /\ s.auto.of = s.about /\ s.auto.value = s.groups[s.about].input
      /\ s.current = s.about
      /\ s.settings.lock => s.phase = "awaiting"
  BY DEF Fits, Confirmed, AboutNext
<1>6. t = ConfirmCurrent(n)
  BY <1>1, <1>5 DEF AutoFired
<1>7. /\ n.settings = s.settings /\ n.phase = s.phase /\ n.about = s.about
      /\ n.current = s.current /\ n.groups = s.groups /\ n.begun = s.begun
      /\ n.countdownTo = s.countdownTo /\ n.resume = s.resume
      /\ n.learned = s.learned /\ n.sends = s.sends
      /\ n.stopped = s.stopped /\ n.held = s.held /\ n.over = s.over
  BY <1>4 DEF Place, Rest
<1>8. /\ IsTerminal(n) = IsTerminal(s) /\ Still(n) = Still(s) /\ Paused(n) = Paused(s)
      /\ Answerable(n) = Answerable(s) /\ Told(n) = Told(s)
  BY <1>7 DEF IsTerminal, Still, Paused, Answerable, Playing, Told
<1>9. ~InputLocked(n, n.current)
  BY <1>5, <1>7 DEF InputLocked, Answerable, Playing
<1>10. Leased(n, "no")
  BY <1>4, <1>7, <1>8 DEF Fits, Leased
<1>11. Learned(n) /\ AboutNext(n)
  BY <1>7, <1>8 DEF Fits, Learned, AboutNext
<1>12. FullLength(n) /\ TimedRight(n)
  BY <1>7 DEF Fits, FullLength, TimedRight
<1>13. Cardinality(n.timers) <= MaxTimers + 1 /\ Cardinality(n.timers) \in Nat
  BY <1>2, <1>4, TimersAreFinite, MaxTimersAssumption DEF Room
<1>14. Cardinality(n.timers) <= MaxTimers + 2
  BY <1>13, MaxTimersAssumption
<1>15. Fits(t, {}, "no") /\ Room(t) <= Cardinality(n.timers) + 1 /\ Box(t) = Box(n)
  BY <1>3, <1>5, <1>6, <1>8, <1>9, <1>10, <1>11, <1>12, <1>14, ConfirmCurrentFits
<1>16. Room(t) \in Nat
  <2>1. t \in Session
    BY <1>15 DEF Fits
  <2>. QED BY <2>1, TimersAreFinite DEF Room
<1>. QED BY <1>4, <1>13, <1>15, <1>16, MaxTimersAssumption

\* A timer that ran out, whichever.
LEMMA TimerFits ==
  ASSUME NEW s, NEW id, Fits(s, {id}, "no"), Room(s) <= MaxTimers + 1,
         NEW t, t = TimerFired(s, id)
  PROVE  Fits(t, {}, "no") /\ Room(t) <= MaxTimers + 2 /\ Box(t) = Box(s)
<1>1. CASE s.auto # NoAuto /\ s.auto.id = id
  <2>1. t = AutoFired(s)
    BY <1>1 DEF TimerFired
  <2>. QED BY <1>1, <2>1, AutoFits
<1>2. CASE ~(s.auto # NoAuto /\ s.auto.id = id) /\ s.phaseTimer # NoPhaseTimer
             /\ s.phaseTimer.id = id
  <2>1. t = PhaseTimerFired(s)
    BY <1>2 DEF TimerFired
  <2>2. Rings(s, id)
    BY <1>2 DEF Rings
  <2>. QED BY <2>1, <2>2, PhaseTimerFits
<1>3. CASE ~(s.auto # NoAuto /\ s.auto.id = id)
             /\ ~(s.phaseTimer # NoPhaseTimer /\ s.phaseTimer.id = id)
  <2>1. t = s
    BY <1>3 DEF TimerFired
  <2>2. TimersFit(s, {})
    BY <1>3 DEF Fits, TimersFit
  <2>3. Fits(s, {}, "no")
    BY <2>2 DEF Fits
  <2>4. Room(s) \in Nat
    BY TimersAreFinite DEF Room, Fits
  <2>. QED BY <2>1, <2>3, <2>4, MaxTimersAssumption
<1>. QED BY <1>1, <1>2, <1>3

-----------------------------------------------------------------------------
(***************************************************************************)
(* dispatch: what waits in the box.                                        *)
(***************************************************************************)
LEMMA InputLeaves ==
  ASSUME NEW s \in Session, NEW a \in Answers, NEW t, t = Input(s, a)
  PROVE  /\ t.known = s.known /\ t.stopped = s.stopped
         /\ a \notin Whole => t.timers = s.timers
<1>1. PICK groups : groups = [s.groups EXCEPT ![s.about] = SetInput(s.groups[s.about], a)]
  OBVIOUS
<1>2. PICK n : n = [s EXCEPT !.groups = groups, !.begun = s.begun \/ a # "none"]
  OBVIOUS
<1>3. /\ n.known = s.known /\ n.stopped = s.stopped /\ n.timers = s.timers
  BY <1>2 DEF Session
<1>4. n = [s EXCEPT !.groups[s.about] = SetInput(@, a), !.begun = @ \/ a # "none"]
  BY <1>1, <1>2
<1>5. \/ t = s \/ t = n
      \/ t = [n EXCEPT !.auto = NoAuto]
      \/ a \in Whole /\ t = StartAuto(n, s.about, a)
  BY <1>4 DEF Input
<1>6. ASSUME t = [n EXCEPT !.auto = NoAuto]
      PROVE  t.known = n.known /\ t.stopped = n.stopped /\ t.timers = n.timers
  BY <1>2, <1>6 DEF Session
<1>7. ASSUME t = StartAuto(n, s.about, a)
      PROVE  t.known = n.known /\ t.stopped = n.stopped
  BY <1>2, <1>7 DEF StartAuto, Session
<1>. QED BY <1>3, <1>5, <1>6, <1>7

\* There is a timer to start for what waits.
Takes(s, due) ==
  s.waiting /\ s.text \in Whole => due = {} /\ Cardinality(s.timers) <= MaxTimers + 2

LEMMA TakeFits ==
  ASSUME NEW s, NEW due, NEW amiss, Fits(s, due, amiss), ~IsTerminal(s), Takes(s, due),
         NEW t, t = Take(s)
  PROVE  /\ Fits(t, due, amiss) /\ Scene(t) = Scene(s)
         /\ t.known = s.known /\ t.stopped = s.stopped
         /\ ~t.waiting /\ t.text = s.text /\ t.letter = s.letter /\ t.away = s.away
         /\ Cardinality(t.timers) <= Cardinality(s.timers) + 1
         /\ BoxFits(s) => t.timers = s.timers
<1>0. s \in Session
  BY DEF Fits
<1>1. CASE ~s.waiting
  <2>1. t = s
    BY <1>1 DEF Take
  <2>2. Cardinality(s.timers) \in Nat
    BY <1>0, TimersAreFinite
  <2>3. Cardinality(t.timers) <= Cardinality(s.timers) + 1
    BY <2>1, <2>2
  <2>. QED BY <1>1, <2>1, <2>3
<1>2. CASE s.waiting
  <2>1. PICK a \in Answers : a = s.text
    BY <1>0 DEF Session
  <2>2. PICK n : n = Input(s, a)
    OBVIOUS
  <2>3. a \in Whole => due = {} /\ Cardinality(s.timers) <= MaxTimers + 2
    BY <1>2, <2>1 DEF Takes
  <2>4. /\ Fits(n, due, amiss) /\ Scene(n) = Scene(s) /\ Box(n) = Box(s)
        /\ Cardinality(n.timers) <= Cardinality(s.timers) + One(a \in Whole)
    BY <2>2, <2>3, InputFits
  <2>5. /\ n.known = s.known /\ n.stopped = s.stopped
        /\ a \notin Whole => n.timers = s.timers
    BY <1>0, <2>2, InputLeaves
  <2>6. Apply(s, [kind |-> "input", text |-> s.text]) = n
    BY <2>1, <2>2 DEF Apply
  <2>7. t = [n EXCEPT !.waiting = FALSE]
    BY <1>2, <2>6 DEF Take
  <2>8. n \in Session
    BY <2>4 DEF Fits
  <2>9. t \in Session
    BY <2>7, <2>8 DEF Session
  <2>10. /\ View(t) = View(n) /\ ~t.waiting /\ t.text = n.text /\ t.letter = n.letter
         /\ t.away = n.away
    BY <2>7, <2>8 DEF Session, View
  <2>11. Fits(t, due, amiss)
    BY <2>4, <2>9, <2>10, FitsAsSeen
  <2>12. /\ Scene(t) = Scene(n) /\ t.known = n.known /\ t.stopped = n.stopped
         /\ t.timers = n.timers
    BY <2>10 DEF View, Scene
  <2>13. t.text = s.text /\ t.letter = s.letter /\ t.away = s.away
    BY <2>4, <2>10 DEF Box
  <2>14. Cardinality(t.timers) <= Cardinality(s.timers) + 1
    <3>1. Cardinality(s.timers) \in Nat /\ Cardinality(n.timers) \in Nat
      BY <1>0, <2>8, TimersAreFinite
    <3>. QED BY <2>4, <2>12, <3>1, Ones
  <2>15. BoxFits(s) => t.timers = s.timers
    BY <1>2, <2>1, <2>5, <2>12 DEF BoxFits
  <2>. QED BY <2>4, <2>5, <2>10, <2>11, <2>12, <2>13, <2>14, <2>15
<1>. QED BY <1>1, <1>2

-----------------------------------------------------------------------------
(***************************************************************************)
(* dispatch: the session as an event finds it.  It is amiss just so far as *)
(* the event tells it of.                                                  *)
(***************************************************************************)
Unsounded(s, g) == \A x \in s.sends : x.of = g /\ ~x.sounded /\ ~x.lost

HasStopped(s, g, amiss) ==
  \/ amiss = "failed" /\ (s.phase = "playing" => s.about = g)
  \/ amiss = "no" /\ ~PlayingGroup(s, g)

Finds(s, e, due, amiss) ==
  /\ Fits(s, due, amiss) /\ ~IsTerminal(s)
  /\ due = IF e.kind = "timer" THEN {e.id} ELSE {}
  /\ e.kind \in {"abort", "pause", "confirm", "finish", "input", "timer", "missed"} =>
       amiss = "no"
  /\ e.kind = "input" => e.text \in Answers
  /\ e.kind = "timer" => e.id \in TimerIds
  /\ IF e.kind = "resume" THEN amiss = "claimed" /\ Claimed(s) ELSE amiss # "claimed"
  /\ e.kind = "started" => amiss = "restart" /\ e.of \in Groups /\ Unsounded(s, e.of)
  /\ e.kind = "missed" => e.of \in Groups /\ e.lost \in BOOLEAN /\ MissOf(s, e.of, e.lost)
  /\ e.kind = "ended" => amiss = "ended" /\ HasEnded(s, e.of)
  /\ e.kind = "stopped" => HasStopped(s, e.of, amiss)
  /\ e.kind = "heldUp" => e.of \in Groups

LEMMA FindsStays ==
  ASSUME NEW s, NEW e, NEW due, NEW amiss, Finds(s, e, due, amiss),
         NEW t, Fits(t, due, amiss), Scene(t) = Scene(s), t.known = s.known,
         t.stopped = s.stopped
  PROVE  Finds(t, e, due, amiss)
<1>1. /\ t.phase = s.phase /\ t.about = s.about /\ t.sends = s.sends /\ t.held = s.held
  BY DEF Scene
<1>2. /\ IsTerminal(t) = IsTerminal(s) /\ Paused(t) = Paused(s)
      /\ \A g : PlayingGroup(t, g) = PlayingGroup(s, g)
  BY <1>1 DEF IsTerminal, Paused, PlayingGroup
<1>3. Claimed(s) /\ amiss = "claimed" /\ due = {} => Claimed(t)
  BY <1>1, <1>2 DEF Claimed
<1>4. \A g : Unsounded(s, g) => Unsounded(t, g)
  BY <1>1 DEF Unsounded
<1>5. \A g, lost : MissOf(s, g, lost) => MissOf(t, g, lost)
  BY <1>1, <1>2 DEF MissOf
<1>6. \A g : amiss = "ended" /\ due = {} /\ HasEnded(s, g) => HasEnded(t, g)
  BY <1>1 DEF HasEnded
<1>7. \A g : HasStopped(s, g, amiss) => HasStopped(t, g, amiss)
  BY <1>1, <1>2 DEF HasStopped
<1>. QED BY <1>2, <1>3, <1>4, <1>5, <1>6, <1>7 DEF Finds

\* The session paused before an event is nothing to what the event tells.
LEMMA FindsPaused ==
  ASSUME NEW s, NEW e, NEW due, NEW amiss, Finds(s, e, due, amiss), amiss # "claimed",
         NEW t, Fits(t, {}, "no"), Paused(t)
  PROVE  Finds(t, e, due, amiss)
<1>1. t.phase = "paused" /\ ~IsTerminal(t) /\ t.sends = {}
  BY DEF Paused, IsTerminal, Fits, Leased, Still
<1>2. Fits(t, {}, amiss)
  BY <1>1, AtRestAnyhow
<1>3. Fits(t, due, amiss)
  <2>1. {} \subseteq due
    OBVIOUS
  <2>. QED BY <1>2, <2>1, MoreDue
<1>4. \A g : Unsounded(t, g) /\ ~PlayingGroup(t, g)
  BY <1>1 DEF Unsounded, PlayingGroup
<1>5. \A g, lost : MissOf(t, g, lost)
  BY <1>4 DEF MissOf
<1>6. \A g : amiss = "ended" /\ HasEnded(s, g) => HasEnded(t, g)
  BY <1>1, <1>2 DEF HasEnded
<1>7. \A g : HasStopped(s, g, amiss) => HasStopped(t, g, amiss)
  BY <1>1, <1>4 DEF HasStopped
<1>. QED BY <1>1, <1>3, <1>4, <1>5, <1>6, <1>7 DEF Finds

\* The session as the event finds it, paused first if the app was held back.
LEMMA HereFits ==
  ASSUME NEW s, NEW e, NEW due, NEW amiss, Finds(s, e, due, amiss), BoxFits(s),
         NEW t, t = PauseIfAway(s)
  PROVE  /\ Finds(t, e, due, amiss) /\ BoxFits(t)
         /\ Cardinality(t.timers) <= Cardinality(s.timers) /\ Room(t) <= Room(s)
         /\ (t.phase = s.phase /\ t.about = s.about) \/ t.phase = "paused"
         /\ ~s.waiting => ~t.waiting
<1>0. Fits(s, due, amiss) /\ ~IsTerminal(s) /\ s \in Session
  BY DEF Finds, Fits
<1>1. Room(s) \in Nat /\ Cardinality(s.timers) \in Nat
  BY <1>0, TimersAreFinite DEF Room
<1>2. CASE ~s.away
  <2>1. t = s
    BY <1>2 DEF PauseIfAway
  <2>. QED BY <1>1, <2>1
<1>3. CASE s.away
  <2>1. PICK u : u = Take(s)
    OBVIOUS
  <2>2. Takes(s, due)
    BY DEF BoxFits, Takes
  <2>3. /\ Fits(u, due, amiss) /\ Scene(u) = Scene(s)
        /\ u.known = s.known /\ u.stopped = s.stopped /\ ~u.waiting /\ u.timers = s.timers
    BY <1>0, <2>1, <2>2, TakeFits
  <2>4. Finds(u, e, due, amiss)
    BY <2>3, FindsStays
  <2>5. u.phase = s.phase /\ u.about = s.about /\ u.sends = s.sends
    BY <2>3 DEF Scene
  <2>6. ~IsTerminal(u) /\ Room(u) = Room(s)
    BY <2>3, <2>4, <2>5 DEF Finds, Room
  <2>7. PICK p : p = PauseSession(u)
    OBVIOUS
  <2>8. t = [p EXCEPT !.away = FALSE]
    BY <1>3, <2>1, <2>7 DEF PauseIfAway
  <2>9. /\ Finds(p, e, due, amiss) /\ ~p.waiting
        /\ Cardinality(p.timers) <= Cardinality(s.timers) /\ Room(p) <= Room(s)
        /\ (p.phase = s.phase /\ p.about = s.about) \/ p.phase = "paused"
    <3>1. CASE Paused(u)
      <4>1. p = u
        BY <2>7, <3>1 DEF PauseSession
      <4>. QED BY <1>1, <2>3, <2>4, <2>5, <2>6, <4>1
    <3>2. CASE ~Paused(u)
      <4>1. ~Still(u)
        BY <2>6, <3>2 DEF Still, Paused
      <4>2. Fits(p, {}, "no") /\ Room(p) = 0 /\ Box(p) = Box(u) /\ Paused(p)
        BY <2>3, <2>7, <4>1, PauseFits
      <4>3. amiss # "claimed"
        BY <2>4, <3>2 DEF Finds, Claimed
      <4>4. Finds(p, e, due, amiss)
        BY <2>4, <4>2, <4>3, FindsPaused
      <4>5. ~p.waiting
        BY <2>3, <4>2 DEF Box
      <4>6. p.phase = "paused"
        BY <4>2 DEF Paused
      <4>7. p \in Session /\ p.timers = {}
        BY <4>2, <4>6 DEF Fits, Leased, Still
      <4>8. Cardinality(p.timers) = 0
        BY <4>7, FS_EmptySet
      <4>. QED BY <1>1, <4>2, <4>4, <4>5, <4>6, <4>8
    <3>. QED BY <3>1, <3>2
  <2>10. p \in Session
    BY <2>9 DEF Finds, Fits
  <2>11. t \in Session
    BY <2>8, <2>10 DEF Session
  <2>12. View(t) = View(p) /\ ~t.waiting
    BY <2>8, <2>9, <2>10 DEF Session, View
  <2>13. Fits(p, due, amiss)
    BY <2>9 DEF Finds
  <2>14. Fits(t, due, amiss) /\ Room(t) = Room(p)
    BY <2>11, <2>12, <2>13, FitsAsSeen
  <2>15. /\ Scene(t) = Scene(p) /\ t.known = p.known /\ t.stopped = p.stopped
         /\ t.timers = p.timers /\ t.phase = p.phase /\ t.about = p.about
    BY <2>12 DEF View, Scene
  <2>16. Finds(t, e, due, amiss)
    BY <2>9, <2>14, <2>15, FindsStays
  <2>. QED BY <2>9, <2>12, <2>14, <2>15, <2>16 DEF BoxFits
<1>. QED BY <1>2, <1>3

-----------------------------------------------------------------------------
(***************************************************************************)
(* dispatch: what the machine makes of each event.                         *)
(***************************************************************************)
\* What is amiss once it has heard: being held up is told on the way.
Left(e, amiss) == IF e.kind = "heldUp" THEN amiss ELSE "no"

\* The timers an event may start can be told apart, "more" in flight by then.
Roomy(s, e, more) ==
  /\ Room(s) <= MaxTimers + 2 + more
  /\ e.kind \notin {"confirm", "finish"} => Room(s) <= MaxTimers + 2
  /\ e.kind \in {"timer", "ended"} => Room(s) <= MaxTimers + 1
  /\ e.kind = "confirm" => Cardinality(s.timers) <= MaxTimers + more
  /\ e.kind = "input" /\ e.text \in Whole => Cardinality(s.timers) <= MaxTimers

LEMMA RoomIs ==
  ASSUME NEW s \in Session
  PROVE  /\ Room(s) \in Nat /\ Cardinality(s.timers) \in Nat
         /\ Cardinality(s.timers) <= Room(s) /\ Room(s) <= Cardinality(s.timers) + 1
BY TimersAreFinite DEF Room

LEMMA AbortedFits ==
  ASSUME NEW s, NEW due, NEW amiss, Fits(s, due, amiss), NEW t, t = EndSession(s, FALSE)
  PROVE  Fits(t, {}, "no") /\ Room(t) = 0 /\ Box(t) = Box(s)
<1>1. /\ s \in Session /\ Learned(s) /\ FullLength(s) /\ TimedRight(s)
      /\ \A x, y \in s.sends : x = y
  BY DEF Fits, Leased
<1>2. \A x \in s.sends : x.of <= Told(s)
  BY SendsAreOfNext
<1>3. PICK keep \in BOOLEAN : keep = FALSE
  OBVIOUS
<1>. QED BY <1>1, <1>2, <1>3, EndFits

\* Enter, where it is one that may answer.
LEMMA ConfirmFits ==
  ASSUME NEW s, Fits(s, {}, "no"), ~IsTerminal(s), Cardinality(s.timers) <= MaxTimers + 1,
         NEW t, t = Confirm(s)
  PROVE  Fits(t, {}, "no") /\ Room(t) <= MaxTimers + 2 /\ Box(t) = Box(s)
<1>0. s \in Session /\ s.current \in Groups /\ s.phase \in Phases
  BY DEF Fits, Session
<1>1. Room(s) <= MaxTimers + 2 /\ Cardinality(s.timers) <= MaxTimers + 2
  BY <1>0, RoomIs, MaxTimersAssumption
<1>2. CASE t = s
  BY <1>1, <1>2
<1>3. CASE ~InputLocked(s, s.current) /\ ~s.groups[s.current].done /\ t = ConfirmCurrent(s)
  <2>1. s.phase # "interGroupGap"
    <3>1. s.phase = "interGroupGap" => s.current = Told(s) - 1
      BY DEF Fits, AboutNext
    <3>2. Told(s) \in Nat
      BY SendsAreOfNext
    <3>3. s.current < Told(s) => s.groups[s.current].done
      BY <1>0 DEF Fits, Learned
    <3>. QED BY <1>3, <3>1, <3>2, <3>3
  <2>2. Answerable(s)
    BY <1>0, <1>3, <2>1 DEF InputLocked, Answerable, Playing, IsTerminal, Phases
  <2>3. /\ Leased(s, "no") /\ Learned(s) /\ AboutNext(s) /\ FullLength(s) /\ TimedRight(s)
    BY DEF Fits
  <2>4. Fits(t, {}, "no") /\ Room(t) <= Cardinality(s.timers) + 1 /\ Box(t) = Box(s)
    BY <1>0, <1>1, <1>3, <2>2, <2>3, ConfirmCurrentFits
  <2>5. t \in Session
    BY <2>4 DEF Fits
  <2>. QED BY <1>0, <2>4, <2>5, RoomIs, MaxTimersAssumption
<1>. QED BY <1>2, <1>3 DEF Confirm, ConfirmCurrent

\* A pause, asked for whether or not the session rests.
LEMMA PauseSessionFits ==
  ASSUME NEW s, NEW due, Fits(s, due, "no"), due = {}, ~IsTerminal(s), Room(s) <= MaxTimers + 2,
         NEW t, t = PauseSession(s)
  PROVE  Fits(t, {}, "no") /\ Room(t) <= MaxTimers + 2 /\ Box(t) = Box(s)
<1>1. CASE Paused(s)
  <2>1. t = s
    BY <1>1 DEF PauseSession
  <2>. QED BY <2>1
<1>2. CASE ~Paused(s)
  <2>1. ~Still(s)
    BY <1>2 DEF Still, Paused
  <2>2. Fits(t, {}, "no") /\ Room(t) = 0 /\ Box(t) = Box(s)
    BY <2>1, PauseFits
  <2>. QED BY <2>2, MaxTimersAssumption
<1>. QED BY <1>1, <1>2

\* The sound of a group stopped for good.
LEMMA StoppedFits ==
  ASSUME NEW s, NEW g, NEW amiss, Fits(s, {}, amiss), HasStopped(s, g, amiss),
         ~IsTerminal(s), Room(s) <= MaxTimers + 2,
         NEW t, t = IF PlayingGroup(s, g) THEN PauseSession(s) ELSE s
  PROVE  Fits(t, {}, "no") /\ Room(t) <= MaxTimers + 2 /\ Box(t) = Box(s)
<1>1. CASE PlayingGroup(s, g)
  <2>1. ~Still(s)
    BY <1>1 DEF Still, PlayingGroup, IsTerminal
  <2>2. Fits(t, {}, "no") /\ Room(t) = 0 /\ Box(t) = Box(s)
    BY <1>1, <2>1, PauseFits
  <2>. QED BY <2>2, MaxTimersAssumption
<1>2. CASE ~PlayingGroup(s, g)
  <2>1. t = s
    BY <1>2
  <2>2. Fits(s, {}, "no")
    <3>1. CASE amiss = "no"
      BY <3>1
    <3>2. CASE amiss = "failed" /\ s.phase # "playing"
      BY <3>2, AtRest
    <3>. QED BY <1>2, <3>1, <3>2 DEF HasStopped, PlayingGroup
  <2>. QED BY <2>1, <2>2
<1>. QED BY <1>1, <1>2

Kinds == {"abort", "stopped", "started", "missed", "ended", "heldUp", "input", "confirm",
          "pause", "resume", "timer", "finish"}

LEMMA ApplyFits ==
  ASSUME NEW s, NEW e, NEW due, NEW amiss, Finds(s, e, due, amiss), e.kind \in Kinds,
         Roomy(s, e, 1), NEW t, t = Apply(s, e)
  PROVE  /\ Fits(t, {}, Left(e, amiss)) /\ Box(t) = Box(s) /\ Room(t) <= MaxTimers + 2
         /\ e.kind = "heldUp" => Room(t) <= Room(s) /\ t.phase = s.phase /\ t.about = s.about
<1>0. /\ Fits(s, due, amiss) /\ ~IsTerminal(s) /\ s \in Session
      /\ due = IF e.kind = "timer" THEN {e.id} ELSE {}
  BY DEF Finds, Fits
<1>1. /\ Room(s) \in Nat /\ Cardinality(s.timers) \in Nat
      /\ Cardinality(s.timers) <= Room(s) /\ Room(s) <= Cardinality(s.timers) + 1
  BY <1>0, RoomIs
<1>2. e.kind \notin {"confirm", "finish"} => Room(s) <= MaxTimers + 2
  BY DEF Roomy
<1>3. ASSUME NEW u, Stage(u) = Stage(s), u.sends = s.sends
      PROVE  Room(u) = Room(s) /\ u.phase = s.phase /\ u.about = s.about
  BY <1>3 DEF Stage, Room
<1>4. CASE e.kind = "abort"
  <2>1. t = EndSession(s, FALSE) /\ Left(e, amiss) = "no"
    BY <1>0, <1>4 DEF Apply, Left
  <2>2. Fits(t, {}, "no") /\ Room(t) = 0 /\ Box(t) = Box(s)
    BY <1>0, <2>1, AbortedFits
  <2>3. Room(t) <= MaxTimers + 2
    BY <2>2, MaxTimersAssumption
  <2>. QED BY <1>4, <2>1, <2>2, <2>3
<1>5. CASE e.kind = "stopped"
  <2>1. t = (IF PlayingGroup(s, e.of) THEN PauseSession(s) ELSE s) /\ Left(e, amiss) = "no"
    BY <1>0, <1>5 DEF Apply, Left
  <2>2. HasStopped(s, e.of, amiss) /\ due = {}
    BY <1>0, <1>5 DEF Finds
  <2>. QED BY <1>0, <1>2, <1>5, <2>1, <2>2, StoppedFits
<1>6. CASE e.kind = "started"
  <2>1. t = PlaybackStarted(s, e.of) /\ Left(e, amiss) = "no"
    BY <1>0, <1>6 DEF Apply, Left
  <2>2. amiss = "restart" /\ e.of \in Groups /\ Unsounded(s, e.of) /\ due = {}
    BY <1>0, <1>6 DEF Finds
  <2>3. Fits(t, {}, "no") /\ t.sends = s.sends /\ Box(t) = Box(s) /\ Stage(t) = Stage(s)
    BY <1>0, <2>1, <2>2, StartedFits DEF Unsounded
  <2>4. Room(t) = Room(s)
    BY <1>3, <2>3
  <2>. QED BY <1>2, <1>6, <2>1, <2>3, <2>4
<1>7. CASE e.kind = "missed"
  <2>1. t = PlaybackMissed(s, e.of, e.lost) /\ Left(e, amiss) = "no"
    BY <1>0, <1>7 DEF Apply, Left
  <2>2. amiss = "no" /\ e.of \in Groups /\ e.lost \in BOOLEAN /\ MissOf(s, e.of, e.lost) /\ due = {}
    BY <1>0, <1>7 DEF Finds
  <2>3. Fits(t, {}, "no") /\ t.sends = s.sends /\ Box(t) = Box(s) /\ Stage(t) = Stage(s)
    BY <1>0, <2>1, <2>2, MissedFits
  <2>4. Room(t) = Room(s)
    BY <1>3, <2>3
  <2>. QED BY <1>2, <1>7, <2>1, <2>3, <2>4
<1>8. CASE e.kind = "ended"
  <2>1. t = PlaybackEnded(s, e.of) /\ Left(e, amiss) = "no"
    BY <1>0, <1>8 DEF Apply, Left
  <2>2. HasEnded(s, e.of) /\ Room(s) <= MaxTimers + 1
    BY <1>8 DEF Finds, Roomy
  <2>3. Cardinality(s.timers) <= MaxTimers + 2 /\ Cardinality(s.timers) + 1 <= MaxTimers + 2
    BY <1>1, <2>2, MaxTimersAssumption
  <2>4. Fits(t, {}, "no") /\ Room(t) <= Cardinality(s.timers) + 1 /\ Box(t) = Box(s)
    BY <2>1, <2>2, <2>3, EndedFits
  <2>5. Room(t) \in Nat
    BY <2>4, RoomIs DEF Fits
  <2>6. Room(t) <= MaxTimers + 2
    BY <1>1, <2>3, <2>4, <2>5, MaxTimersAssumption
  <2>. QED BY <1>8, <2>1, <2>4, <2>6
<1>9. CASE e.kind = "heldUp"
  <2>1. t = NoteHeldUp(s, e.of) /\ Left(e, amiss) = amiss
    BY <1>0, <1>9 DEF Apply, Left
  <2>2. amiss # "claimed" /\ e.of \in Groups /\ due = {}
    BY <1>0, <1>9 DEF Finds
  <2>3. Fits(t, {}, amiss) /\ t.sends = s.sends /\ Box(t) = Box(s) /\ Stage(t) = Stage(s)
    BY <1>0, <2>1, <2>2, HeldUpFits
  <2>4. Room(t) = Room(s) /\ t.phase = s.phase /\ t.about = s.about
    BY <1>3, <2>3
  <2>5. Room(t) <= Room(s)
    BY <1>1, <2>4
  <2>. QED BY <1>2, <1>9, <2>1, <2>3, <2>4, <2>5
<1>10. CASE e.kind = "input"
  <2>1. t = Input(s, e.text) /\ Left(e, amiss) = "no"
    BY <1>0, <1>10 DEF Apply, Left
  <2>2. amiss = "no" /\ e.text \in Answers /\ due = {}
    BY <1>0, <1>10 DEF Finds
  <2>3. e.text \in Whole => Cardinality(s.timers) <= MaxTimers
    BY <1>10 DEF Roomy
  <2>4. e.text \in Whole => due = {} /\ Cardinality(s.timers) <= MaxTimers + 2
    BY <1>1, <2>2, <2>3, MaxTimersAssumption
  <2>5. /\ Fits(t, {}, "no") /\ Scene(t) = Scene(s) /\ Box(t) = Box(s)
        /\ Cardinality(t.timers) <= Cardinality(s.timers) + One(e.text \in Whole)
    BY <1>0, <2>1, <2>2, <2>4, InputFits
  <2>6. /\ t \in Session /\ t.sends = s.sends
    BY <2>5 DEF Fits, Scene
  <2>7. Room(t) <= MaxTimers + 2
    <3>1. Cardinality(t.timers) \in Nat /\ Room(t) <= Cardinality(t.timers) + 1
      BY <2>6, RoomIs
    <3>2. CASE e.text \in Whole
      BY <1>1, <2>3, <2>5, <3>1, <3>2, MaxTimersAssumption, RoomIs, <2>6 DEF One
    <3>3. CASE e.text \notin Whole
      <4>1. Cardinality(t.timers) <= Cardinality(s.timers)
        BY <1>1, <2>5, <3>1, <3>3 DEF One
      <4>2. Room(t) <= Room(s)
        BY <1>1, <2>6, <3>1, <4>1 DEF Room
      <4>3. Room(s) <= MaxTimers + 2 /\ Room(t) \in Nat
        BY <1>2, <1>10, <2>6, RoomIs
      <4>. QED BY <1>1, <4>2, <4>3, MaxTimersAssumption
    <3>. QED BY <3>2, <3>3
  <2>. QED BY <1>10, <2>1, <2>5, <2>7
<1>11. CASE e.kind = "confirm"
  <2>1. t = Confirm(s) /\ Left(e, amiss) = "no"
    BY <1>0, <1>11 DEF Apply, Left
  <2>2. amiss = "no" /\ due = {} /\ Cardinality(s.timers) <= MaxTimers + 1
    BY <1>0, <1>11 DEF Finds, Roomy
  <2>. QED BY <1>0, <1>11, <2>1, <2>2, ConfirmFits
<1>12. CASE e.kind = "pause"
  <2>1. t = PauseSession(s) /\ Left(e, amiss) = "no"
    BY <1>0, <1>12 DEF Apply, Left
  <2>2. amiss = "no" /\ due = {}
    BY <1>0, <1>12 DEF Finds
  <2>. QED BY <1>0, <1>2, <1>12, <2>1, <2>2, PauseSessionFits
<1>13. CASE e.kind = "resume"
  <2>1. t = ResumeSession(s) /\ Left(e, amiss) = "no"
    BY <1>0, <1>13 DEF Apply, Left
  <2>2. Claimed(s)
    BY <1>13 DEF Finds
  <2>3. Fits(t, {}, "no") /\ Room(t) <= 1 /\ Box(t) = Box(s)
    BY <2>1, <2>2, ResumeFits
  <2>4. Room(t) \in Nat
    BY <2>3, RoomIs DEF Fits
  <2>5. Room(t) <= MaxTimers + 2
    BY <2>3, <2>4, MaxTimersAssumption
  <2>. QED BY <1>13, <2>1, <2>3, <2>5
<1>14. CASE e.kind = "timer"
  <2>1. t = TimerFired(s, e.id) /\ Left(e, amiss) = "no"
    BY <1>0, <1>14 DEF Apply, Left
  <2>2. Fits(s, {e.id}, "no") /\ Room(s) <= MaxTimers + 1
    BY <1>0, <1>14 DEF Finds, Roomy
  <2>3. Fits(t, {}, "no") /\ Room(t) <= MaxTimers + 2 /\ Box(t) = Box(s)
    BY <2>1, <2>2, TimerFits
  <2>. QED BY <1>14, <2>1, <2>3
<1>15. CASE e.kind = "finish"
  <2>1. t = FinishNow(s) /\ Left(e, amiss) = "no"
    BY <1>0, <1>15 DEF Apply, Left
  <2>2. Fits(t, {}, "no") /\ Room(t) = 0 /\ Box(t) = Box(s)
    BY <1>0, <2>1, FinishFits
  <2>3. Room(t) <= MaxTimers + 2
    BY <2>2, MaxTimersAssumption
  <2>. QED BY <1>15, <2>1, <2>2, <2>3
<1>. QED BY <1>4, <1>5, <1>6, <1>7, <1>8, <1>9, <1>10, <1>11, <1>12, <1>13, <1>14, <1>15 DEF Kinds

-----------------------------------------------------------------------------
(***************************************************************************)
(* dispatch, from the event that comes to the session it leaves.           *)
(***************************************************************************)
LEMMA LessRoom ==
  ASSUME NEW s \in Session, NEW e, Roomy(s, e, 0), NEW t \in Session,
         Cardinality(t.timers) <= Cardinality(s.timers), Room(t) <= Room(s)
  PROVE  Roomy(t, e, 0)
<1>1. /\ Room(s) \in Nat /\ Cardinality(s.timers) \in Nat
      /\ Room(t) \in Nat /\ Cardinality(t.timers) \in Nat
  BY RoomIs
<1>. QED BY <1>1, MaxTimersAssumption DEF Roomy

\* A timer that waits for what is being entered is in flight again.
LEMMA WaitsAgain ==
  ASSUME NEW s, NEW id \in TimerIds, Fits(s, {id}, "no"), ~Still(s), Room(s) <= MaxTimers + 1,
         NEW t, t = [s EXCEPT !.timers = @ \cup {id}]
  PROVE  Fits(t, {}, "no") /\ Room(t) <= MaxTimers + 2 /\ Box(t) = Box(s)
<1>1. s \in Session
  BY DEF Fits
<1>2. PICK timers : timers = s.timers \cup {id}
  OBVIOUS
<1>3. timers \in SUBSET TimerIds
  BY <1>1, <1>2 DEF Session
<1>4. t = [s EXCEPT !.timers = timers]
  BY <1>2
<1>5. t \in Session
  BY <1>1, <1>3, <1>4 DEF Session
<1>6. /\ t.settings = s.settings /\ t.phase = s.phase /\ t.about = s.about
      /\ t.current = s.current /\ t.groups = s.groups /\ t.phaseTimer = s.phaseTimer
      /\ t.auto = s.auto /\ t.begun = s.begun /\ t.countdownTo = s.countdownTo
      /\ t.resume = s.resume /\ t.missed = s.missed /\ t.known = s.known
      /\ t.learned = s.learned /\ t.sends = s.sends /\ t.stopped = s.stopped
      /\ t.held = s.held /\ t.over = s.over /\ Box(t) = Box(s) /\ t.timers = timers
  BY <1>1, <1>4 DEF Session, Box
<1>7. /\ IsTerminal(t) = IsTerminal(s) /\ Still(t) = Still(s) /\ Paused(t) = Paused(s)
      /\ Answerable(t) = Answerable(s) /\ Told(t) = Told(s)
      /\ \A g : PlayingGroup(t, g) = PlayingGroup(s, g)
  BY <1>6 DEF IsTerminal, Still, Paused, Answerable, Playing, Told, PlayingGroup
<1>8. Leased(t, "no")
  BY <1>6, <1>7 DEF Fits, Leased
<1>9. TimersFit(t, {})
  BY <1>2, <1>6 DEF Fits, TimersFit
<1>10. Waits(t) /\ AboutNext(t) /\ Learned(t) /\ FullLength(t)
  BY <1>6, <1>7 DEF Fits, Waits, AboutNext, Learned, FullLength
<1>11. Confirmed(t) /\ TimedRight(t) /\ OutRight(t)
  BY <1>6, <1>7 DEF Fits, Confirmed, TimedRight, OutRight
<1>12. \A g : Sounds(t, g) = Sounds(s, g) /\ SoundsWhole(t, g) = SoundsWhole(s, g)
  BY <1>6 DEF Sounds, SoundsWhole
<1>13. HeardRight(t, "no")
  BY <1>6, <1>7, <1>12 DEF Fits, HeardRight, HeardSo
<1>14. Fits(t, {}, "no")
  BY <1>5, <1>8, <1>9, <1>10, <1>11, <1>13 DEF Fits
<1>15. Room(t) <= MaxTimers + 2
  <2>1. IsFiniteSet(s.timers) /\ Cardinality(s.timers) \in Nat
    BY <1>1, TimersAreFinite
  <2>2. Cardinality(timers) \in {Cardinality(s.timers), Cardinality(s.timers) + 1}
    BY <1>2, <2>1, FS_AddElement
  <2>3. PICK n \in {0, 1} : n = IF s.sends = {} THEN 0 ELSE 1
    OBVIOUS
  <2>4. Room(s) = Cardinality(s.timers) + n /\ Room(t) = Cardinality(timers) + n
    BY <1>6, <2>3 DEF Room
  <2>5. Room(t) <= Room(s) + 1 /\ Room(t) \in Nat /\ Room(s) \in Nat
    BY <2>1, <2>2, <2>3, <2>4
  <2>. QED BY <2>5, MaxTimersAssumption
<1>. QED BY <1>6, <1>14, <1>15

\* What closes an answer: Enter and End session, and two timers of a session
\* that does not rest.
LEMMA ClosesDoes ==
  ASSUME NEW s, NEW e, NEW due, NEW amiss, Finds(s, e, due, amiss), e.kind \in Kinds
  PROVE  /\ ClosesAnswer(s, e) = "deadline" <=> e.kind \in {"confirm", "finish"}
         /\ ClosesAnswer(s, e) \in {"settled", "unbegun"} => e.kind = "timer" /\ ~Still(s)
<1>1. ~IsTerminal(s) /\ Fits(s, due, amiss)
  BY DEF Finds
<1>2. CASE e.kind \in {"confirm", "finish"}
  BY <1>1, <1>2 DEF ClosesAnswer
<1>3. CASE e.kind = "timer"
  <2>1. s.auto # NoAuto => ~Still(s)
    BY <1>1 DEF Fits, Confirmed, Answerable, Playing, Still, IsTerminal
  <2>2. s.phase = "awaiting" => ~Still(s)
    BY DEF Still, IsTerminal
  <2>. QED BY <1>1, <1>3, <2>1, <2>2 DEF ClosesAnswer
<1>4. CASE e.kind \notin {"confirm", "finish", "timer"}
  <2>1. ClosesAnswer(s, e) = "no"
    BY <1>1, <1>4 DEF ClosesAnswer
  <2>. QED BY <1>4, <2>1
<1>. QED BY <1>2, <1>3, <1>4

\* The box finishes a letter: the machine has not heard of it.
LEMMA EntryDoes ==
  ASSUME NEW s \in Session, NEW a \in Answers, NEW t, t = FinishEntry(s, a)
  PROVE  t \in Session /\ View(t) = View(s)
<1>1. \/ t = s
      \/ t = [s EXCEPT !.letter = "none", !.text = a, !.waiting = TRUE]
      \/ t = [s EXCEPT !.letter = "none"]
  BY DEF FinishEntry
<1>2. ASSUME t = [s EXCEPT !.letter = "none", !.text = a, !.waiting = TRUE]
      PROVE  t \in Session /\ View(t) = View(s)
  BY <1>2 DEF Session, View
<1>3. ASSUME t = [s EXCEPT !.letter = "none"]
      PROVE  t \in Session /\ View(t) = View(s)
  BY <1>3 DEF Session, View
<1>. QED BY <1>1, <1>2, <1>3

LEMMA SettleDoes ==
  ASSUME NEW s, NEW v \in Session, NEW t, t = Settle(s, v)
  PROVE  t \in Session /\ View(t) = View(v) /\ t.waiting = v.waiting
<1>1. \/ t = v
      \/ t = [v EXCEPT !.text = "none", !.letter = "none"]
  BY DEF Settle
<1>2. "none" \in Answers
  BY DEF Answers
<1>3. ASSUME t = [v EXCEPT !.text = "none", !.letter = "none"]
      PROVE  t \in Session /\ View(t) = View(v) /\ t.waiting = v.waiting
  BY <1>2, <1>3 DEF Session, View
<1>. QED BY <1>1, <1>3

-----------------------------------------------------------------------------
(***************************************************************************)
(* What is typed stays typed: nothing the machine does but hear the box    *)
(* changes an answer.                                                      *)
(***************************************************************************)
SameTyped(s, t) == \A g \in Groups : t.groups[g].input = s.groups[g].input

\* Nothing is answered either.
SameSaid(s, t) == t.learned = s.learned /\ SameTyped(s, t)

LEMMA SentSays ==
  ASSUME NEW s \in Session, NEW g \in Groups
  PROVE  /\ SameSaid(s, PlaybackStarted(s, g)) /\ SameSaid(s, NoteHeldUp(s, g))
         /\ \A lost \in BOOLEAN : SameSaid(s, PlaybackMissed(s, g, lost))
<1>1. SameSaid(s, PlaybackStarted(s, g))
  BY DEF SameSaid, SameTyped, PlaybackStarted, StartPlayback, Session, GroupOf
<1>2. SameSaid(s, NoteHeldUp(s, g))
  BY DEF SameSaid, SameTyped, NoteHeldUp, Session, GroupOf
<1>3. \A lost \in BOOLEAN : SameSaid(s, PlaybackMissed(s, g, lost))
  BY DEF SameSaid, SameTyped, NoteHeldUp, PlaybackMissed, Session, GroupOf
<1>. QED BY <1>1, <1>2, <1>3

LEMMA EndedSays ==
  ASSUME NEW s \in Session, NEW g \in Groups
  PROVE  SameSaid(s, PlaybackEnded(s, g))
BY DEF SameSaid, SameTyped, PlaybackEnded, SendAgain, Repeat, AwaitAnswer, StartPhaseTimer,
       NotePlayFinished, Session, GroupOf

LEMMA BeginSays ==
  ASSUME NEW s \in Session, NEW g \in Groups
  PROVE  /\ SameSaid(s, BeginGroup(s, g)) /\ SameSaid(s, CountDown(s, g))
         /\ SameSaid(s, AwaitAnswer(s, g))
<1>1. SameSaid(s, BeginGroup(s, g))
  BY DEF SameSaid, SameTyped, BeginGroup, Play, Session, GroupOf
<1>2. SameSaid(s, CountDown(s, g))
  BY DEF SameSaid, SameTyped, CountDown, StartPhaseTimer, Session
<1>3. SameSaid(s, AwaitAnswer(s, g))
  BY DEF SameSaid, SameTyped, AwaitAnswer, StartPhaseTimer, Session
<1>. QED BY <1>1, <1>2, <1>3

LEMMA EndSays ==
  ASSUME NEW s \in Session, \A x, y \in s.sends : x = y, NEW keep \in BOOLEAN,
         NEW t, t = EndSession(s, keep)
  PROVE  SameSaid(s, t) /\ IsTerminal(t) /\ t.over = (IF keep THEN "kept" ELSE "home")
<1>1. /\ Stopped(s, t.groups) /\ Place(t) = Place(s)
      /\ IsTerminal(t) /\ t.over = (IF keep THEN "kept" ELSE "home")
  BY EndDoes
<1>. QED BY <1>1 DEF Stopped, Place, Entered, SameSaid, SameTyped

LEMMA PauseSays ==
  ASSUME NEW s, NEW due, NEW amiss, Fits(s, due, amiss), NEW t, t = PauseSession(s)
  PROVE  SameSaid(s, t)
<1>1. CASE Still(s)
  <2>1. t = s
    BY <1>1 DEF PauseSession, Still, Paused
  <2>. QED BY <2>1 DEF SameSaid, SameTyped
<1>2. CASE ~Still(s)
  <2>1. PICK g : g = Told(s)
    OBVIOUS
  <2>2. g \in Groups /\ t.learned = s.learned
    BY <1>2, <2>1, PauseDoes
  <2>3. PICK groups :
          /\ Stopped(s, groups)
          /\ t.groups[g] = KeysBeforePause(CutSend(groups[g]))
          /\ \A h \in Groups \ {g} : t.groups[h] = groups[h]
    BY <1>2, <2>1, PauseDoes
  <2>4. \A h \in Groups : groups[h] \in GroupOf /\ groups[h].input = s.groups[h].input
    BY <2>3 DEF Stopped, Entered
  <2>5. t.groups[g].input = groups[g].input
    BY <2>2, <2>3, <2>4 DEF KeysBeforePause, CutSend, GroupOf
  <2>. QED BY <2>2, <2>3, <2>4, <2>5 DEF SameSaid, SameTyped
<1>. QED BY <1>1, <1>2

LEMMA ResumeSays ==
  ASSUME NEW s \in Session, NEW t, t = ResumeSession(s)
  PROVE  SameSaid(s, t)
<1>1. PICK g : g = s.resume.of
  OBVIOUS
<1>2. g \in Groups /\ s.resume.kind \in {"none", "send", "answer"} /\ NoResume \in ResumeOf
  BY <1>1, NumGroupsAssumption DEF Session, ResumeOf, NoResume, Groups
<1>3. PICK n : n = [s EXCEPT !.resume = NoResume, !.groups[g] = NotePaused(@)]
  OBVIOUS
<1>4. s.groups[g] \in GroupOf /\ s.groups \in [Groups -> GroupOf]
  BY <1>2, GroupTypes
<1>5. PICK grp : grp = NotePaused(s.groups[g])
  OBVIOUS
<1>6. grp \in GroupOf /\ grp.input = s.groups[g].input
  BY <1>4, <1>5 DEF NotePaused, GroupOf
<1>7. PICK groups : groups = [s.groups EXCEPT ![g] = grp]
  OBVIOUS
<1>8. groups \in [Groups -> GroupOf] /\ \A h \in Groups : groups[h].input = s.groups[h].input
  BY <1>2, <1>4, <1>6, <1>7
<1>9. n = [s EXCEPT !.resume = NoResume, !.groups = groups]
  BY <1>3, <1>5, <1>7
<1>10. n \in Session
  BY <1>2, <1>8, <1>9 DEF Session
<1>11. SameSaid(s, n)
  BY <1>8, <1>9 DEF SameSaid, SameTyped, Session
<1>12. \/ t = s \/ t = AwaitAnswer(n, g) \/ t = BeginGroup(n, g) \/ t = CountDown(n, g)
       \/ t = StartAuto([n EXCEPT !.phase = "awaiting", !.about = g], g, s.groups[g].input)
  BY <1>1, <1>2, <1>3 DEF ResumeSession
<1>13. ASSUME NEW a PROVE SameSaid(n, StartAuto([n EXCEPT !.phase = "awaiting", !.about = g], g, a))
  BY <1>10 DEF StartAuto, SameSaid, SameTyped, Session
<1>14. t = s \/ SameSaid(n, t)
  BY <1>2, <1>10, <1>12, <1>13, BeginSays
<1>. QED BY <1>11, <1>14 DEF SameSaid, SameTyped

\* An answer is kept as it was typed.
LEMMA RecordSays ==
  ASSUME NEW s \in Session, NEW g \in Groups, NEW t, t = Recorded(s, g)
  PROVE  /\ t \in Session /\ SameTyped(s, t) /\ Told(t) = Told(s) + 1
         /\ t.sends = s.sends /\ t.groups[g].done
<1>1. s.groups \in [Groups -> GroupOf] /\ s.groups[g] \in GroupOf
  BY GroupTypes
<1>2. PICK grp : grp = AsAnswered(s.groups[g])
  OBVIOUS
<1>3. grp \in GroupOf /\ grp.input = s.groups[g].input /\ grp.done
  BY <1>1, <1>2, AnsweredDoes
<1>4. PICK groups : groups = [s.groups EXCEPT ![g] = grp]
  OBVIOUS
<1>5. /\ groups \in [Groups -> GroupOf] /\ groups[g] = grp
      /\ \A h \in Groups : groups[h].input = s.groups[h].input
  BY <1>1, <1>3, <1>4
<1>6. PICK learned : learned = Append(s.learned, <<g, s.groups[g].input>>)
  OBVIOUS
<1>7. learned \in Seq(Groups \X Answers) /\ Len(learned) = Told(s) + 1
  <2>1. <<g, s.groups[g].input>> \in Groups \X Answers
    BY <1>1 DEF GroupOf
  <2>2. s.learned \in Seq(Groups \X Answers)
    BY DEF Session
  <2>. QED BY <1>6, <2>1, <2>2 DEF Told
<1>8. t = [s EXCEPT !.groups = groups, !.learned = learned]
  BY <1>2, <1>4, <1>6 DEF Recorded
<1>9. t \in Session
  BY <1>5, <1>7, <1>8 DEF Session
<1>10. t.groups = groups /\ t.learned = learned /\ t.sends = s.sends
  BY <1>8 DEF Session
<1>. QED BY <1>3, <1>5, <1>7, <1>9, <1>10 DEF SameTyped, Told

\* A step answers the next group, or none.
SaysNext(s, t) == SameTyped(s, t) /\ Told(t) = Told(s) + 1

LEMMA ConfirmSays ==
  ASSUME NEW s \in Session, \A x, y \in s.sends : x = y, NEW t, t = ConfirmCurrent(s)
  PROVE  SameSaid(s, t) \/ SaysNext(s, t)
<1>1. CASE InputLocked(s, s.current) \/ s.groups[s.current].done
  <2>1. t = s
    BY <1>1 DEF ConfirmCurrent
  <2>. QED BY <2>1 DEF SameSaid, SameTyped
<1>2. CASE ~(InputLocked(s, s.current) \/ s.groups[s.current].done)
  <2>1. PICK g \in Groups : g = s.current
    BY DEF Session
  <2>2. PICK r : r = Recorded(s, g)
    OBVIOUS
  <2>3. r = RecordAnswer(s, FALSE)
    BY <1>2, <2>1, <2>2 DEF RecordAnswer, Recorded, AsAnswered
  <2>4. r \in Session /\ SaysNext(s, r) /\ r.sends = s.sends
    BY <2>2, RecordSays DEF SaysNext
  <2>5. PICK c : c = CancelTimers(r)
    OBVIOUS
  <2>6. /\ c \in Session /\ SameSaid(r, c) /\ c.sends = s.sends
    <3>1. c \in Session /\ Place(c) = Place(r) /\ c.groups = r.groups /\ c.sends = r.sends
      BY <2>4, <2>5, CancelDoes
    <3>. QED BY <2>4, <3>1 DEF Place, SameSaid, SameTyped
  <2>7. PICK keep \in BOOLEAN : keep = TRUE
    OBVIOUS
  <2>8. CASE s.current + 1 = NumGroups
    <3>1. t = EndSession(c, keep)
      BY <1>2, <2>3, <2>5, <2>7, <2>8 DEF ConfirmCurrent
    <3>2. SameSaid(c, t)
      BY <2>6, <3>1, EndSays
    <3>. QED BY <2>4, <2>6, <3>2 DEF SameSaid, SameTyped, SaysNext, Told
  <2>9. CASE s.current + 1 # NumGroups
    <3>1. s.current + 1 \in Groups
      BY <2>1, <2>9, NumGroupsAssumption DEF Groups
    <3>2. PICK next \in Groups : next = s.current + 1
      BY <3>1
    <3>3. PICK n : n = [c EXCEPT !.phase = "interGroupGap", !.about = next]
      OBVIOUS
    <3>4. n \in Session /\ SameSaid(c, n) /\ n.sends = c.sends
      BY <2>6, <3>3 DEF Session, Phases, SameSaid, SameTyped
    <3>5. PICK m : m = StopAudio(n)
      OBVIOUS
    <3>6. m \in Session /\ SameSaid(n, m)
      <4>1. m \in Session /\ Stopped(n, m.groups) /\ Place(m) = Place(n)
        BY <2>6, <3>4, <3>5, StopDoes
      <4>. QED BY <4>1 DEF Stopped, Place, Entered, SameSaid, SameTyped
    <3>7. t = StartPhaseTimer(m, "gap")
      BY <1>2, <2>3, <2>5, <2>9, <3>2, <3>3, <3>5 DEF ConfirmCurrent
    <3>8. SameSaid(m, t)
      BY <3>6, <3>7 DEF StartPhaseTimer, SameSaid, SameTyped, Session
    <3>. QED BY <2>4, <2>6, <3>4, <3>6, <3>8 DEF SameSaid, SameTyped, SaysNext, Told
  <2>. QED BY <2>8, <2>9
<1>. QED BY <1>1, <1>2

\* The timers that close an answer, as far as the machine finds it so.
TimerCloses(s, id) ==
  \/ s.auto # NoAuto /\ s.auto.id = id /\ s.groups[s.auto.of].input = s.auto.value
  \/ /\ s.phaseTimer = [id |-> id, kind |-> "window"]
     /\ s.phase = "awaiting" /\ ~s.begun

LEMMA TimerSays ==
  ASSUME NEW s \in Session, \A x, y \in s.sends : x = y, NEW id, NEW t, t = TimerFired(s, id)
  PROVE  SameSaid(s, t) \/ (SaysNext(s, t) /\ TimerCloses(s, id))
<1>1. CASE s.auto # NoAuto /\ s.auto.id = id
  <2>1. PICK n : n = [s EXCEPT !.auto = NoAuto]
    OBVIOUS
  <2>2. NoAuto \in AutoTimer
    BY DEF NoAuto, AutoTimer
  <2>3. n \in Session
    BY <2>1, <2>2 DEF Session
  <2>4. n.groups = s.groups /\ n.learned = s.learned /\ n.sends = s.sends
    BY <2>1 DEF Session
  <2>5. \/ t = n
        \/ s.groups[s.auto.of].input = s.auto.value /\ t = ConfirmCurrent(n)
    BY <1>1, <2>1 DEF TimerFired, AutoFired
  <2>6. t = ConfirmCurrent(n) => SameSaid(n, t) \/ SaysNext(n, t)
    BY <2>3, <2>4, ConfirmSays
  <2>7. t = n => SameSaid(n, t)
    BY DEF SameSaid, SameTyped
  <2>8. (SameSaid(n, t) => SameSaid(s, t)) /\ (SaysNext(n, t) => SaysNext(s, t))
    BY <2>4 DEF SameSaid, SaysNext, SameTyped, Told
  <2>. QED BY <1>1, <2>5, <2>6, <2>7, <2>8 DEF TimerCloses
<1>2. CASE ~(s.auto # NoAuto /\ s.auto.id = id) /\ s.phaseTimer # NoPhaseTimer
             /\ s.phaseTimer.id = id
  <2>1. PICK n : n = Taken(s)
    OBVIOUS
  <2>2. NoPhaseTimer \in PhaseTimer
    BY DEF NoPhaseTimer, PhaseTimer
  <2>3. n \in Session
    BY <2>1, <2>2 DEF Taken, Session
  <2>4. n.groups = s.groups /\ n.learned = s.learned /\ n.sends = s.sends
    BY <2>1 DEF Taken, Session
  <2>5. t = PhaseTimerFired(s)
    BY <1>2 DEF TimerFired
  <2>6. s.about \in Groups /\ s.countdownTo \in Groups
    BY DEF Session
  <2>7. \/ \E g \in Groups : t = BeginGroup(n, g)
        \/ t = Play([n EXCEPT !.phase = "playing"], s.about)
        \/ t = StartPhaseTimer([n EXCEPT !.remaining = @ - 1], "countdown")
        \/ /\ s.phaseTimer.kind = "window" /\ s.phase = "awaiting" /\ ~s.begun
           /\ t = ConfirmCurrent(n)
        \/ t = n
    <3>1. \/ t = BeginGroup(n, s.about) \/ t = BeginGroup(n, s.countdownTo)
          \/ t = Play([n EXCEPT !.phase = "playing"], s.about)
          \/ t = StartPhaseTimer([n EXCEPT !.remaining = @ - 1], "countdown")
          \/ /\ s.phaseTimer.kind = "window" /\ s.phase = "awaiting" /\ ~s.begun
             /\ t = ConfirmCurrent(n)
          \/ t = n
      BY <2>1, <2>5 DEF PhaseTimerFired, Taken
    <3>. QED BY <2>6, <3>1
  <2>8. \A g \in Groups : SameSaid(n, BeginGroup(n, g))
    BY <2>3, BeginSays
  <2>9. SameSaid(n, Play([n EXCEPT !.phase = "playing"], s.about))
    BY <2>3 DEF Play, SameSaid, SameTyped, Session
  <2>10. SameSaid(n, StartPhaseTimer([n EXCEPT !.remaining = @ - 1], "countdown"))
    BY <2>3 DEF StartPhaseTimer, SameSaid, SameTyped, Session
  <2>11. t = ConfirmCurrent(n) => SameSaid(n, t) \/ SaysNext(n, t)
    BY <2>3, <2>4, ConfirmSays
  <2>12. t = n => SameSaid(n, t)
    BY DEF SameSaid, SameTyped
  <2>13. (SameSaid(n, t) => SameSaid(s, t)) /\ (SaysNext(n, t) => SaysNext(s, t))
    BY <2>4 DEF SameSaid, SaysNext, SameTyped, Told
  <2>14. s.phaseTimer.kind = "window" => s.phaseTimer = [id |-> id, kind |-> "window"]
    BY <1>2 DEF Session, PhaseTimer
  <2>15. SameSaid(n, t) \/ (/\ s.phaseTimer.kind = "window" /\ s.phase = "awaiting" /\ ~s.begun
                            /\ SaysNext(n, t))
    BY <2>7, <2>8, <2>9, <2>10, <2>11, <2>12
  <2>. QED BY <2>13, <2>14, <2>15 DEF TimerCloses
<1>3. CASE ~(s.auto # NoAuto /\ s.auto.id = id)
           /\ ~(s.phaseTimer # NoPhaseTimer /\ s.phaseTimer.id = id)
  <2>1. t = s
    BY <1>3 DEF TimerFired
  <2>. QED BY <2>1 DEF SameSaid, SameTyped
<1>. QED BY <1>1, <1>2, <1>3

LEMMA FinishSays ==
  ASSUME NEW s \in Session, \A x, y \in s.sends : x = y, NEW t, t = FinishNow(s)
  PROVE  /\ SameSaid(s, t) \/ SaysNext(s, t)
         /\ IsTerminal(t)
         /\ t.over = "home" => /\ \A g \in Groups : ~s.groups[g].done
                               /\ s.groups[s.current].input = "none"
<1>1. PICK g \in Groups : g = s.current
  BY DEF Session
<1>2. PICK n : n = IF s.resume.kind = "answer"
                   THEN [s EXCEPT !.groups[s.resume.of] = NotePaused(@)] ELSE s
  OBVIOUS
<1>3. /\ n \in Session /\ SameSaid(s, n) /\ n.sends = s.sends /\ n.current = s.current
      /\ \A h \in Groups : n.groups[h].done = s.groups[h].done
  <2>1. PICK h \in Groups : h = s.resume.of
    BY DEF Session, ResumeOf
  <2>2. s.groups[h] \in GroupOf /\ s.groups \in [Groups -> GroupOf]
    BY GroupTypes
  <2>3. PICK grp : grp = NotePaused(s.groups[h])
    OBVIOUS
  <2>4. grp \in GroupOf /\ grp.input = s.groups[h].input /\ grp.done = s.groups[h].done
    BY <2>2, <2>3 DEF NotePaused, GroupOf
  <2>5. PICK groups : groups = [s.groups EXCEPT ![h] = grp]
    OBVIOUS
  <2>6. /\ groups \in [Groups -> GroupOf]
        /\ \A i \in Groups : groups[i].input = s.groups[i].input
                             /\ groups[i].done = s.groups[i].done
    BY <2>2, <2>4, <2>5
  <2>7. n = s \/ n = [s EXCEPT !.groups = groups]
    BY <1>2, <2>1, <2>3, <2>5
  <2>8. ASSUME n = [s EXCEPT !.groups = groups]
        PROVE  /\ n \in Session /\ SameSaid(s, n) /\ n.sends = s.sends /\ n.current = s.current
               /\ \A i \in Groups : n.groups[i].done = s.groups[i].done
    BY <2>6, <2>8 DEF Session, SameSaid, SameTyped
  <2>9. SameSaid(s, s)
    BY DEF SameSaid, SameTyped
  <2>. QED BY <2>7, <2>8, <2>9
<1>4. PICK a : a = IF s.groups[g].input # "none" THEN RecordAnswer(n, TRUE) ELSE n
  OBVIOUS
<1>5. PICK keep \in BOOLEAN : keep = \E h \in Groups : a.groups[h].done
  OBVIOUS
<1>6. t = EndSession(a, keep)
  BY <1>1, <1>2, <1>4, <1>5 DEF FinishNow
<1>7. /\ a \in Session /\ (SameSaid(n, a) \/ SaysNext(n, a))
      /\ a.sends = s.sends
      /\ \A h \in Groups : n.groups[h].done => a.groups[h].done
      /\ s.groups[g].input # "none" => a.groups[g].done
  <2>1. \/ a = n /\ (s.groups[g].input # "none" => n.groups[g].done)
        \/ a = Recorded(n, g)
    BY <1>1, <1>3, <1>4 DEF RecordAnswer, Recorded, AsAnswered
  <2>2. CASE a = n /\ (s.groups[g].input # "none" => n.groups[g].done)
    BY <1>3, <2>2 DEF SameSaid, SameTyped
  <2>3. CASE a = Recorded(n, g)
    <3>1. a \in Session /\ SaysNext(n, a) /\ a.sends = s.sends /\ a.groups[g].done
      BY <1>3, <2>3, RecordSays DEF SaysNext
    <3>2. \A h \in Groups \ {g} : a.groups[h] = n.groups[h]
      BY <1>3, <2>3 DEF Recorded, Session
    <3>. QED BY <3>1, <3>2
  <2>. QED BY <2>1, <2>2, <2>3
<1>8. SameSaid(a, t) /\ IsTerminal(t) /\ t.over = (IF keep THEN "kept" ELSE "home")
  BY <1>6, <1>7, EndSays
<1>9. SameSaid(s, t) \/ SaysNext(s, t)
  BY <1>3, <1>7, <1>8 DEF SameSaid, SaysNext, SameTyped, Told
<1>10. ASSUME t.over = "home"
       PROVE  /\ \A h \in Groups : ~s.groups[h].done
              /\ s.groups[s.current].input = "none"
  <2>1. ~keep
    BY <1>8, <1>10
  <2>2. \A h \in Groups : ~a.groups[h].done
    BY <1>5, <2>1
  <2>. QED BY <1>1, <1>3, <1>7, <2>2
<1>. QED BY <1>8, <1>9, <1>10

LEMMA NextInGroups ==
  ASSUME NEW s, NEW due, NEW amiss, Fits(s, due, amiss), ~IsTerminal(s)
  PROVE  Told(s) \in Groups /\ ~s.groups[Told(s)].done
<1>1. s \in Session /\ AboutNext(s) /\ Learned(s) /\ Told(s) \in Nat
  BY SendsAreOfNext DEF Fits
<1>2. Told(s) \in Groups
  BY <1>1 DEF Session, Phases, IsTerminal, AboutNext, Answerable, Playing
<1>3. ~(Told(s) < Told(s))
  BY <1>1
<1>. QED BY <1>1, <1>2, <1>3 DEF Learned

LEMMA ApplySays ==
  ASSUME NEW s, NEW e, NEW due, NEW amiss, Finds(s, e, due, amiss), e.kind \in Kinds,
         e.kind # "input", NEW t, t = Apply(s, e)
  PROVE  /\ \/ SameSaid(s, t)
            \/ /\ SaysNext(s, t) /\ e.kind \in {"confirm", "finish", "timer"}
               /\ e.kind = "timer" => TimerCloses(s, e.id)
         /\ e.kind = "finish" /\ t.over = "home" =>
              Told(s) = 0 /\ s.groups[Told(s)].input = "none"
<1>1. Fits(s, due, amiss) /\ ~IsTerminal(s) /\ s \in Session /\ \A x, y \in s.sends : x = y
  BY DEF Finds, Fits, Leased
<1>2. SameSaid(s, s)
  BY DEF SameSaid, SameTyped
<1>3. CASE e.kind = "abort"
  <2>1. PICK keep \in BOOLEAN : keep = FALSE
    OBVIOUS
  <2>2. t = EndSession(s, keep)
    BY <1>1, <1>3, <2>1 DEF Apply
  <2>. QED BY <1>1, <1>3, <2>2, EndSays
<1>4. CASE e.kind \in {"stopped", "pause"}
  <2>1. t = s \/ t = PauseSession(s)
    BY <1>1, <1>4 DEF Apply
  <2>. QED BY <1>1, <1>2, <1>4, <2>1, PauseSays
<1>5. CASE e.kind \in {"started", "missed", "heldUp"}
  <2>1. e.of \in Groups /\ (e.kind = "missed" => e.lost \in BOOLEAN)
    BY <1>5 DEF Finds
  <2>2. \/ t = PlaybackStarted(s, e.of) \/ t = NoteHeldUp(s, e.of)
        \/ e.kind = "missed" /\ t = PlaybackMissed(s, e.of, e.lost)
    BY <1>1, <1>5 DEF Apply
  <2>3. SameSaid(s, t)
    BY <1>1, <2>1, <2>2, SentSays
  <2>. QED BY <1>5, <2>3
<1>6. CASE e.kind = "ended"
  <2>1. t = PlaybackEnded(s, e.of)
    BY <1>1, <1>6 DEF Apply
  <2>2. CASE ~PlayingGroup(s, e.of)
    <3>1. t = s
      BY <2>1, <2>2 DEF PlaybackEnded
    <3>. QED BY <1>2, <1>6, <3>1
  <2>3. CASE PlayingGroup(s, e.of)
    <3>1. e.of \in Groups
      BY <1>1, <2>3 DEF PlayingGroup, Session
    <3>. QED BY <1>1, <1>6, <2>1, <3>1, EndedSays
  <2>. QED BY <2>2, <2>3
<1>7. CASE e.kind = "confirm"
  <2>1. t = s \/ t = ConfirmCurrent(s)
    BY <1>1, <1>7 DEF Apply, Confirm
  <2>. QED BY <1>1, <1>2, <1>7, <2>1, ConfirmSays
<1>8. CASE e.kind = "resume"
  <2>1. t = ResumeSession(s)
    BY <1>1, <1>8 DEF Apply
  <2>. QED BY <1>1, <1>8, <2>1, ResumeSays
<1>9. CASE e.kind = "timer"
  <2>1. t = TimerFired(s, e.id)
    BY <1>1, <1>9 DEF Apply
  <2>. QED BY <1>1, <1>9, <2>1, TimerSays
<1>10. CASE e.kind = "finish"
  <2>1. t = FinishNow(s)
    BY <1>1, <1>10 DEF Apply
  <2>2. SameSaid(s, t) \/ SaysNext(s, t)
    BY <1>1, <2>1, FinishSays
  <2>3. ASSUME t.over = "home"
        PROVE  Told(s) = 0 /\ s.groups[Told(s)].input = "none"
    <3>1. /\ \A g \in Groups : ~s.groups[g].done
          /\ s.groups[s.current].input = "none"
      BY <1>1, <2>1, <2>3, FinishSays
    <3>2. 0 \in Groups /\ Told(s) \in Nat /\ \A g \in Groups : g \in Nat
      BY <1>1, NumGroupsAssumption, SendsAreOfNext DEF Groups
    <3>3. Told(s) = 0
      BY <1>1, <3>1, <3>2 DEF Fits, Learned
    <3>4. s.current = 0
      BY <1>1, <3>2, <3>3 DEF Fits, Learned, Session
    <3>. QED BY <3>1, <3>3, <3>4
  <2>. QED BY <1>10, <2>2, <2>3
<1>. QED BY <1>3, <1>4, <1>5, <1>6, <1>7, <1>8, <1>9, <1>10 DEF Kinds

-----------------------------------------------------------------------------
(***************************************************************************)
(* What the session has of an answer is what its box holds, but for what   *)
(* waits in the box, and that it can still take.  A gap, in which a text is*)
(* handed over to a session that pauses first, breaks it: so no gap here.  *)
(***************************************************************************)
BoxHeard(s) ==
  /\ ~s.away
  /\ s.waiting => Live(s)
  /\ ~IsTerminal(s) /\ ~s.waiting => s.groups[Told(s)].input = s.text

LEMMA LiveSeen ==
  ASSUME NEW s, NEW t, t.settings = s.settings, t.phase = s.phase, t.current = s.current,
         t.groups[t.current].done = s.groups[s.current].done
  PROVE  Live(t) = Live(s) /\ IsTerminal(t) = IsTerminal(s)
BY DEF Live, InputLocked, Answerable, Playing, IsTerminal

\* A letter keyed in full goes into the box, if it still takes it.
EntryOf(s, grown) == IF s.letter = "keyed" /\ Live(s) THEN grown ELSE s.text

LEMMA EntryHears ==
  ASSUME NEW s \in Session, BoxHeard(s), NEW a \in Answers, NEW t, t = FinishEntry(s, a)
  PROVE  BoxHeard(t) /\ t.text = EntryOf(s, a)
<1>1. View(t) = View(s)
  BY EntryDoes
<1>2. Live(t) = Live(s) /\ IsTerminal(t) = IsTerminal(s) /\ Told(t) = Told(s) /\ t.groups = s.groups
  BY <1>1, LiveSeen DEF View, Told
<1>3. CASE s.letter = "keyed" /\ Live(s)
  <2>1. t = [s EXCEPT !.letter = "none", !.text = a, !.waiting = TRUE]
    BY <1>3 DEF FinishEntry
  <2>2. t.waiting /\ t.away = s.away /\ t.text = a
    BY <2>1 DEF Session
  <2>. QED BY <1>2, <1>3, <2>2 DEF BoxHeard, EntryOf
<1>4. CASE ~(s.letter = "keyed" /\ Live(s))
  <2>1. t = s \/ t = [s EXCEPT !.letter = "none"]
    BY <1>4 DEF FinishEntry
  <2>2. t.waiting = s.waiting /\ t.away = s.away /\ t.text = s.text
    BY <2>1 DEF Session
  <2>. QED BY <1>2, <1>4, <2>2 DEF BoxHeard, EntryOf
<1>. QED BY <1>3, <1>4

\* What the box takes, the session has.
LEMMA InputSays ==
  ASSUME NEW s, NEW due, NEW amiss, Fits(s, due, amiss), Live(s), NEW a \in Answers,
         NEW t, t = Input(s, a), NEW g, g = Told(s)
  PROVE  /\ t.groups[g].input = a
         /\ \A h \in Groups \ {g} : t.groups[h] = s.groups[h]
         /\ a \notin Whole => t.auto = NoAuto
         /\ s.begun => t.begun
<1>1. /\ s \in Session /\ s.about = g /\ s.current = g /\ g \in Groups /\ ~s.groups[g].done
      /\ Answerable(s) /\ ~InputLocked(s, g)
  BY NextIsCurrent DEF Fits, Live
<1>2. s.groups \in [Groups -> GroupOf] /\ s.groups[g] \in GroupOf
  BY <1>1, GroupTypes
<1>3. PICK grp : grp = SetInput(s.groups[g], a)
  OBVIOUS
<1>4. grp.input = a
  BY <1>1, <1>2, <1>3, SetInputDoes
<1>5. PICK groups : groups = [s.groups EXCEPT ![g] = grp]
  OBVIOUS
<1>6. groups[g] = grp /\ \A h \in Groups \ {g} : groups[h] = s.groups[h]
  BY <1>1, <1>2, <1>5
<1>7. PICK begun : begun = (s.begun \/ a # "none")
  OBVIOUS
<1>8. PICK n : n = [s EXCEPT !.groups = groups, !.begun = begun]
  OBVIOUS
<1>9. n = [s EXCEPT !.groups[s.about] = SetInput(@, a), !.begun = @ \/ a # "none"]
  BY <1>1, <1>3, <1>5, <1>7, <1>8
<1>10. /\ a \notin Whole => t = [n EXCEPT !.auto = NoAuto]
       /\ t = n \/ t = StartAuto(n, s.about, a) \/ t = [n EXCEPT !.auto = NoAuto]
  BY <1>1, <1>9 DEF Input
<1>11. n.groups = groups /\ n.begun = begun
  BY <1>1, <1>8 DEF Session
<1>12. t.groups = groups /\ t.begun = begun /\ (a \notin Whole => t.auto = NoAuto)
  BY <1>1, <1>8, <1>10, <1>11 DEF StartAuto, Session
<1>. QED BY <1>4, <1>6, <1>7, <1>12

LEMMA TakeHears ==
  ASSUME NEW s, NEW due, NEW amiss, Fits(s, due, amiss), ~IsTerminal(s), BoxHeard(s),
         NEW t, t = Take(s), NEW g, g = Told(s)
  PROVE  /\ t.groups[g].input = s.text /\ \A h \in Groups \ {g} : t.groups[h] = s.groups[h]
         /\ BoxFits(s) => t.auto \in {s.auto, NoAuto}
         /\ s.begun => t.begun
<1>1. CASE ~s.waiting
  <2>1. t = s
    BY <1>1 DEF Take
  <2>. QED BY <1>1, <2>1 DEF BoxHeard
<1>2. CASE s.waiting
  <2>1. PICK a \in Answers : a = s.text
    BY DEF Fits, Session
  <2>2. PICK n : n = Input(s, a)
    OBVIOUS
  <2>3. Live(s)
    BY <1>2 DEF BoxHeard
  <2>4. /\ n.groups[g].input = a
        /\ \A h \in Groups \ {g} : n.groups[h] = s.groups[h]
        /\ a \notin Whole => n.auto = NoAuto
        /\ s.begun => n.begun
    BY <2>2, <2>3, InputSays
  <2>5. Apply(s, [kind |-> "input", text |-> s.text]) = n
    BY <2>1, <2>2 DEF Apply
  <2>6. t = [n EXCEPT !.waiting = FALSE]
    BY <1>2, <2>5 DEF Take
  <2>7. t.groups = n.groups /\ t.auto = n.auto /\ t.begun = n.begun
    BY <2>6
  <2>. QED BY <1>2, <2>1, <2>4, <2>7 DEF BoxFits
<1>. QED BY <1>1, <1>2

\* How an event may close an answer: with what the box holds, and where it is a
\* timer's, with nothing being entered.  The end of a session keeps what it holds.
AnsweredSo(s, e, t) ==
  /\ \/ t.learned = s.learned
     \/ /\ Told(t) = Told(s) + 1 /\ e.kind \in {"confirm", "finish", "timer"}
        /\ IF e.kind = "timer"
           THEN /\ s.letter = "none" /\ s.text # "uneven"
                /\ t.groups[Told(s)].input = s.text
           ELSE t.groups[Told(s)].input = EntryOf(s, e.grown)
  /\ e.kind = "finish" /\ t.over = "home" => Told(s) = 0 /\ EntryOf(s, e.grown) = "none"

Hears(s, e, t) == BoxHeard(s) /\ e.kind # "input" => BoxHeard(t) /\ AnsweredSo(s, e, t)

\* A timer closes only what ClosesAnswer says it would, and an answer that is
\* settled or not begun.
LEMMA TimerWaits ==
  ASSUME NEW s, NEW e, NEW due, Fits(s, due, "no"), ~IsTerminal(s), BoxFits(s), BoxHeard(s),
         e.kind = "timer",
         NEW u, u = Take(s), Fits(u, due, "no"), Scene(u) = Scene(s), TimerCloses(u, e.id)
  PROVE  ClosesAnswer(s, e) \in {"settled", "unbegun"} /\ s.text # "uneven"
<1>1. PICK g : g = Told(s)
  OBVIOUS
<1>2. /\ u.groups[g].input = s.text /\ u.auto \in {s.auto, NoAuto} /\ (s.begun => u.begun)
  BY <1>1, TakeHears
<1>3. /\ u.phase = s.phase /\ u.phaseTimer = s.phaseTimer /\ Told(u) = g /\ u.about = s.about
  BY <1>1 DEF Scene, Told
<1>4. CASE u.auto # NoAuto /\ u.auto.id = e.id /\ u.groups[u.auto.of].input = u.auto.value
  <2>1. s.auto # NoAuto /\ s.auto.id = e.id
    BY <1>2, <1>4
  <2>2. ClosesAnswer(s, e) = "settled"
    BY <2>1 DEF ClosesAnswer
  <2>3. Answerable(u) /\ u.groups[u.about].complete
    BY <1>4 DEF Fits, Confirmed
  <2>4. u.about = g /\ g \in Groups /\ ~u.groups[g].done
    BY <1>3, <2>3, NextIsCurrent
  <2>5. u.groups[g].input \in Whole
    BY <2>3, <2>4 DEF Fits, FullLength
  <2>. QED BY <1>2, <2>2, <2>5, WholeAssumption
<1>5. CASE /\ u.phaseTimer = [id |-> e.id, kind |-> "window"]
           /\ u.phase = "awaiting" /\ ~u.begun
  <2>1. s.phase = "awaiting" /\ ~s.begun /\ s.phaseTimer = [id |-> e.id, kind |-> "window"]
    BY <1>2, <1>3, <1>5 DEF Fits, Session
  <2>2. ClosesAnswer(s, e) \in {"settled", "unbegun"}
    BY <2>1 DEF ClosesAnswer
  <2>3. Answerable(u)
    BY <1>5 DEF Answerable
  <2>4. u.current = g
    BY <1>3, <2>3, NextIsCurrent
  <2>5. u.groups[g].input = "none"
    BY <1>5, <2>3, <2>4 DEF Fits, Confirmed
  <2>. QED BY <1>2, <2>2, <2>5
<1>. QED BY <1>4, <1>5 DEF TimerCloses

LEMMA HearsBox ==
  ASSUME NEW s, NEW e, NEW due, NEW amiss, Finds(s, e, due, amiss), BoxFits(s), BoxHeard(s),
         e.kind \in Kinds, e.kind # "input", e.kind \in {"confirm", "finish"} => e.grown \in Answers,
         ~(ClosesAnswer(s, e) \in {"settled", "unbegun"} /\ s.letter # "none"),
         NEW entered, entered = (IF ClosesAnswer(s, e) = "deadline"
                                 THEN FinishEntry(s, e.grown) ELSE s),
         Fits(entered, due, amiss), View(entered) = View(s),
         NEW u, u = Take(entered), Finds(u, e, due, amiss), Scene(u) = Scene(entered),
         ~u.waiting, u.text = entered.text, u.away = entered.away,
         NEW v, v = Apply(u, e), NEW left, Fits(v, {}, left), Box(v) = Box(u),
         NEW t, t = Settle(s, v)
  PROVE  BoxHeard(t) /\ AnsweredSo(s, e, t)
<1>1. /\ Fits(s, due, amiss) /\ ~IsTerminal(s) /\ s \in Session
      /\ Fits(u, due, amiss) /\ ~IsTerminal(u) /\ u \in Session /\ v \in Session
  BY DEF Finds, Fits
<1>2. PICK g : g = Told(s)
  OBVIOUS
<1>3. g \in Groups /\ ~s.groups[g].done /\ g \in Nat
  BY <1>1, <1>2, NextInGroups, SendsAreOfNext
<1>4. ClosesAnswer(s, e) = "deadline" <=> e.kind \in {"confirm", "finish"}
  BY ClosesDoes
<1>5. /\ BoxHeard(entered) /\ ~IsTerminal(entered) /\ Told(entered) = g
      /\ entered.groups = s.groups /\ entered.learned = s.learned
      /\ entered.text = IF e.kind \in {"confirm", "finish"} THEN EntryOf(s, e.grown) ELSE s.text
  <2>1. CASE e.kind \in {"confirm", "finish"}
    <3>1. entered = FinishEntry(s, e.grown) /\ e.grown \in Answers
      BY <1>4, <2>1
    <3>2. BoxHeard(entered) /\ entered.text = EntryOf(s, e.grown)
      BY <1>1, <3>1, EntryHears
    <3>. QED BY <1>1, <1>2, <2>1, <3>2 DEF View, Told, IsTerminal
  <2>2. CASE e.kind \notin {"confirm", "finish"}
    <3>1. entered = s
      BY <1>4, <2>2
    <3>. QED BY <1>1, <1>2, <2>2, <3>1
  <2>. QED BY <2>1, <2>2
<1>6. /\ u.groups[g].input = entered.text
      /\ \A h \in Groups \ {g} : u.groups[h] = s.groups[h]
  BY <1>5, TakeHears
<1>7. u.learned = s.learned /\ Told(u) = g
  BY <1>2, <1>5 DEF Scene, Told
<1>8. /\ \/ SameSaid(u, v)
         \/ /\ SaysNext(u, v) /\ e.kind \in {"confirm", "finish", "timer"}
            /\ e.kind = "timer" => TimerCloses(u, e.id)
      /\ e.kind = "finish" /\ v.over = "home" =>
           Told(u) = 0 /\ u.groups[Told(u)].input = "none"
  BY ApplySays
<1>9. v.groups[g].input = entered.text
  BY <1>3, <1>6, <1>8 DEF SameSaid, SaysNext, SameTyped
<1>10. ~v.waiting /\ ~v.away /\ v.text = entered.text
  BY <1>5 DEF Box, BoxHeard
<1>11. /\ t = v \/ t = [v EXCEPT !.text = "none", !.letter = "none"]
       /\ View(t) = View(v) /\ t.waiting = v.waiting /\ t.away = v.away
  <2>1. t = v \/ t = [v EXCEPT !.text = "none", !.letter = "none"]
    BY DEF Settle
  <2>2. t.away = v.away
    BY <1>1, <2>1 DEF Session
  <2>. QED BY <1>1, <2>1, <2>2, SettleDoes
<1>12. /\ t.learned = v.learned /\ t.groups = v.groups /\ t.over = v.over /\ Told(t) = Told(v)
       /\ IsTerminal(t) = IsTerminal(v)
  BY <1>11 DEF View, Told, IsTerminal
<1>13. \A h \in Groups : /\ s.groups[h].done <=> h < Told(s)
                         /\ v.groups[h].done <=> h < Told(v)
  BY <1>1 DEF Fits, Learned
<1>14. CASE SameSaid(u, v)
  <2>1. v.learned = s.learned /\ Told(v) = g
    BY <1>2, <1>7, <1>14 DEF SameSaid, Told
  <2>2. t = v
    BY <1>2, <1>13, <2>1 DEF Settle
  <2>3. BoxHeard(t)
    BY <1>9, <1>10, <2>1, <2>2 DEF BoxHeard
  <2>. QED BY <1>5, <1>6, <1>7, <1>8, <1>12, <1>2, <2>1, <2>3 DEF AnsweredSo
<1>15. CASE SaysNext(u, v)
  <2>1. Told(v) = g + 1 /\ SameTyped(u, v)
    BY <1>7, <1>15 DEF SaysNext
  <2>2. t.text = "none"
    <3>1. v.groups[g].done /\ ~s.groups[g].done
      BY <1>3, <1>13, <2>1
    <3>2. t = [v EXCEPT !.text = "none", !.letter = "none"]
      BY <1>3, <3>1 DEF Settle
    <3>. QED BY <1>1, <3>2 DEF Session
  <2>3. ASSUME ~IsTerminal(v)
        PROVE  v.groups[g + 1].input = "none"
    <3>1. g + 1 \in Groups
      BY <1>1, <2>1, <2>3, NextInGroups
    <3>2. g + 1 # g /\ g + 1 > Told(s)
      BY <1>2, <1>3
    <3>3. s.groups[g + 1] = Blank
      BY <1>1, <3>1, <3>2 DEF Fits, Learned
    <3>4. u.groups[g + 1].input = "none"
      BY <1>6, <3>1, <3>2, <3>3 DEF Blank
    <3>. QED BY <2>1, <3>1, <3>4 DEF SameTyped
  <2>4. BoxHeard(t)
    BY <1>10, <1>11, <1>12, <2>1, <2>2, <2>3 DEF BoxHeard
  <2>5. v.learned # u.learned
    BY <1>3, <1>7, <2>1 DEF Told
  <2>6. e.kind \in {"confirm", "finish", "timer"} /\ (e.kind = "timer" => TimerCloses(u, e.id))
    BY <1>8, <2>5 DEF SameSaid
  <2>7. e.kind = "timer" => s.letter = "none" /\ s.text # "uneven"
    <3>. SUFFICES ASSUME e.kind = "timer" PROVE s.letter = "none" /\ s.text # "uneven"
      OBVIOUS
    <3>1. entered = s /\ amiss = "no"
      BY <1>4 DEF Finds
    <3>2. ClosesAnswer(s, e) \in {"settled", "unbegun"} /\ s.text # "uneven"
      BY <1>1, <2>6, <3>1, TimerWaits
    <3>. QED BY <3>2
  <2>. QED BY <1>2, <1>5, <1>6, <1>7, <1>8, <1>9, <1>12, <2>1, <2>4, <2>6, <2>7 DEF AnsweredSo
<1>. QED BY <1>8, <1>14, <1>15

\* What an event may come to, and what it leaves.
Comes(s, e, due, amiss) ==
  /\ Finds(s, e, due, amiss) /\ BoxFits(s) /\ Roomy(s, e, 0) /\ e.kind \in Kinds
  /\ e.kind \in {"confirm", "finish"} => e.grown \in Answers

Leaves(s, e, amiss, t) ==
  /\ Fits(t, {}, Left(e, amiss)) /\ BoxFits(t) /\ Room(t) <= MaxTimers + 2
  /\ e.kind = "heldUp" =>
       /\ ~IsTerminal(t) /\ Room(t) <= Room(s)
       /\ (t.phase = s.phase /\ t.about = s.about) \/ t.phase = "paused"

\* The machine hears the box, and then the event.
LEMMA HearsFits ==
  ASSUME NEW s, NEW e, NEW due, NEW amiss, Comes(s, e, due, amiss),
         NEW here, here = PauseIfAway(s),
         NEW entered, entered = (IF ClosesAnswer(here, e) = "deadline"
                                 THEN FinishEntry(here, e.grown) ELSE here),
         NEW t, t = Settle(s, Apply(Take(entered), e))
  PROVE  /\ Leaves(s, e, amiss, t)
         /\ ~(ClosesAnswer(here, e) \in {"settled", "unbegun"} /\ here.letter # "none") =>
              Hears(s, e, t)
<1>1. /\ Finds(here, e, due, amiss) /\ BoxFits(here)
      /\ Cardinality(here.timers) <= Cardinality(s.timers) /\ Room(here) <= Room(s)
      /\ (here.phase = s.phase /\ here.about = s.about) \/ here.phase = "paused"
  BY HereFits DEF Comes
<1>2. /\ s \in Session /\ here \in Session /\ Fits(here, due, amiss) /\ e.kind \in Kinds
      /\ due = IF e.kind = "timer" THEN {e.id} ELSE {}
  BY <1>1 DEF Comes, Finds, Fits
<1>3. Roomy(here, e, 0)
  BY <1>1, <1>2, LessRoom DEF Comes
<1>4. ClosesAnswer(here, e) = "deadline" <=> e.kind \in {"confirm", "finish"}
  BY <1>1, <1>2, ClosesDoes
<1>5. /\ entered \in Session /\ View(entered) = View(here) /\ Takes(entered, due)
      /\ e.kind \notin {"confirm", "finish"} => BoxFits(entered)
  <2>1. CASE e.kind \in {"confirm", "finish"}
    <3>1. entered = FinishEntry(here, e.grown) /\ e.grown \in Answers /\ due = {}
      BY <1>2, <1>4, <2>1 DEF Comes
    <3>2. entered \in Session /\ View(entered) = View(here)
      BY <1>2, <3>1, EntryDoes
    <3>3. Cardinality(here.timers) <= Room(here) /\ Room(here) <= MaxTimers + 2 + 0
      BY <1>2, <1>3, RoomIs DEF Roomy
    <3>4. Cardinality(entered.timers) <= MaxTimers + 2
      <4>1. entered.timers = here.timers
        BY <3>2 DEF View
      <4>2. Cardinality(here.timers) \in Nat /\ Room(here) \in Nat
        BY <1>2, RoomIs
      <4>. QED BY <3>3, <4>1, <4>2, MaxTimersAssumption
    <3>. QED BY <2>1, <3>1, <3>2, <3>4 DEF Takes
  <2>2. CASE e.kind \notin {"confirm", "finish"}
    <3>1. entered = here
      BY <1>4, <2>2
    <3>. QED BY <1>1, <1>2, <3>1 DEF Takes, BoxFits
  <2>. QED BY <2>1, <2>2
<1>6. Fits(entered, due, amiss) /\ Room(entered) = Room(here)
  BY <1>2, <1>5, FitsAsSeen
<1>7. /\ Scene(entered) = Scene(here) /\ entered.known = here.known
      /\ entered.stopped = here.stopped /\ entered.timers = here.timers
  BY <1>5 DEF View, Scene
<1>8. Finds(entered, e, due, amiss)
  BY <1>1, <1>6, <1>7, FindsStays
<1>9. PICK u : u = Take(entered)
  OBVIOUS
<1>10. /\ Fits(u, due, amiss) /\ Scene(u) = Scene(entered)
       /\ u.known = entered.known /\ u.stopped = entered.stopped
       /\ ~u.waiting /\ u.text = entered.text /\ u.away = entered.away
       /\ Cardinality(u.timers) <= Cardinality(entered.timers) + 1
       /\ BoxFits(entered) => u.timers = entered.timers
  <2>1. ~IsTerminal(entered)
    BY <1>8 DEF Finds
  <2>. QED BY <1>5, <1>6, <1>9, <2>1, TakeFits
<1>11. Finds(u, e, due, amiss)
  BY <1>8, <1>10, FindsStays
<1>12. /\ u \in Session /\ u.sends = here.sends /\ u.phase = here.phase /\ u.about = here.about
  BY <1>7, <1>10 DEF Scene, Fits
<1>13. /\ Room(here) \in Nat /\ Cardinality(here.timers) \in Nat
       /\ Room(u) \in Nat /\ Cardinality(u.timers) \in Nat
       /\ Room(s) \in Nat
  BY <1>2, <1>12, RoomIs
<1>14. /\ Cardinality(u.timers) <= Cardinality(here.timers) + 1 /\ Room(u) <= Room(here) + 1
       /\ e.kind \notin {"confirm", "finish"} =>
            Room(u) = Room(here) /\ Cardinality(u.timers) = Cardinality(here.timers)
  BY <1>5, <1>7, <1>10, <1>12, <1>13 DEF Room
<1>15. Roomy(u, e, 1)
  BY <1>3, <1>13, <1>14, MaxTimersAssumption DEF Roomy
<1>16. PICK v : v = Apply(u, e)
  OBVIOUS
<1>17. /\ Fits(v, {}, Left(e, amiss)) /\ Box(v) = Box(u) /\ Room(v) <= MaxTimers + 2
       /\ e.kind = "heldUp" => Room(v) <= Room(u) /\ v.phase = u.phase /\ v.about = u.about
  BY <1>2, <1>11, <1>15, <1>16, ApplyFits
<1>18. v \in Session /\ ~v.waiting
  BY <1>10, <1>17 DEF Fits, Box
<1>19. t \in Session /\ View(t) = View(v) /\ t.waiting = v.waiting
  <2>1. t = Settle(s, v)
    BY <1>9, <1>16
  <2>. QED BY <1>18, <2>1, SettleDoes
<1>20. Fits(t, {}, Left(e, amiss)) /\ Room(t) = Room(v) /\ BoxFits(t)
  <2>1. Fits(t, {}, Left(e, amiss)) /\ Room(t) = Room(v)
    BY <1>17, <1>19, FitsAsSeen
  <2>. QED BY <2>1, <1>18, <1>19 DEF BoxFits
<1>21. ASSUME e.kind = "heldUp"
       PROVE  /\ ~IsTerminal(t) /\ Room(t) <= Room(s)
              /\ (t.phase = s.phase /\ t.about = s.about) \/ t.phase = "paused"
  <2>1. t.phase = here.phase /\ t.about = here.about
    BY <1>12, <1>17, <1>19, <1>21 DEF View
  <2>2. ~IsTerminal(here)
    BY <1>1 DEF Finds
  <2>3. Room(v) \in Nat
    BY <1>18, RoomIs
  <2>4. Room(t) <= Room(s)
    BY <1>1, <1>13, <1>14, <1>17, <1>20, <1>21, <2>3
  <2>. QED BY <1>1, <2>1, <2>2, <2>4 DEF IsTerminal
<1>22. ASSUME ~(ClosesAnswer(here, e) \in {"settled", "unbegun"} /\ here.letter # "none"),
              BoxHeard(s), e.kind # "input"
       PROVE  BoxHeard(t) /\ AnsweredSo(s, e, t)
  <2>1. here = s
    BY <1>22 DEF PauseIfAway, BoxHeard
  <2>2. e.kind \in {"confirm", "finish"} => e.grown \in Answers
    BY DEF Comes
  <2>3. t = Settle(s, v)
    BY <1>9, <1>16
  <2>. QED BY <1>1, <1>2, <1>5, <1>6, <1>9, <1>10, <1>11, <1>16, <1>17, <1>22, <2>1, <2>2, <2>3,
              HearsBox
<1>. QED BY <1>17, <1>20, <1>21, <1>22 DEF Leaves, Hears

LEMMA DispatchFits ==
  ASSUME NEW s, NEW e, NEW due, NEW amiss, Comes(s, e, due, amiss), NEW t, t = Dispatch(s, e)
  PROVE  Leaves(s, e, amiss, t) /\ Hears(s, e, t)
<1>1. PICK here : here = PauseIfAway(s)
  OBVIOUS
<1>2. PICK entered : entered = (IF ClosesAnswer(here, e) = "deadline"
                                THEN FinishEntry(here, e.grown) ELSE here)
  OBVIOUS
<1>3. t = IF ClosesAnswer(here, e) \in {"settled", "unbegun"} /\ here.letter # "none"
          THEN [here EXCEPT !.timers = @ \cup {e.id}]
          ELSE Settle(s, Apply(Take(entered), e))
  BY <1>1, <1>2 DEF Dispatch
<1>4. CASE ClosesAnswer(here, e) \in {"settled", "unbegun"} /\ here.letter # "none"
  <2>1. /\ Finds(here, e, due, amiss) /\ BoxFits(here)
        /\ Cardinality(here.timers) <= Cardinality(s.timers) /\ Room(here) <= Room(s)
    BY <1>1, HereFits DEF Comes
  <2>2. e.kind = "timer" /\ ~Still(here)
    BY <1>4, <2>1, ClosesDoes DEF Comes
  <2>3. e.id \in TimerIds /\ amiss = "no" /\ Fits(here, {e.id}, "no") /\ here \in Session
    BY <2>1, <2>2 DEF Finds, Fits
  <2>4. s \in Session
    BY DEF Comes, Finds, Fits
  <2>5. Roomy(here, e, 0)
    BY <2>1, <2>3, <2>4, LessRoom DEF Comes
  <2>6. Room(here) <= MaxTimers + 1
    BY <2>2, <2>5 DEF Roomy
  <2>7. t = [here EXCEPT !.timers = @ \cup {e.id}]
    BY <1>3, <1>4
  <2>8. Fits(t, {}, "no") /\ Room(t) <= MaxTimers + 2 /\ Box(t) = Box(here)
    BY <2>2, <2>3, <2>6, <2>7, WaitsAgain
  <2>9. BoxFits(t)
    BY <2>1, <2>8 DEF Box, BoxFits
  <2>10. ASSUME BoxHeard(s)
         PROVE  BoxHeard(t) /\ AnsweredSo(s, e, t)
    <3>1. here = s
      BY <1>1, <2>10 DEF PauseIfAway, BoxHeard
    <3>2. /\ t.settings = s.settings /\ t.phase = s.phase /\ t.current = s.current
          /\ t.groups = s.groups /\ t.learned = s.learned /\ Told(t) = Told(s)
      BY <2>4, <2>7, <3>1 DEF Session, Told
    <3>3. Live(t) = Live(s) /\ IsTerminal(t) = IsTerminal(s)
      BY <3>2, LiveSeen
    <3>4. BoxHeard(t)
      BY <2>8, <2>10, <3>1, <3>2, <3>3 DEF BoxHeard, Box
    <3>. QED BY <2>2, <3>2, <3>4 DEF AnsweredSo
  <2>. QED BY <2>2, <2>3, <2>8, <2>9, <2>10 DEF Leaves, Left, Hears
<1>5. CASE ~(ClosesAnswer(here, e) \in {"settled", "unbegun"} /\ here.letter # "none")
  <2>1. t = Settle(s, Apply(Take(entered), e))
    BY <1>3, <1>5
  <2>. QED BY <1>1, <1>2, <1>5, <2>1, HearsFits
<1>. QED BY <1>4, <1>5

-----------------------------------------------------------------------------
(***************************************************************************)
(* What happens to a session that runs, each to the session it leaves.     *)
(***************************************************************************)
Kept(s) == Fits(s, {}, "no") /\ BoxFits(s) /\ Room(s) <= MaxTimers + 2

Runs(s) == Kept(s) /\ s.over = "no"

LEMMA RunsDoes ==
  ASSUME NEW s, Runs(s)
  PROVE  /\ s \in Session /\ ~IsTerminal(s) /\ Fits(s, {}, "no") /\ BoxFits(s)
         /\ Room(s) <= MaxTimers + 2
BY DEF Runs, Kept, Fits, Leased

LEMMA AlikeHears ==
  ASSUME NEW s, NEW due, NEW amiss, Fits(s, due, amiss), NEW t, Alike(s, t)
  PROVE  /\ BoxHeard(s) => BoxHeard(t)
         /\ t.learned = s.learned /\ Told(t) = Told(s) /\ t.letter = s.letter /\ t.text = s.text
         /\ Live(t) = Live(s)
<1>1. /\ t.learned = s.learned /\ Told(t) = Told(s) /\ t.letter = s.letter /\ t.text = s.text
      /\ t.waiting = s.waiting /\ t.away = s.away
  BY DEF Alike, Told, Box
<1>2. s.current \in Groups /\ t.current = s.current
  BY DEF Fits, Session, Alike
<1>3. Live(t) = Live(s) /\ IsTerminal(t) = IsTerminal(s)
  BY <1>2, LiveSeen DEF Alike
<1>4. ~IsTerminal(s) => Told(s) \in Groups
  BY NextInGroups
<1>5. ~IsTerminal(s) => t.groups[Told(s)].input = s.groups[Told(s)].input
  BY <1>4 DEF Alike
<1>. QED BY <1>1, <1>3, <1>5 DEF BoxHeard

\* An event that answers nothing.
Passes(s, t) == BoxHeard(s) => BoxHeard(t) /\ t.learned = s.learned

LEMMA PassesOn ==
  ASSUME NEW s, NEW n, Passes(s, n), NEW e, NEW t, Hears(n, e, t),
         e.kind \notin {"confirm", "finish", "timer", "input"}
  PROVE  Passes(s, t)
BY DEF Passes, Hears, AnsweredSo

LEMMA AlikePasses ==
  ASSUME NEW s, NEW due, NEW amiss, Fits(s, due, amiss), NEW t, Alike(s, t)
  PROVE  Passes(s, t)
BY AlikeHears DEF Passes

\* What the machine does not look at may change as the box allows.
LEMMA KeptAsSeen ==
  ASSUME NEW s, Kept(s), NEW t \in Session, View(t) = View(s), BoxFits(t)
  PROVE  Kept(t) /\ (Runs(s) => Runs(t))
<1>1. Fits(t, {}, "no") /\ Room(t) = Room(s)
  BY FitsAsSeen DEF Kept
<1>2. t.over = s.over
  BY DEF View
<1>. QED BY <1>1, <1>2 DEF Kept, Runs

\* An event that tells the machine of nothing amiss.
LEMMA TellFits ==
  ASSUME NEW s, Runs(s), NEW e, e.kind \in {"abort", "pause", "confirm", "finish"},
         e.kind \in {"confirm", "finish"} => e.grown \in Answers,
         e.kind = "confirm" => Cardinality(s.timers) <= MaxTimers,
         NEW t, t = Dispatch(s, e)
  PROVE  Kept(t) /\ Hears(s, e, t)
<1>1. /\ s \in Session /\ ~IsTerminal(s) /\ Fits(s, {}, "no") /\ BoxFits(s)
      /\ Room(s) <= MaxTimers + 2
  BY RunsDoes
<1>2. Finds(s, e, {}, "no")
  BY <1>1 DEF Finds
<1>3. Roomy(s, e, 0)
  <2>1. e.kind = "confirm" => Cardinality(s.timers) <= MaxTimers + 0
    BY MaxTimersAssumption
  <2>2. Room(s) <= MaxTimers + 2 + 0
    BY <1>1, MaxTimersAssumption
  <2>. QED BY <1>1, <2>1, <2>2 DEF Roomy
<1>4. Comes(s, e, {}, "no")
  BY <1>1, <1>2, <1>3 DEF Comes, Kinds
<1>5. Leaves(s, e, "no", t) /\ Hears(s, e, t)
  BY <1>4, DispatchFits
<1>. QED BY <1>5 DEF Leaves, Left, Kept

LEMMA HandOverFits ==
  ASSUME NEW s, Fits(s, {}, "no"), s.over = "no", Room(s) <= MaxTimers + 2,
         s.text \in Whole => Cardinality(s.timers) <= MaxTimers,
         NEW t, t = HandOver(s)
  PROVE  /\ Kept(t)
         /\ Live(s) /\ ~s.away => BoxHeard(t) /\ t.learned = s.learned
<1>1. s \in Session /\ ~IsTerminal(s) /\ s.text \in Answers
  BY DEF Fits, Leased, Session
<1>2. PICK n : n = [s EXCEPT !.waiting = FALSE]
  OBVIOUS
<1>3. PICK e : e = [kind |-> "input", text |-> s.text]
  OBVIOUS
<1>4. n \in Session /\ View(n) = View(s) /\ ~n.waiting
  BY <1>1, <1>2 DEF Session, View
<1>5. Fits(n, {}, "no") /\ Room(n) = Room(s)
  BY <1>4, FitsAsSeen
<1>6. n.timers = s.timers /\ n.phase = s.phase
  BY <1>4 DEF View
<1>7. e.kind = "input" /\ e.text = s.text
  BY <1>3
<1>8. Finds(n, e, {}, "no")
  BY <1>1, <1>5, <1>6, <1>7 DEF Finds, IsTerminal
<1>9. Roomy(n, e, 0)
  <2>1. Room(n) <= MaxTimers + 2 + 0
    BY <1>5, MaxTimersAssumption
  <2>. QED BY <1>5, <1>6, <1>7, <2>1 DEF Roomy
<1>10. Comes(n, e, {}, "no")
  BY <1>4, <1>7, <1>8, <1>9 DEF Comes, BoxFits, Kinds
<1>11. t = Dispatch(n, e)
  BY <1>2, <1>3 DEF HandOver
<1>12. Leaves(n, e, "no", t)
  BY <1>10, <1>11, DispatchFits
<1>13. ASSUME Live(s), ~s.away
       PROVE  BoxHeard(t) /\ t.learned = s.learned
  <2>1. PICK g : g = Told(s)
    OBVIOUS
  <2>2. /\ Live(n) /\ Told(n) = g /\ n.groups = s.groups /\ n.learned = s.learned
        /\ ~n.away /\ n.text = s.text /\ ~IsTerminal(n)
    <3>1. n.away = s.away /\ n.text = s.text
      BY <1>1, <1>2 DEF Session
    <3>2. Live(n) = Live(s) /\ IsTerminal(n) = IsTerminal(s)
      BY <1>4, LiveSeen DEF View
    <3>. QED BY <1>1, <1>4, <1>13, <2>1, <3>1, <3>2 DEF View, Told
  <2>3. PICK m : m = Input(n, s.text)
    OBVIOUS
  <2>4. m.groups[g].input = s.text /\ \A h \in Groups \ {g} : m.groups[h] = n.groups[h]
    BY <1>1, <1>5, <2>2, <2>3, InputSays
  <2>5. Fits(m, {}, "no") /\ Scene(m) = Scene(n) /\ Box(m) = Box(n)
    <3>1. PICK due : due = {}
      OBVIOUS
    <3>2. Fits(n, due, "no")
      BY <1>5, <3>1
    <3>3. s.text \in Whole => due = {} /\ Cardinality(n.timers) <= MaxTimers + 2
      <4>1. Cardinality(n.timers) \in Nat
        BY <1>4, RoomIs
      <4>. QED BY <1>6, <3>1, <4>1, MaxTimersAssumption
    <3>4. Fits(m, due, "no") /\ Scene(m) = Scene(n) /\ Box(m) = Box(n)
      BY <1>1, <2>3, <3>2, <3>3, InputFits
    <3>. QED BY <3>1, <3>4
  <2>6. m.learned = s.learned /\ Told(m) = g
    BY <2>1, <2>2, <2>5 DEF Scene, Told
  <2>7. \A h \in Groups : m.groups[h].done = s.groups[h].done
    <3>1. \A h \in Groups : /\ s.groups[h].done \in BOOLEAN /\ (s.groups[h].done <=> h < Told(s))
                            /\ m.groups[h].done \in BOOLEAN /\ (m.groups[h].done <=> h < Told(m))
      BY <1>1, <2>5 DEF Fits, Learned, Session, GroupOf
    <3>. QED BY <2>1, <2>6, <3>1
  <2>8. t = m
    <3>1. PauseIfAway(n) = n
      BY <2>2 DEF PauseIfAway
    <3>2. ClosesAnswer(n, e) = "no"
      BY <1>7, <2>2 DEF ClosesAnswer
    <3>3. Take(n) = n
      BY <1>4 DEF Take
    <3>4. Apply(n, e) = m
      BY <1>7, <2>2, <2>3 DEF Apply
    <3>5. t = Settle(n, m)
      BY <1>11, <3>1, <3>2, <3>3, <3>4 DEF Dispatch
    <3>. QED BY <2>2, <2>7, <3>5 DEF Settle
  <2>9. ~m.waiting /\ ~m.away /\ m.text = s.text
    BY <1>4, <2>2, <2>5 DEF Box
  <2>. QED BY <2>4, <2>6, <2>8, <2>9 DEF BoxHeard
<1>. QED BY <1>7, <1>12, <1>13 DEF Leaves, Left, Kept

LEMMA EditFits ==
  ASSUME NEW s, Runs(s), Cardinality(s.timers) <= MaxTimers, NEW a \in Answers,
         NEW t, t = Edit(s, a)
  PROVE  /\ Kept(t)
         /\ Live(s) /\ ~s.away => BoxHeard(t) /\ t.learned = s.learned
<1>1. s \in Session /\ Fits(s, {}, "no") /\ Room(s) <= MaxTimers + 2 /\ s.over = "no"
  BY RunsDoes DEF Runs
<1>2. PICK n : n = [s EXCEPT !.text = a, !.waiting = TRUE]
  OBVIOUS
<1>3. n \in Session /\ View(n) = View(s) /\ n.text = a
  BY <1>1, <1>2 DEF Session, View
<1>4. Fits(n, {}, "no") /\ Room(n) = Room(s)
  BY <1>1, <1>3, FitsAsSeen
<1>5. n.timers = s.timers /\ n.over = s.over
  BY <1>3 DEF View
<1>6. t = IF a \in Whole THEN HandOver(n) ELSE n
  BY <1>2 DEF Edit
<1>9. Live(n) = Live(s) /\ n.away = s.away /\ n.learned = s.learned /\ n.waiting
  <2>1. n.away = s.away /\ n.waiting
    BY <1>1, <1>2 DEF Session
  <2>. QED BY <1>3, <2>1, LiveSeen DEF View
<1>7. CASE a \in Whole
  BY <1>1, <1>4, <1>5, <1>6, <1>7, <1>9, HandOverFits
<1>8. CASE a \notin Whole
  BY <1>1, <1>3, <1>4, <1>6, <1>8, <1>9 DEF Kept, BoxFits, BoxHeard
<1>. QED BY <1>7, <1>8

Letters == {"none", "open", "keyed"}

Unseen(s, letter, fresh, away) == [s EXCEPT !.letter = letter, !.fresh = fresh, !.away = away]

\* A letter begun, or keyed in full, or gone; time passed, or long lost.
LEMMA UnseenFits ==
  ASSUME NEW s, Runs(s), NEW letter \in Letters, NEW fresh \in BOOLEAN,
         NEW away \in BOOLEAN,
         NEW t, t = Unseen(s, letter, fresh, away)
  PROVE  /\ Runs(t) /\ t.timers = s.timers /\ t.text = s.text /\ t.waiting = s.waiting
         /\ t.learned = s.learned /\ Live(t) = Live(s) /\ t.away = away
         /\ BoxHeard(s) /\ ~away => BoxHeard(t)
<1>1. s \in Session /\ BoxFits(s) /\ Kept(s)
  BY RunsDoes DEF Runs
<1>2. /\ t \in Session /\ View(t) = View(s) /\ t.waiting = s.waiting /\ t.text = s.text
      /\ t.timers = s.timers
  <2>1. t \in Session
    <3>1. PICK n : n = [s EXCEPT !.letter = letter]
      OBVIOUS
    <3>2. n \in Session
      BY <1>1, <3>1 DEF Session, Letters
    <3>3. PICK m : m = [n EXCEPT !.fresh = fresh]
      OBVIOUS
    <3>4. m \in Session
      BY <3>2, <3>3 DEF Session
    <3>5. t = [m EXCEPT !.away = away]
      BY <3>1, <3>3 DEF Unseen
    <3>. QED BY <3>4, <3>5 DEF Session
  <2>2. View(t) = View(s) /\ t.waiting = s.waiting /\ t.text = s.text
    BY <1>1 DEF Session, View, Unseen
  <2>. QED BY <2>1, <2>2 DEF View
<1>3. BoxFits(t)
  BY <1>1, <1>2 DEF BoxFits
<1>4. t.away = away
  BY <1>1 DEF Session, Unseen
<1>5. Live(t) = Live(s) /\ IsTerminal(t) = IsTerminal(s) /\ t.learned = s.learned
  BY <1>2, LiveSeen DEF View
<1>6. BoxHeard(s) /\ ~away => BoxHeard(t)
  BY <1>2, <1>4, <1>5 DEF BoxHeard, View, Told
<1>. QED BY <1>1, <1>2, <1>3, <1>4, <1>5, <1>6, KeptAsSeen

\* The audio is claimed afresh for a session that rests.
LEMMA ClaimFits ==
  ASSUME NEW s, Runs(s), Paused(s), NEW t, t = [s EXCEPT !.held = TRUE, !.stopped = {}]
  PROVE  Claimed(t) /\ BoxFits(t) /\ Room(t) = Room(s) /\ ~IsTerminal(t) /\ Passes(s, t)
<1>1. s \in Session /\ Fits(s, {}, "no") /\ BoxFits(s) /\ ~IsTerminal(s)
  BY RunsDoes
<1>2. t \in Session
  BY <1>1 DEF Session
<1>3. /\ t.settings = s.settings /\ t.phase = s.phase /\ t.about = s.about
      /\ t.current = s.current /\ t.groups = s.groups /\ t.phaseTimer = s.phaseTimer
      /\ t.auto = s.auto /\ t.begun = s.begun /\ t.countdownTo = s.countdownTo
      /\ t.resume = s.resume /\ t.missed = s.missed /\ t.known = s.known
      /\ t.learned = s.learned /\ t.timers = s.timers /\ t.sends = s.sends
      /\ t.stopped = {} /\ t.held /\ t.over = s.over
      /\ Box(t) = Box(s)
  BY <1>1 DEF Session, Box
<1>4. /\ IsTerminal(t) = IsTerminal(s) /\ Still(t) = Still(s) /\ Paused(t) = Paused(s)
      /\ Answerable(t) = Answerable(s) /\ Told(t) = Told(s)
      /\ \A g : PlayingGroup(t, g) = PlayingGroup(s, g)
  BY <1>3 DEF IsTerminal, Still, Paused, Answerable, Playing, Told, PlayingGroup
<1>5. Leased(t, "claimed")
  BY <1>1, <1>3, <1>4 DEF Fits, Leased, Paused
<1>6. TimersFit(t, {}) /\ Waits(t) /\ AboutNext(t) /\ Learned(t) /\ FullLength(t)
  BY <1>1, <1>3, <1>4 DEF Fits, TimersFit, Waits, AboutNext, Learned, FullLength
<1>7. Confirmed(t) /\ TimedRight(t) /\ OutRight(t)
  BY <1>1, <1>3, <1>4 DEF Fits, Confirmed, TimedRight, OutRight
<1>8. \A g : Sounds(t, g) = Sounds(s, g) /\ SoundsWhole(t, g) = SoundsWhole(s, g)
  BY <1>3 DEF Sounds, SoundsWhole
<1>9. HeardRight(t, "claimed")
  BY <1>1, <1>3, <1>4, <1>8 DEF Fits, HeardRight, HeardSo
<1>10. Fits(t, {}, "claimed")
  BY <1>2, <1>5, <1>6, <1>7, <1>9 DEF Fits
<1>11. BoxFits(t) /\ Room(t) = Room(s)
  BY <1>1, <1>3 DEF BoxFits, Room, Box
<1>12. Alike(s, t)
  BY <1>3 DEF Alike
<1>13. Passes(s, t)
  BY <1>1, <1>12, AlikePasses
<1>. QED BY <1>1, <1>3, <1>4, <1>10, <1>11, <1>13 DEF Claimed

\* A timer that runs out is due.
LEMMA RingFits ==
  ASSUME NEW s, Runs(s), NEW id \in s.timers, NEW t, t = [s EXCEPT !.timers = @ \ {id}]
  PROVE  /\ Fits(t, {id}, "no") /\ BoxFits(t) /\ Room(t) <= MaxTimers + 1 /\ ~IsTerminal(t)
         /\ Alike(s, t)
<1>1. /\ s \in Session /\ Fits(s, {}, "no") /\ BoxFits(s) /\ ~IsTerminal(s)
      /\ Room(s) <= MaxTimers + 2
  BY RunsDoes
<1>2. PICK timers : timers = s.timers \ {id}
  OBVIOUS
<1>3. timers \in SUBSET TimerIds
  BY <1>1, <1>2 DEF Session
<1>4. t = [s EXCEPT !.timers = timers]
  BY <1>2
<1>5. t \in Session
  BY <1>1, <1>3, <1>4 DEF Session
<1>6. /\ t.settings = s.settings /\ t.phase = s.phase /\ t.about = s.about
      /\ t.current = s.current /\ t.groups = s.groups /\ t.phaseTimer = s.phaseTimer
      /\ t.auto = s.auto /\ t.begun = s.begun /\ t.countdownTo = s.countdownTo
      /\ t.resume = s.resume /\ t.missed = s.missed /\ t.known = s.known
      /\ t.learned = s.learned /\ t.sends = s.sends /\ t.stopped = s.stopped
      /\ t.held = s.held /\ t.over = s.over /\ t.timers = timers
      /\ Box(t) = Box(s)
  BY <1>1, <1>4 DEF Session, Box
<1>7. /\ IsTerminal(t) = IsTerminal(s) /\ Still(t) = Still(s) /\ Paused(t) = Paused(s)
      /\ Answerable(t) = Answerable(s) /\ Told(t) = Told(s)
      /\ \A g : PlayingGroup(t, g) = PlayingGroup(s, g)
  BY <1>6 DEF IsTerminal, Still, Paused, Answerable, Playing, Told, PlayingGroup
<1>8. Leased(t, "no")
  <2>1. Still(s) => timers = {}
    BY <1>1, <1>2 DEF Fits, Leased
  <2>. QED BY <1>1, <1>6, <1>7, <2>1 DEF Fits, Leased
<1>9. TimersFit(t, {id})
  BY <1>1, <1>2, <1>6 DEF Fits, TimersFit
<1>10. Waits(t) /\ AboutNext(t) /\ Learned(t) /\ FullLength(t)
  <2>1. Waits(s) /\ AboutNext(s) /\ Learned(s) /\ FullLength(s)
    BY <1>1 DEF Fits
  <2>2. Waits(t) /\ FullLength(t)
    BY <1>6, <2>1 DEF Waits, FullLength
  <2>3. AboutNext(t)
    BY <1>6, <1>7, <2>1 DEF AboutNext
  <2>4. Learned(t)
    <3>1. /\ t.groups = s.groups /\ t.learned = s.learned /\ t.current = s.current
          /\ t.over = s.over /\ Told(t) = Told(s)
      BY <1>6, <1>7
    <3>. QED BY <2>1, <3>1 DEF Learned
  <2>. QED BY <2>2, <2>3, <2>4
<1>11. Confirmed(t) /\ TimedRight(t) /\ OutRight(t)
  BY <1>1, <1>6, <1>7 DEF Fits, Confirmed, TimedRight, OutRight
<1>12. \A g : Sounds(t, g) = Sounds(s, g) /\ SoundsWhole(t, g) = SoundsWhole(s, g)
  BY <1>6 DEF Sounds, SoundsWhole
<1>13. HeardRight(t, "no")
  BY <1>1, <1>6, <1>7, <1>12 DEF Fits, HeardRight, HeardSo
<1>14. Fits(t, {id}, "no")
  BY <1>5, <1>8, <1>9, <1>10, <1>11, <1>13 DEF Fits
<1>15. Room(t) <= MaxTimers + 1
  <2>1. IsFiniteSet(s.timers) /\ Cardinality(s.timers) \in Nat
    BY <1>1, TimersAreFinite
  <2>2. Cardinality(timers) = Cardinality(s.timers) - 1
    BY <1>2, <2>1, FS_RemoveElement
  <2>3. PICK n \in {0, 1} : n = IF s.sends = {} THEN 0 ELSE 1
    OBVIOUS
  <2>4. Room(s) = Cardinality(s.timers) + n /\ Room(t) = Cardinality(timers) + n
    BY <1>6, <2>3 DEF Room
  <2>5. Room(t) = Room(s) - 1 /\ Room(s) \in Nat
    BY <2>1, <2>2, <2>3, <2>4
  <2>. QED BY <1>1, <2>5, MaxTimersAssumption
<1>16. Alike(s, t)
  BY <1>6 DEF Alike
<1>. QED BY <1>1, <1>6, <1>7, <1>14, <1>15, <1>16 DEF BoxFits, Box

\* A send stopped before has said so.
LEMMA ToldStopped ==
  ASSUME NEW s, Runs(s), NEW stopped \in SUBSET s.stopped, NEW t, t = [s EXCEPT !.stopped = stopped]
  PROVE  Runs(t) /\ t.phase = s.phase /\ t.about = s.about /\ Passes(s, t)
<1>1. /\ s \in Session /\ Fits(s, {}, "no") /\ BoxFits(s) /\ Room(s) <= MaxTimers + 2
      /\ s.over = "no"
  BY RunsDoes DEF Runs
<1>2. stopped \in SUBSET Groups
  BY <1>1 DEF Session
<1>3. t \in Session
  BY <1>1, <1>2 DEF Session
<1>4. /\ t.settings = s.settings /\ t.phase = s.phase /\ t.about = s.about
      /\ t.current = s.current /\ t.groups = s.groups /\ t.phaseTimer = s.phaseTimer
      /\ t.auto = s.auto /\ t.begun = s.begun /\ t.countdownTo = s.countdownTo
      /\ t.resume = s.resume /\ t.missed = s.missed /\ t.known = s.known
      /\ t.learned = s.learned /\ t.timers = s.timers /\ t.sends = s.sends
      /\ t.stopped = stopped /\ t.held = s.held /\ t.over = s.over
      /\ Box(t) = Box(s)
  BY <1>1 DEF Session, Box
<1>5. /\ IsTerminal(t) = IsTerminal(s) /\ Still(t) = Still(s) /\ Paused(t) = Paused(s)
      /\ Answerable(t) = Answerable(s) /\ Told(t) = Told(s)
      /\ \A g : PlayingGroup(t, g) = PlayingGroup(s, g)
  BY <1>4 DEF IsTerminal, Still, Paused, Answerable, Playing, Told, PlayingGroup
<1>6. Leased(t, "no")
  BY <1>1, <1>4, <1>5 DEF Fits, Leased
<1>7. TimersFit(t, {}) /\ Waits(t) /\ AboutNext(t) /\ Learned(t) /\ FullLength(t)
  BY <1>1, <1>4, <1>5 DEF Fits, TimersFit, Waits, AboutNext, Learned, FullLength
<1>8. Confirmed(t) /\ TimedRight(t) /\ OutRight(t)
  BY <1>1, <1>4, <1>5 DEF Fits, Confirmed, TimedRight, OutRight
<1>9. \A g : Sounds(t, g) = Sounds(s, g) /\ SoundsWhole(t, g) = SoundsWhole(s, g)
  BY <1>4 DEF Sounds, SoundsWhole
<1>10. HeardRight(t, "no")
  BY <1>1, <1>4, <1>5, <1>9 DEF Fits, HeardRight, HeardSo
<1>11. Fits(t, {}, "no")
  BY <1>3, <1>6, <1>7, <1>8, <1>10 DEF Fits
<1>12. BoxFits(t) /\ Room(t) = Room(s)
  BY <1>1, <1>4 DEF BoxFits, Room, Box
<1>13. Passes(s, t)
  <2>1. Alike(s, t)
    BY <1>4 DEF Alike
  <2>. QED BY <1>1, <2>1, AlikePasses
<1>. QED BY <1>1, <1>4, <1>11, <1>12, <1>13 DEF Runs, Kept

-----------------------------------------------------------------------------
(***************************************************************************)
(* A send, on its way.                                                     *)
(***************************************************************************)
LEMMA RunsSend ==
  ASSUME NEW s, Runs(s), NEW send \in s.sends, NEW g, g = send.of
  PROVE  /\ SendIn(s, send, g) /\ s \in Session /\ send \in SendOf /\ g \in Groups
         /\ s.phase = "playing" /\ s.about = g /\ s.sends = {send} /\ OutRight(s)
         /\ BoxFits(s) /\ Room(s) <= MaxTimers + 2 /\ Room(s) \in Nat
<1>1. SendIn(s, send, g)
  BY RunsDoes DEF SendIn
<1>2. s \in Session /\ BoxFits(s) /\ Room(s) <= MaxTimers + 2
  BY RunsDoes
<1>. QED BY <1>1, <1>2, SendIsOfNext, RoomIs

LEMMA StartsFits ==
  ASSUME NEW s, Runs(s), NEW send \in s.sends, NEW g, g = send.of,
         NEW n, n = GoesOut(s, send, g), NEW t, t = Dispatch(n, About("started", g))
  PROVE  Kept(t) /\ Passes(s, t)
<1>1. /\ SendIn(s, send, g) /\ g \in Groups /\ s.phase = "playing" /\ BoxFits(s)
      /\ Room(s) <= MaxTimers + 2
  BY RunsSend
<1>2. /\ Fits(n, {}, "restart") /\ Room(n) = Room(s) /\ Box(n) = Box(s)
      /\ \A x \in n.sends : x.of = g /\ ~x.sounded /\ ~x.lost
      /\ Alike(s, n)
  BY <1>1, GoesOutFits
<1>3. PICK e : e = About("started", g)
  OBVIOUS
<1>4. e.kind = "started" /\ e.of = g
  BY <1>3 DEF About
<1>5. ~IsTerminal(n)
  <2>1. n.phase = s.phase
    <3>1. PICK m : m = With(s, send, [send EXCEPT !.out = TRUE, !.sounded = FALSE, !.lost = FALSE])
      OBVIOUS
    <3>2. m.phase = s.phase
      BY <3>1, RunsSend DEF With, Session
    <3>3. n = [m EXCEPT !.groups[g].all = IF send.sounded THEN @ + 1 ELSE @]
      BY <3>1 DEF GoesOut
    <3>. QED BY <3>1, <3>2, <3>3, RunsSend DEF With, Session
  <2>. QED BY <1>1, <2>1 DEF IsTerminal
<1>6. Finds(n, e, {}, "restart")
  BY <1>1, <1>2, <1>4, <1>5 DEF Finds, Unsounded
<1>7. Roomy(n, e, 0)
  <2>1. Room(n) <= MaxTimers + 2 + 0
    BY <1>1, <1>2, MaxTimersAssumption
  <2>. QED BY <1>1, <1>2, <1>4, <2>1 DEF Roomy
<1>8. Comes(n, e, {}, "restart")
  BY <1>1, <1>2, <1>4, <1>6, <1>7 DEF Comes, Kinds, BoxFits, Box
<1>9. Leaves(n, e, "restart", t) /\ Hears(n, e, t)
  BY <1>3, <1>8, DispatchFits
<1>10. Passes(s, n)
  BY <1>2, RunsDoes, AlikePasses
<1>11. Passes(s, t)
  BY <1>4, <1>9, <1>10, PassesOn
<1>. QED BY <1>4, <1>9, <1>11 DEF Leaves, Left, Kept

\* What becomes of a send of s.
Misses(s, send, lost) == With(s, send, [send EXCEPT !.lost = @ \/ lost])
PlaysOut(s, send)     == SendGone(s, send, TRUE)
GivesUp(s, send)      == SendGone(s, send, FALSE)

LEMMA MissesFits ==
  ASSUME NEW s, Runs(s), NEW send \in s.sends, NEW g, g = send.of, send.out,
         NEW lost \in BOOLEAN, NEW n, n = Misses(s, send, lost),
         NEW t, t = Dispatch(n, [kind |-> "missed", of |-> g, lost |-> lost])
  PROVE  Kept(t) /\ Passes(s, t)
<1>1. /\ SendIn(s, send, g) /\ g \in Groups /\ send \in SendOf /\ s.phase = "playing"
      /\ BoxFits(s) /\ Room(s) <= MaxTimers + 2 /\ OutRight(s) /\ Room(s) \in Nat
  BY RunsSend
<1>2. PICK now : now = [send EXCEPT !.lost = @ \/ lost]
  OBVIOUS
<1>3. now \in SendOf
  BY Zenon, <1>1, <1>2 DEF SendOf
<1>4. /\ now.of = g /\ now.sounded = send.sounded
      /\ now.out => send.out
      /\ send.lost => now.lost
  BY <1>1, <1>2 DEF SendOf
<1>16. lost => now.lost
  BY <1>1, <1>2 DEF SendOf
<1>5. n = With(s, send, now)
  BY <1>2 DEF Misses
<1>6. /\ Fits(n, {}, "no") /\ Room(n) = Room(s) /\ Box(n) = Box(s) /\ n.sends = {now}
      /\ n.known = s.known /\ Stage(n) = Stage(s) /\ Alike(s, n)
  BY <1>1, <1>3, <1>4, <1>5, ChangesFits
<1>7. s.known
  BY <1>1 DEF OutRight
<1>8. MissOf(n, g, lost)
  BY <1>6, <1>7, <1>16 DEF MissOf
<1>9. PICK e : e = [kind |-> "missed", of |-> g, lost |-> lost]
  OBVIOUS
<1>10. e.kind = "missed" /\ e.of = g /\ e.lost = lost
  BY <1>9
<1>11. ~IsTerminal(n)
  BY <1>1, <1>6 DEF Stage, IsTerminal
<1>12. Finds(n, e, {}, "no")
  BY <1>1, <1>6, <1>8, <1>10, <1>11 DEF Finds
<1>13. Roomy(n, e, 0)
  <2>1. Room(n) <= MaxTimers + 2 + 0
    BY <1>1, <1>6, MaxTimersAssumption
  <2>. QED BY <1>1, <1>6, <1>10, <2>1 DEF Roomy
<1>14. Comes(n, e, {}, "no")
  BY <1>1, <1>6, <1>10, <1>12, <1>13 DEF Comes, Kinds, BoxFits, Box
<1>15. Leaves(n, e, "no", t) /\ Hears(n, e, t)
  BY <1>9, <1>14, DispatchFits
<1>17. Passes(s, n)
  BY <1>6, RunsDoes, AlikePasses
<1>18. Passes(s, t)
  BY <1>10, <1>15, <1>17, PassesOn
<1>. QED BY <1>10, <1>15, <1>18 DEF Leaves, Left, Kept

\* A group was held up on its way, or not, and what is amiss is yet to be told.
HeldOn(s, g, held) == IF held THEN Dispatch(s, About("heldUp", g)) ELSE s

LEMMA HoldsUpFits ==
  ASSUME NEW s, NEW amiss, Fits(s, {}, amiss), amiss # "claimed", ~IsTerminal(s), BoxFits(s),
         Room(s) <= MaxTimers + 2, NEW g \in Groups, NEW held \in BOOLEAN,
         NEW t, t = HeldOn(s, g, held)
  PROVE  /\ Fits(t, {}, amiss) /\ BoxFits(t) /\ ~IsTerminal(t) /\ Room(t) <= Room(s)
         /\ (t.phase = s.phase /\ t.about = s.about) \/ t.phase = "paused"
         /\ Passes(s, t)
<1>0. Room(s) \in Nat
  BY RoomIs DEF Fits
<1>1. CASE ~held
  <2>1. t = s
    BY <1>1 DEF HeldOn
  <2>. QED BY <1>0, <2>1 DEF Passes
<1>2. CASE held
  <2>1. PICK e : e = About("heldUp", g)
    OBVIOUS
  <2>2. e.kind = "heldUp" /\ e.of = g
    BY <2>1 DEF About
  <2>3. Finds(s, e, {}, amiss)
    BY <2>2 DEF Finds
  <2>4. Roomy(s, e, 0)
    <3>1. Room(s) <= MaxTimers + 2 + 0
      BY MaxTimersAssumption
    <3>. QED BY <2>2, <3>1 DEF Roomy
  <2>5. Comes(s, e, {}, amiss)
    BY <2>2, <2>3, <2>4 DEF Comes, Kinds
  <2>6. t = Dispatch(s, e)
    BY <1>2, <2>1 DEF HeldOn
  <2>7. Leaves(s, e, amiss, t) /\ Hears(s, e, t)
    BY <2>5, <2>6, DispatchFits
  <2>8. Passes(s, t)
    BY <2>2, <2>7 DEF Hears, AnsweredSo, Passes
  <2>. QED BY <2>2, <2>7, <2>8 DEF Leaves, Left
<1>. QED BY <1>1, <1>2

LEMMA EndsFits ==
  ASSUME NEW s, Runs(s), NEW send \in s.sends, NEW g, g = send.of, NEW held \in BOOLEAN,
         NEW n, n = PlaysOut(s, send),
         NEW u, u = HeldOn(n, g, held),
         NEW t, t = Dispatch(u, About("ended", g))
  PROVE  Kept(t) /\ Passes(s, t)
<1>1. /\ SendIn(s, send, g) /\ g \in Groups /\ s.phase = "playing" /\ s.about = g
      /\ BoxFits(s) /\ Room(s) <= MaxTimers + 2 /\ Room(s) \in Nat
  BY RunsSend
<1>2. /\ Fits(n, {}, "ended") /\ Room(n) = Room(s) - 1 /\ Box(n) = Box(s) /\ Stage(n) = Stage(s)
      /\ Alike(s, n)
  <2>1. PICK ended \in BOOLEAN : ended = TRUE
    OBVIOUS
  <2>2. PICK amiss : amiss = "ended"
    OBVIOUS
  <2>3. amiss = IF ended THEN "ended" ELSE "failed"
    BY <2>1, <2>2
  <2>4. n = SendGone(s, send, ended)
    BY <2>1 DEF PlaysOut
  <2>5. /\ Fits(n, {}, amiss) /\ Room(n) = Room(s) - 1 /\ Box(n) = Box(s)
        /\ Stage(n) = Stage(s) /\ Alike(s, n)
    BY <1>1, <2>3, <2>4, GoneFits
  <2>. QED BY <2>2, <2>5
<1>3. n.phase = "playing" /\ n.about = g /\ ~IsTerminal(n) /\ BoxFits(n)
  BY <1>1, <1>2 DEF Stage, Box, BoxFits, IsTerminal
<1>4. Room(n) <= MaxTimers + 1 /\ Room(n) <= MaxTimers + 2 /\ Room(n) \in Nat
  <2>1. Room(n) \in Nat
    BY <1>2, RoomIs DEF Fits
  <2>2. Room(n) = Room(s) - 1 /\ Room(s) <= MaxTimers + 2 /\ Room(s) \in Nat
    BY <1>1, <1>2
  <2>. QED BY <2>1, <2>2, MaxTimersAssumption
<1>5. /\ Fits(u, {}, "ended") /\ BoxFits(u) /\ ~IsTerminal(u) /\ Room(u) <= Room(n)
      /\ (u.phase = n.phase /\ u.about = n.about) \/ u.phase = "paused"
      /\ Passes(n, u)
  <2>1. PICK amiss : amiss = "ended"
    OBVIOUS
  <2>2. Fits(n, {}, amiss) /\ amiss # "claimed"
    BY <1>2, <2>1
  <2>3. /\ Fits(u, {}, amiss) /\ BoxFits(u) /\ ~IsTerminal(u) /\ Room(u) <= Room(n)
        /\ (u.phase = n.phase /\ u.about = n.about) \/ u.phase = "paused"
        /\ Passes(n, u)
    BY <1>1, <1>3, <1>4, <2>2, HoldsUpFits
  <2>. QED BY <2>1, <2>3
<1>6. HasEnded(u, g)
  BY <1>1, <1>3, <1>5 DEF HasEnded
<1>7. PICK e : e = About("ended", g)
  OBVIOUS
<1>8. e.kind = "ended" /\ e.of = g
  BY <1>7 DEF About
<1>9. Finds(u, e, {}, "ended")
  BY <1>5, <1>6, <1>8 DEF Finds
<1>10. Roomy(u, e, 0)
  <2>1. Room(u) \in Nat
    BY <1>5, RoomIs DEF Fits
  <2>3. Room(u) <= Room(n) /\ Room(n) <= MaxTimers + 1 /\ Room(n) \in Nat
    BY <1>4, <1>5
  <2>2. Room(u) <= MaxTimers + 1 /\ Room(u) <= MaxTimers + 2 /\ Room(u) <= MaxTimers + 2 + 0
    BY <2>1, <2>3, MaxTimersAssumption
  <2>. QED BY <1>8, <2>2 DEF Roomy
<1>11. Comes(u, e, {}, "ended")
  BY <1>5, <1>8, <1>9, <1>10 DEF Comes, Kinds
<1>12. Leaves(u, e, "ended", t) /\ Hears(u, e, t)
  BY <1>7, <1>11, DispatchFits
<1>13. Passes(s, n)
  BY <1>2, RunsDoes, AlikePasses
<1>14. Passes(s, u)
  BY <1>5, <1>13 DEF Passes
<1>15. Passes(s, t)
  BY <1>8, <1>12, <1>14, PassesOn
<1>. QED BY <1>8, <1>12, <1>15 DEF Leaves, Left, Kept

\* That a group's sound stopped for good, be it the one being sent or not.
LEMMA StopsFits ==
  ASSUME NEW s, NEW amiss, NEW g, Fits(s, {}, amiss), amiss # "claimed", HasStopped(s, g, amiss),
         ~IsTerminal(s), BoxFits(s), Room(s) <= MaxTimers + 2,
         NEW t, t = Dispatch(s, About("stopped", g))
  PROVE  Kept(t) /\ Passes(s, t)
<1>1. PICK e : e = About("stopped", g)
  OBVIOUS
<1>2. e.kind = "stopped" /\ e.of = g
  BY <1>1 DEF About
<1>3. Finds(s, e, {}, amiss)
  BY <1>2 DEF Finds
<1>4. Roomy(s, e, 0)
  <2>1. Room(s) <= MaxTimers + 2 + 0
    BY MaxTimersAssumption
  <2>. QED BY <1>2, <2>1 DEF Roomy
<1>5. Comes(s, e, {}, amiss)
  BY <1>2, <1>3, <1>4 DEF Comes, Kinds
<1>6. Leaves(s, e, amiss, t) /\ Hears(s, e, t)
  BY <1>1, <1>5, DispatchFits
<1>7. Passes(s, t)
  BY <1>2, <1>6 DEF Hears, AnsweredSo, Passes
<1>. QED BY <1>2, <1>6, <1>7 DEF Leaves, Left, Kept

LEMMA FailsFits ==
  ASSUME NEW s, Runs(s), NEW send \in s.sends, NEW g, g = send.of,
         NEW n, n = GivesUp(s, send), NEW t, t = Dispatch(n, About("stopped", g))
  PROVE  Kept(t) /\ Passes(s, t)
<1>1. /\ SendIn(s, send, g) /\ g \in Groups /\ s.phase = "playing" /\ s.about = g
      /\ BoxFits(s) /\ Room(s) <= MaxTimers + 2 /\ Room(s) \in Nat
  BY RunsSend
<1>2. PICK ended \in BOOLEAN : ended = FALSE
  OBVIOUS
<1>3. PICK amiss : amiss = "failed"
  OBVIOUS
<1>4. amiss = IF ended THEN "ended" ELSE "failed"
  BY <1>2, <1>3
<1>5. n = SendGone(s, send, ended)
  BY <1>2 DEF GivesUp
<1>6. /\ Fits(n, {}, amiss) /\ Room(n) = Room(s) - 1 /\ Box(n) = Box(s) /\ Stage(n) = Stage(s)
      /\ Alike(s, n)
  BY <1>1, <1>4, <1>5, GoneFits
<1>7. n.phase = "playing" /\ n.about = g /\ ~IsTerminal(n) /\ BoxFits(n)
  BY <1>1, <1>6 DEF Stage, Box, BoxFits, IsTerminal
<1>8. HasStopped(n, g, amiss) /\ amiss # "claimed"
  BY <1>3, <1>7 DEF HasStopped
<1>9. Room(n) <= MaxTimers + 2
  <2>1. Room(n) \in Nat
    BY <1>6, RoomIs DEF Fits
  <2>2. Room(n) = Room(s) - 1 /\ Room(s) <= MaxTimers + 2 /\ Room(s) \in Nat
    BY <1>1, <1>6
  <2>. QED BY <2>1, <2>2, MaxTimersAssumption
<1>10. Passes(s, n)
  BY <1>6, RunsDoes, AlikePasses
<1>11. Kept(t) /\ Passes(n, t)
  BY <1>6, <1>7, <1>8, <1>9, StopsFits
<1>. QED BY <1>10, <1>11 DEF Passes

\* One that failed is tried again.
LEMMA RetriesFits ==
  ASSUME NEW s, Runs(s), NEW send \in s.sends,
         NEW t, t = With(s, send, [send EXCEPT !.out = FALSE, !.tries = @ + 1])
  PROVE  Kept(t) /\ Passes(s, t)
<1>1. PICK g : g = send.of
  OBVIOUS
<1>2. /\ SendIn(s, send, g) /\ send \in SendOf /\ BoxFits(s) /\ Room(s) <= MaxTimers + 2
  BY <1>1, RunsSend
<1>3. PICK tries \in Nat : tries = send.tries + 1
  BY <1>2 DEF SendOf
<1>4. PICK now : now = [send EXCEPT !.out = FALSE, !.tries = tries]
  OBVIOUS
<1>5. now \in SendOf
  BY <1>2, <1>4 DEF SendOf
<1>6. /\ now.of = g /\ now.sounded = send.sounded /\ now.lost = send.lost /\ ~now.out
  BY <1>1, <1>2, <1>4 DEF SendOf
<1>7. t = With(s, send, now)
  BY <1>3, <1>4
<1>8. Fits(t, {}, "no") /\ Room(t) = Room(s) /\ Box(t) = Box(s) /\ Alike(s, t)
  BY <1>2, <1>5, <1>6, <1>7, ChangesFits
<1>9. Passes(s, t)
  BY <1>8, RunsDoes, AlikePasses
<1>. QED BY <1>2, <1>8, <1>9 DEF Kept, BoxFits, Box

\* Its first character sounds.
LEMMA FirstFits ==
  ASSUME NEW s, Runs(s), NEW send \in s.sends, NEW g, g = send.of, ~send.sounded,
         send.out \/ s.groups[g].sending = "silent",
         NEW t, t = SoundsFirst(s, send, g)
  PROVE  Kept(t) /\ Passes(s, t)
<1>1. /\ SendIn(s, send, g) /\ BoxFits(s) /\ Room(s) <= MaxTimers + 2
  BY RunsSend
<1>2. Fits(t, {}, "no") /\ Room(t) = Room(s) /\ Box(t) = Box(s) /\ Alike(s, t)
  BY <1>1, SoundsFits
<1>3. Passes(s, t)
  BY <1>2, RunsDoes, AlikePasses
<1>. QED BY <1>1, <1>2, <1>3 DEF Kept, BoxFits, Box

\* A send stopped before was of a group that is answered, or the session rests.
LEMMA StoppedIsPast ==
  ASSUME NEW s, Runs(s), NEW g \in s.stopped
  PROVE  g \in Groups /\ ~PlayingGroup(s, g)
<1>1. s \in Session /\ Fits(s, {}, "no")
  BY RunsDoes
<1>2. g \in Groups
  BY <1>1 DEF Session
<1>3. ASSUME PlayingGroup(s, g) PROVE FALSE
  <2>1. Answerable(s) /\ s.about = g
    BY <1>3 DEF PlayingGroup, Answerable, Playing
  <2>2. ~s.groups[g].done /\ ~Still(s)
    BY <1>1, <2>1, NextIsCurrent
  <2>. QED BY <1>1, <2>2 DEF Fits, Leased
<1>. QED BY <1>2, <1>3

-----------------------------------------------------------------------------
(***************************************************************************)
(* Every action keeps the invariant.                                       *)
(***************************************************************************)
\* Nothing is answered, or the next group is, with what its box may hold.
MayHold(s) == IF Live(s) THEN Grown(s) ELSE {s.text}

ClosesRight(s, t) ==
  \/ t.learned = s.learned
  \/ Told(t) = Told(s) + 1 /\ t.groups[Told(s)].input \in MayHold(s)

\* While the app is never held back.
Goes(s, t) == BoxHeard(s) /\ "gaps" \notin Happens => BoxHeard(t) /\ ClosesRight(s, t)

LEMMA PassesGoes ==
  ASSUME NEW s, NEW t, Passes(s, t)
  PROVE  Goes(s, t)
BY DEF Passes, Goes, ClosesRight

LEMMA EntryInBox ==
  ASSUME NEW s, NEW a \in Grown(s)
  PROVE  EntryOf(s, a) \in MayHold(s) /\ (EntryOf(s, a) = "none" => s.text = "none")
<1>1. CASE s.letter = "keyed" /\ Live(s)
  <2>1. a \in Whole \cup {"uneven"}
    BY <1>1 DEF Grown, Longer
  <2>2. a # "none"
    BY <2>1, WholeAssumption
  <2>. QED BY <1>1, <2>2 DEF EntryOf, MayHold
<1>2. CASE ~(s.letter = "keyed" /\ Live(s))
  BY <1>2 DEF EntryOf, MayHold, Grown
<1>. QED BY <1>1, <1>2

\* The answer is confirmed, or the session is ended by its learner.
LEMMA ClosesFits ==
  ASSUME NEW s, Runs(s), NEW a \in Answers, a \in Grown(s),
         NEW e, e.kind \in {"confirm", "finish"}, e.grown = a,
         e.kind = "confirm" => Cardinality(s.timers) <= MaxTimers,
         NEW t, t = Dispatch(s, e)
  PROVE  /\ Kept(t) /\ Goes(s, t)
         /\ BoxHeard(s) /\ e.kind = "finish" /\ t.over = "home" => Told(s) = 0 /\ s.text = "none"
<1>1. Kept(t) /\ Hears(s, e, t)
  BY TellFits
<1>2. EntryOf(s, a) \in MayHold(s) /\ (EntryOf(s, a) = "none" => s.text = "none")
  BY EntryInBox
<1>3. ASSUME BoxHeard(s) PROVE BoxHeard(t) /\ AnsweredSo(s, e, t)
  BY <1>1, <1>3 DEF Hears
<1>4. Goes(s, t)
  BY <1>2, <1>3 DEF Goes, ClosesRight, AnsweredSo
<1>5. ASSUME BoxHeard(s), e.kind = "finish", t.over = "home" PROVE Told(s) = 0 /\ s.text = "none"
  BY <1>2, <1>3, <1>5 DEF AnsweredSo
<1>. QED BY <1>1, <1>4, <1>5

\* A timer runs out.
LEMMA FiresFits ==
  ASSUME NEW s, Runs(s), NEW id \in s.timers,
         NEW t, t = Dispatch([s EXCEPT !.timers = @ \ {id}], [kind |-> "timer", id |-> id])
  PROVE  /\ Kept(t) /\ Goes(s, t)
         /\ BoxHeard(s) => t.learned = s.learned \/ (s.letter = "none" /\ s.text # "uneven")
<1>1. PICK e : e = [kind |-> "timer", id |-> id]
  OBVIOUS
<1>2. PICK n : n = [s EXCEPT !.timers = @ \ {id}]
  OBVIOUS
<1>3. t = Dispatch(n, e) /\ e.kind = "timer" /\ e.id = id
  BY <1>1, <1>2
<1>4. /\ Fits(n, {id}, "no") /\ BoxFits(n) /\ Room(n) <= MaxTimers + 1 /\ ~IsTerminal(n)
      /\ Alike(s, n)
  BY <1>2, RingFits
<1>0. id \in TimerIds
  BY RunsDoes DEF Session
<1>5. Finds(n, e, {id}, "no")
  BY <1>0, <1>3, <1>4 DEF Finds
<1>6. Roomy(n, e, 0)
  <2>1. Room(n) \in Nat
    BY <1>4, RoomIs DEF Fits
  <2>2. Room(n) <= MaxTimers + 1
    BY <1>4
  <2>3. Room(n) <= MaxTimers + 2 /\ Room(n) <= MaxTimers + 2 + 0
    BY <2>1, <2>2, MaxTimersAssumption
  <2>. QED BY <1>3, <2>2, <2>3 DEF Roomy
<1>7. Comes(n, e, {id}, "no")
  BY <1>3, <1>4, <1>5, <1>6 DEF Comes, Kinds
<1>8. Leaves(n, e, "no", t) /\ Hears(n, e, t)
  BY <1>3, <1>7, DispatchFits
<1>9. /\ BoxHeard(s) => BoxHeard(n)
      /\ n.learned = s.learned /\ Told(n) = Told(s) /\ n.letter = s.letter /\ n.text = s.text
  BY <1>4, RunsDoes, AlikeHears
<1>10. ASSUME BoxHeard(s)
       PROVE  /\ BoxHeard(t)
              /\ \/ t.learned = s.learned
                 \/ /\ s.letter = "none" /\ s.text # "uneven"
                    /\ Told(t) = Told(s) + 1 /\ t.groups[Told(s)].input = s.text
  BY <1>3, <1>8, <1>9, <1>10 DEF Hears, AnsweredSo
<1>11. s.letter = "none" => MayHold(s) = {s.text}
  BY DEF MayHold, Grown
<1>12. Goes(s, t)
  BY <1>10, <1>11 DEF Goes, ClosesRight
<1>. QED BY <1>3, <1>8, <1>10, <1>12 DEF Leaves, Left, Kept

LEMMA LearnerActs ==
  ASSUME NEW a \in Answers
  PROVE  Runs(session) /\ (Types(a) \/ Confirms(a) \/ Finishes(a)) => Kept(session') /\ Goes(session, session')
<1>. SUFFICES ASSUME Runs(session), Types(a) \/ Confirms(a) \/ Finishes(a)
             PROVE  Kept(session') /\ Goes(session, session')
  OBVIOUS
<1>1. CASE Types(a)
  <2>1. session' = Edit(session, a) /\ Cardinality(session.timers) <= MaxTimers /\ Live(session)
    BY <1>1 DEF Types, CanAct
  <2>2. /\ Kept(session')
        /\ ~session.away => BoxHeard(session') /\ session'.learned = session.learned
    BY <2>1, EditFits
  <2>. QED BY <2>2 DEF Goes, ClosesRight, BoxHeard
<1>2. CASE Confirms(a)
  <2>1. PICK e : e = [kind |-> "confirm", grown |-> a]
    OBVIOUS
  <2>2. /\ session' = Dispatch(session, e) /\ Cardinality(session.timers) <= MaxTimers
        /\ a \in Grown(session)
    BY <1>2, <2>1 DEF Confirms, CanAct
  <2>3. e.kind = "confirm" /\ e.grown = a
    BY <2>1
  <2>. QED BY <2>2, <2>3, ClosesFits
<1>3. CASE Finishes(a)
  <2>1. PICK e : e = [kind |-> "finish", grown |-> a]
    OBVIOUS
  <2>2. session' = Dispatch(session, e) /\ a \in Grown(session)
    BY <1>3, <2>1 DEF Finishes
  <2>3. e.kind = "finish" /\ e.grown = a
    BY <2>1
  <2>. QED BY <2>2, <2>3, ClosesFits
<1>. QED BY <1>1, <1>2, <1>3

LEMMA BoxActs ==
  Runs(session) /\ (HandsOver \/ Keys \/ LetterLands) => Kept(session') /\ Goes(session, session')
<1>. SUFFICES ASSUME Runs(session), HandsOver \/ Keys \/ LetterLands
             PROVE  Kept(session') /\ Goes(session, session')
  OBVIOUS
<1>1. /\ session \in Session /\ Fits(session, {}, "no") /\ BoxFits(session)
      /\ Room(session) <= MaxTimers + 2 /\ session.over = "no"
  BY RunsDoes DEF Runs
<1>2. /\ session.letter \in Letters /\ session.fresh \in BOOLEAN
      /\ session.away \in BOOLEAN
  BY <1>1 DEF Session, Letters
<1>3. ASSUME NEW letter \in Letters, NEW t, t = [session EXCEPT !.letter = letter]
      PROVE  /\ Runs(t) /\ t.timers = session.timers /\ t.text = session.text
             /\ t.learned = session.learned /\ Live(t) = Live(session) /\ t.away = session.away
             /\ BoxHeard(session) => BoxHeard(t)
  <2>1. PICK fresh \in BOOLEAN : fresh = session.fresh
    BY <1>2
  <2>2. PICK away \in BOOLEAN : away = session.away
    BY <1>2
  <2>3. t = Unseen(session, letter, fresh, away)
    BY <1>1, <1>3, <2>1, <2>2 DEF Session, Unseen
  <2>4. BoxHeard(session) => ~away
    BY <2>2 DEF BoxHeard
  <2>. QED BY <2>2, <2>3, <2>4, UnseenFits
<1>4. CASE HandsOver
  <2>1. session' = HandOver(session) /\ session.text \notin Whole /\ session.waiting
    BY <1>1, <1>4 DEF HandsOver, BoxFits
  <2>2. /\ Kept(session')
        /\ Live(session) /\ ~session.away => BoxHeard(session') /\ session'.learned = session.learned
    BY <1>1, <2>1, HandOverFits
  <2>. QED BY <2>1, <2>2 DEF Goes, ClosesRight, BoxHeard
<1>5. CASE Keys
  <2>1. PICK letter \in Letters : session' = [session EXCEPT !.letter = letter]
    BY <1>5 DEF Keys, Letters
  <2>2. /\ Runs(session') /\ session'.learned = session.learned
        /\ BoxHeard(session) => BoxHeard(session')
    BY <1>3, <2>1
  <2>. QED BY <2>2 DEF Runs, Goes, ClosesRight
<1>6. CASE LetterLands
  <2>1. PICK n : n = [session EXCEPT !.letter = "none"]
    OBVIOUS
  <2>2. /\ Runs(n) /\ n.timers = session.timers
        /\ n.learned = session.learned /\ Live(n) = Live(session) /\ n.away = session.away
        /\ BoxHeard(session) => BoxHeard(n)
    BY <1>3, <2>1 DEF Letters
  <2>3. Cardinality(n.timers) <= MaxTimers
    BY <1>6, <2>2 DEF LetterLands, CanAct
  <2>4. \/ Live(session) /\ \E a \in Longer(session.text) : session' = Edit(n, a)
        \/ session' = n
    BY <1>6, <2>1 DEF LetterLands
  <2>5. CASE session' = n
    BY <2>2, <2>5 DEF Runs, Goes, ClosesRight
  <2>6. CASE Live(session) /\ \E a \in Longer(session.text) : session' = Edit(n, a)
    <3>1. PICK a \in Longer(session.text) : session' = Edit(n, a)
      BY <2>6
    <3>2. a \in Answers
      <4>1. Longer(session.text) \subseteq Whole \cup {"uneven"}
        BY DEF Longer
      <4>. QED BY <3>1, <4>1 DEF Answers
    <3>3. /\ Kept(session')
          /\ Live(n) /\ ~n.away => BoxHeard(session') /\ session'.learned = n.learned
      BY <2>2, <2>3, <3>1, <3>2, EditFits
    <3>. QED BY <2>2, <2>6, <3>3 DEF Goes, ClosesRight, BoxHeard
  <2>. QED BY <2>4, <2>5, <2>6
<1>. QED BY <1>4, <1>5, <1>6

LEMMA SessionActs ==
  Runs(session) /\ (Discards \/ Pauses \/ Resumes) => Kept(session') /\ Goes(session, session')
<1>. SUFFICES ASSUME Runs(session), Discards \/ Pauses \/ Resumes
             PROVE  Kept(session') /\ Goes(session, session')
  OBVIOUS
<1>1. /\ session \in Session /\ Fits(session, {}, "no") /\ BoxFits(session)
      /\ Room(session) <= MaxTimers + 2
  BY RunsDoes
<1>2. CASE Discards
  <2>1. PICK e : e = Event("abort")
    OBVIOUS
  <2>2. session' = Dispatch(session, e) /\ e.kind = "abort"
    BY <1>2, <2>1 DEF Discards, Event
  <2>3. Kept(session') /\ Hears(session, e, session')
    BY <2>2, TellFits
  <2>4. Passes(session, session')
    BY <2>2, <2>3 DEF Hears, AnsweredSo, Passes
  <2>. QED BY <2>3, <2>4, PassesGoes
<1>3. CASE Pauses
  <2>1. PICK e : e = Event("pause")
    OBVIOUS
  <2>2. session' = Dispatch(session, e) /\ e.kind = "pause"
    BY <1>3, <2>1 DEF Pauses, Event
  <2>3. Kept(session') /\ Hears(session, e, session')
    BY <2>2, TellFits
  <2>4. Passes(session, session')
    BY <2>2, <2>3 DEF Hears, AnsweredSo, Passes
  <2>. QED BY <2>3, <2>4, PassesGoes
<1>4. CASE Resumes
  <2>1. PICK e : e = Event("resume")
    OBVIOUS
  <2>2. PICK n : n = [session EXCEPT !.held = TRUE, !.stopped = {}]
    OBVIOUS
  <2>3. session' = Dispatch(n, e) /\ e.kind = "resume" /\ Paused(session)
    BY <1>4, <2>1, <2>2 DEF Resumes, Event
  <2>4. /\ Claimed(n) /\ BoxFits(n) /\ Room(n) = Room(session) /\ ~IsTerminal(n)
        /\ Passes(session, n)
    BY <2>2, <2>3, ClaimFits
  <2>5. Finds(n, e, {}, "claimed")
    BY <2>3, <2>4 DEF Finds, Claimed
  <2>6. Roomy(n, e, 0)
    <3>1. Room(n) <= MaxTimers + 2 + 0 /\ Room(n) <= MaxTimers + 2
      BY <1>1, <2>4, MaxTimersAssumption
    <3>. QED BY <2>3, <3>1 DEF Roomy
  <2>7. Comes(n, e, {}, "claimed")
    BY <2>3, <2>4, <2>5, <2>6 DEF Comes, Kinds
  <2>8. Leaves(n, e, "claimed", session') /\ Hears(n, e, session')
    BY <2>3, <2>7, DispatchFits
  <2>9. Passes(session, session')
    BY <2>3, <2>4, <2>8, PassesOn
  <2>. QED BY <2>3, <2>8, <2>9, PassesGoes DEF Leaves, Left, Kept
<1>. QED BY <1>2, <1>3, <1>4

LEMMA TimeActs ==
  Runs(session) /\ ((\E id \in TimerIds : TimerFires(id)) \/ TimePasses \/ HeldBack \/ Beats) => Kept(session') /\ Goes(session, session')
<1>. SUFFICES ASSUME Runs(session), (\E id \in TimerIds : TimerFires(id)) \/ TimePasses \/ HeldBack \/ Beats
             PROVE  Kept(session') /\ Goes(session, session')
  OBVIOUS
<1>1. /\ session \in Session /\ Fits(session, {}, "no") /\ BoxFits(session)
      /\ Room(session) <= MaxTimers + 2 /\ ~IsTerminal(session)
  BY RunsDoes
<1>2. /\ session.letter \in Letters /\ session.fresh \in BOOLEAN
      /\ session.away \in BOOLEAN
  BY <1>1 DEF Session, Letters
<1>3. CASE \E id \in TimerIds : TimerFires(id)
  <2>1. PICK id \in TimerIds : TimerFires(id)
    BY <1>3
  <2>2. /\ id \in session.timers
        /\ session' = Dispatch([session EXCEPT !.timers = @ \ {id}], [kind |-> "timer", id |-> id])
    BY <2>1 DEF TimerFires
  <2>. QED BY <2>2, FiresFits
<1>4. CASE TimePasses
  <2>1. PICK fresh \in BOOLEAN : fresh = FALSE
    OBVIOUS
  <2>2. session' = [session EXCEPT !.fresh = FALSE]
    BY <1>4 DEF TimePasses
  <2>3. session' = Unseen(session, session.letter, fresh, session.away)
    BY <1>1, <2>1, <2>2 DEF Session, Unseen
  <2>4. PICK away \in BOOLEAN : away = session.away
    BY <1>2
  <2>5. PICK letter \in Letters : letter = session.letter
    BY <1>2
  <2>6. session' = Unseen(session, letter, fresh, away)
    BY <2>3, <2>4, <2>5
  <2>7. /\ Runs(session') /\ session'.learned = session.learned
        /\ BoxHeard(session) /\ ~away => BoxHeard(session')
    BY <2>6, UnseenFits
  <2>. QED BY <2>4, <2>7 DEF Runs, Goes, ClosesRight, BoxHeard
<1>5. CASE HeldBack
  <2>1. PICK away \in BOOLEAN : away = TRUE
    OBVIOUS
  <2>2. session' = [session EXCEPT !.away = TRUE]
    BY <1>5 DEF HeldBack
  <2>3. session' = Unseen(session, session.letter, session.fresh, away)
    BY <1>1, <2>1, <2>2 DEF Session, Unseen
  <2>4. Runs(session')
    BY <1>2, <2>3, UnseenFits
  <2>. QED BY <1>5, <2>4 DEF Runs, Goes, HeldBack
<1>6. CASE Beats
  <2>1. PICK e : e = Event("pause")
    OBVIOUS
  <2>2. session' = PauseIfAway(session) /\ e.kind = "pause"
    BY <1>6, <2>1 DEF Beats, Event
  <2>3. Finds(session, e, {}, "no")
    BY <1>1, <2>2 DEF Finds
  <2>4. Finds(session', e, {}, "no") /\ BoxFits(session') /\ Room(session') <= Room(session)
    BY <1>1, <2>2, <2>3, HereFits
  <2>5. Fits(session', {}, "no") /\ session' \in Session
    BY <2>4 DEF Finds, Fits
  <2>6. Room(session') \in Nat /\ Room(session) \in Nat
    BY <1>1, <2>5, RoomIs
  <2>7. Room(session') <= MaxTimers + 2
    BY <1>1, <2>4, <2>6, MaxTimersAssumption
  <2>. QED BY <1>6, <2>4, <2>5, <2>7 DEF Kept, Goes, Beats, BoxHeard
<1>. QED BY <1>3, <1>4, <1>5, <1>6

LEMMA SendActs ==
  Runs(session) /\ (SendStarts \/ FirstSounds \/ SendMisses \/ SendEnds \/ SendFails) => Kept(session') /\ Goes(session, session')
<1>. SUFFICES ASSUME Runs(session), SendStarts \/ FirstSounds \/ SendMisses \/ SendEnds \/ SendFails
             PROVE  Kept(session') /\ Goes(session, session')
  OBVIOUS
<1>1. CASE SendStarts
  <2>1. PICK send \in session.sends : session' = Dispatch(
            [With(session, send, [send EXCEPT !.out = TRUE, !.sounded = FALSE, !.lost = FALSE])
               EXCEPT !.groups[send.of].all = IF send.sounded THEN @ + 1 ELSE @],
            About("started", send.of))
    BY <1>1 DEF SendStarts
  <2>2. PICK n : n = GoesOut(session, send, send.of)
    OBVIOUS
  <2>3. session' = Dispatch(n, About("started", send.of))
    BY <2>1, <2>2 DEF GoesOut
  <2>. QED BY <2>2, <2>3, StartsFits, PassesGoes
<1>2. CASE FirstSounds
  <2>1. PICK send \in session.sends :
          /\ send.out \/ session.groups[send.of].sending = "silent"
          /\ ~send.sounded
          /\ session' = [With(session, send, [send EXCEPT !.sounded = TRUE]) EXCEPT
               !.groups[send.of].sending = IF @ = "silent" THEN "sounded" ELSE @]
    BY <1>2 DEF FirstSounds
  <2>2. session' = SoundsFirst(session, send, send.of)
    BY <2>1 DEF SoundsFirst
  <2>. QED BY <2>1, <2>2, FirstFits, PassesGoes
<1>3. CASE SendMisses
  <2>1. PICK send \in session.sends, lost \in BOOLEAN :
          /\ send.out
          /\ session' = Dispatch(With(session, send, [send EXCEPT !.lost = @ \/ lost]),
                                 [kind |-> "missed", of |-> send.of, lost |-> lost])
    BY <1>3 DEF SendMisses
  <2>2. PICK n : n = Misses(session, send, lost)
    OBVIOUS
  <2>3. session' = Dispatch(n, [kind |-> "missed", of |-> send.of, lost |-> lost])
    BY <2>1, <2>2 DEF Misses
  <2>. QED BY <2>1, <2>2, <2>3, MissesFits, PassesGoes
<1>4. CASE SendEnds
  <2>1. PICK send \in session.sends, held \in BOOLEAN :
          LET gone == SendGone(session, send, TRUE)
              told == IF held THEN Dispatch(gone, About("heldUp", send.of)) ELSE gone
          IN  session' = Dispatch(told, About("ended", send.of))
    BY <1>4 DEF SendEnds
  <2>2. PICK n : n = PlaysOut(session, send)
    OBVIOUS
  <2>3. PICK u : u = HeldOn(n, send.of, held)
    OBVIOUS
  <2>4. session' = Dispatch(u, About("ended", send.of))
    BY <2>1, <2>2, <2>3 DEF PlaysOut, HeldOn
  <2>. QED BY <2>2, <2>3, <2>4, EndsFits, PassesGoes
<1>5. CASE SendFails
  <2>1. PICK send \in session.sends :
          session' = IF send.tries < SEND_ATTEMPTS
                     THEN With(session, send, [send EXCEPT !.out = FALSE, !.tries = @ + 1])
                     ELSE Dispatch(SendGone(session, send, FALSE), About("stopped", send.of))
    BY <1>5 DEF SendFails
  <2>2. CASE session' = With(session, send, [send EXCEPT !.out = FALSE, !.tries = @ + 1])
    BY <2>2, RetriesFits, PassesGoes
  <2>3. CASE session' = Dispatch(SendGone(session, send, FALSE), About("stopped", send.of))
    <3>1. PICK n : n = GivesUp(session, send)
      OBVIOUS
    <3>2. session' = Dispatch(n, About("stopped", send.of))
      BY <2>3, <3>1 DEF GivesUp
    <3>. QED BY <3>1, <3>2, FailsFits, PassesGoes
  <2>. QED BY <2>1, <2>2, <2>3
<1>. QED BY <1>1, <1>2, <1>3, <1>4, <1>5

LEMMA StopActs ==
  Runs(session) /\ (StoppedReports) => Kept(session') /\ Goes(session, session')
<1>. SUFFICES ASSUME Runs(session), StoppedReports
             PROVE  Kept(session') /\ Goes(session, session')
  OBVIOUS
<1>1. PICK g \in session.stopped :
       \/ \E held \in BOOLEAN :
            LET gone == [session EXCEPT !.stopped = @ \ {g}]
                told == IF held THEN Dispatch(gone, About("heldUp", g)) ELSE gone
            IN  session' = Dispatch(told, About("stopped", g))
       \/ \E lost \in BOOLEAN :
            session' = Dispatch(session, [kind |-> "missed", of |-> g, lost |-> lost])
  BY DEF StoppedReports
<1>2. g \in Groups /\ ~PlayingGroup(session, g)
  BY StoppedIsPast
<1>3. /\ session \in Session /\ Fits(session, {}, "no") /\ BoxFits(session)
      /\ Room(session) <= MaxTimers + 2 /\ ~IsTerminal(session)
  BY RunsDoes
<1>4. ASSUME NEW held \in BOOLEAN,
             session' = Dispatch(HeldOn([session EXCEPT !.stopped = @ \ {g}], g, held),
                                 About("stopped", g))
      PROVE  Kept(session') /\ Goes(session, session')
  <2>1. PICK stopped : stopped = session.stopped \ {g}
    OBVIOUS
  <2>2. PICK n : n = [session EXCEPT !.stopped = stopped]
    OBVIOUS
  <2>3. stopped \in SUBSET session.stopped
    BY <2>1
  <2>4. Runs(n) /\ n.phase = session.phase /\ n.about = session.about /\ Passes(session, n)
    BY <2>2, <2>3, ToldStopped
  <2>5. /\ Fits(n, {}, "no") /\ BoxFits(n) /\ ~IsTerminal(n) /\ Room(n) <= MaxTimers + 2
        /\ n \in Session
    BY <2>4, RunsDoes
  <2>6. PICK amiss : amiss = "no"
    OBVIOUS
  <2>7. PICK u : u = HeldOn(n, g, held)
    OBVIOUS
  <2>8. session' = Dispatch(u, About("stopped", g))
    BY <1>4, <2>1, <2>2, <2>7
  <2>9. Fits(n, {}, amiss) /\ amiss # "claimed"
    BY <2>5, <2>6
  <2>10. /\ Fits(u, {}, amiss) /\ BoxFits(u) /\ ~IsTerminal(u) /\ Room(u) <= Room(n)
         /\ (u.phase = n.phase /\ u.about = n.about) \/ u.phase = "paused"
         /\ Passes(n, u)
    BY <1>2, <2>5, <2>7, <2>9, HoldsUpFits
  <2>11. HasStopped(u, g, amiss)
    BY <1>2, <2>4, <2>6, <2>10 DEF HasStopped, PlayingGroup
  <2>12. Room(u) <= MaxTimers + 2
    <3>1. Room(u) \in Nat /\ Room(n) \in Nat
      BY <2>5, <2>10, RoomIs DEF Fits
    <3>2. Room(u) <= Room(n) /\ Room(n) <= MaxTimers + 2
      BY <2>5, <2>10
    <3>. QED BY <3>1, <3>2, MaxTimersAssumption
  <2>13. Kept(session') /\ Passes(u, session')
    BY <2>8, <2>9, <2>10, <2>11, <2>12, StopsFits
  <2>14. Passes(session, session')
    BY <2>4, <2>10, <2>13 DEF Passes
  <2>. QED BY <2>13, <2>14, PassesGoes
<1>5. ASSUME NEW lost \in BOOLEAN,
             session' = Dispatch(session, [kind |-> "missed", of |-> g, lost |-> lost])
      PROVE  Kept(session') /\ Goes(session, session')
  <2>1. PICK e : e = [kind |-> "missed", of |-> g, lost |-> lost]
    OBVIOUS
  <2>2. e.kind = "missed" /\ e.of = g /\ e.lost = lost
    BY <2>1
  <2>3. MissOf(session, g, lost)
    BY <1>2 DEF MissOf
  <2>4. Finds(session, e, {}, "no")
    BY <1>2, <1>3, <2>2, <2>3 DEF Finds
  <2>5. Roomy(session, e, 0)
    <3>1. Room(session) <= MaxTimers + 2 + 0
      BY <1>3, MaxTimersAssumption
    <3>. QED BY <1>3, <2>2, <3>1 DEF Roomy
  <2>6. Comes(session, e, {}, "no")
    BY <1>3, <2>2, <2>4, <2>5 DEF Comes, Kinds
  <2>7. session' = Dispatch(session, e)
    BY <1>5, <2>1
  <2>8. Leaves(session, e, "no", session') /\ Hears(session, e, session')
    BY <2>6, <2>7, DispatchFits
  <2>9. Passes(session, session')
    BY <2>2, <2>8 DEF Hears, AnsweredSo, Passes
  <2>. QED BY <2>2, <2>8, <2>9, PassesGoes DEF Leaves, Left, Kept
<1>. QED BY <1>1, <1>4, <1>5 DEF HeldOn

-----------------------------------------------------------------------------
(***************************************************************************)
(* The invariant.                                                          *)
(***************************************************************************)
LEMMA StartFits ==
  ASSUME NEW settings \in Settings, NEW t, t = Started(settings)
  PROVE  Kept(t) /\ BoxHeard(t)
<1>1. /\ settings \in [lock : BOOLEAN, window : BOOLEAN, countdown : Nat, repeats : Nat \ {0}]
      /\ settings.repeats \in Nat
  BY SettingsAssumption
<1>2. PICK zero \in Groups : zero = 0
  BY NumGroupsAssumption DEF Groups
<1>3. PICK new : new = [settings |-> settings, phase |-> "playing", about |-> 0, remaining |-> 0,
              current |-> 0, groups |-> [g \in Groups |-> Blank],
              phaseTimer |-> NoPhaseTimer, auto |-> NoAuto,
              repeatsLeft |-> settings.repeats, begun |-> FALSE,
              countdownTo |-> 0, resume |-> NoResume, missed |-> FALSE, known |-> FALSE,
              fresh |-> FALSE, learned |-> << >>,
              timers |-> {}, sends |-> {}, stopped |-> {}, held |-> TRUE,
              text |-> "none", waiting |-> FALSE, letter |-> "none",
              away |-> FALSE, over |-> "no"]
  OBVIOUS
<1>4. t = IF settings.countdown = 0 THEN BeginGroup(new, zero) ELSE CountDown(new, zero)
  BY <1>2, <1>3 DEF Started
<1>5. new \in Session
  <2>1. Blank \in GroupOf
    <3>1. "none" \in Answers /\ 0 \in Nat
      BY DEF Answers
    <3>. QED BY <3>1 DEF Blank, GroupOf
  <2>2. [g \in Groups |-> Blank] \in [Groups -> GroupOf]
    BY <2>1
  <2>3. /\ NoPhaseTimer \in PhaseTimer /\ NoAuto \in AutoTimer /\ NoResume \in ResumeOf
        /\ << >> \in Seq(Groups \X Answers)
        /\ 0 \in Groups /\ 0 \in Nat
        /\ "none" \in Answers
    BY <1>2 DEF NoPhaseTimer, PhaseTimer, NoAuto, AutoTimer, NoResume, ResumeOf, Answers
  <2>4. "playing" \in Phases
    BY DEF Phases
  <2>. QED BY Zenon, <1>1, <1>3, <2>2, <2>3, <2>4 DEF Session
<1>6. /\ new.about = 0 /\ new.current = 0 /\ new.groups = [g \in Groups |-> Blank]
      /\ new.phaseTimer = NoPhaseTimer /\ new.auto = NoAuto /\ new.resume = NoResume
      /\ new.learned = << >> /\ new.timers = {} /\ new.sends = {} /\ new.stopped = {}
      /\ new.held /\ new.over = "no" /\ ~new.waiting
  BY <1>3
<1>7. Told(new) = 0
  BY <1>6 DEF Told
<1>8. \A g \in Groups : new.groups[g] = Blank
  BY <1>6
<1>9. /\ ~Blank.done /\ ~Blank.complete /\ Blank.input = "none" /\ ~Blank.since /\ ~Blank.before
      /\ Blank.heard = 0 /\ Blank.all = 0 /\ Blank.clean = 0 /\ Blank.counted = 0
      /\ Blank.sending = "none"
  BY DEF Blank
<1>10. Learned(new)
  <2>1. \A g \in Groups : ~(g < 0) /\ g \in Nat
    BY NumGroupsAssumption DEF Groups
  <2>2. 1 .. 0 = {}
    OBVIOUS
  <2>3. \A g \in Groups : new.groups[g].done <=> g < Told(new)
    BY <1>7, <1>8, <1>9, <2>1
  <2>4. \A i \in 1 .. Told(new) : new.learned[i] = <<i - 1, new.groups[i - 1].input>>
    BY <1>7, <2>2
  <2>. QED BY <1>6, <1>7, <1>8, <2>3, <2>4 DEF Learned
<1>11. FullLength(new)
  BY <1>8, <1>9, WholeAssumption DEF FullLength
<1>12. TimedRight(new)
  BY <1>8, <1>9 DEF TimedRight
<1>13. Primed(new, zero)
  <2>1. new.resume.kind = "none"
    BY <1>6 DEF NoResume
  <2>2. \A h \in Groups : LET grp == new.groups[h] IN
          grp.heard <= grp.all /\ grp.counted <= grp.all /\ grp.clean <= grp.heard
          /\ grp.sending = "none"
    BY <1>8, <1>9
  <2>. QED BY <1>2, <1>5, <1>6, <1>7, <1>10, <1>11, <1>12, <2>1, <2>2 DEF Primed
<1>14. Ready(new, zero) /\ ~new.groups[zero].complete
  BY <1>6, <1>8, <1>9, <1>13 DEF Ready, TimersFit
<1>15. Cardinality(new.timers) = 0
  BY <1>6, FS_EmptySet
<1>16. Cardinality(new.timers) <= MaxTimers + 2
  BY <1>15, MaxTimersAssumption
<1>17. Fits(t, {}, "no") /\ Room(t) = Cardinality(new.timers) + 1 /\ Box(t) = Box(new)
  <2>1. CASE settings.countdown = 0
    BY <1>4, <1>14, <2>1, BeginFits
  <2>2. CASE settings.countdown # 0
    BY <1>4, <1>14, <1>16, <2>2, CountDownFits
  <2>. QED BY <2>1, <2>2
<1>18. Room(t) <= MaxTimers + 2
  BY <1>15, <1>17, MaxTimersAssumption
<1>19. SameSaid(new, t)
  BY <1>2, <1>4, <1>5, BeginSays
<1>20. ~new.away /\ new.text = "none"
  BY <1>3
<1>21. BoxHeard(t)
  <2>1. ~t.away /\ ~t.waiting /\ t.text = "none"
    BY <1>6, <1>17, <1>20 DEF Box
  <2>2. Told(t) = zero
    BY <1>2, <1>7, <1>19 DEF SameSaid, Told
  <2>3. t.groups[zero].input = "none"
    BY <1>2, <1>8, <1>9, <1>19 DEF SameSaid, SameTyped
  <2>. QED BY <2>1, <2>2, <2>3 DEF BoxHeard
<1>. QED BY <1>6, <1>17, <1>18, <1>21 DEF Kept, BoxFits, Box

LEMMA InitFits == Init => Inv
<1>. SUFFICES ASSUME Init PROVE Inv
  OBVIOUS
<1>1. PICK settings \in Settings : session = Started(settings) /\ resumes = 0
  BY DEF Init
<1>2. Kept(session)
  BY <1>1, StartFits
<1>. QED BY <1>1, <1>2 DEF Inv, Kept

LEMMA NextKeeps ==
  Inv /\ Next => Runs(session) /\ Kept(session') /\ Goes(session, session')
<1>. SUFFICES ASSUME Inv, Next
             PROVE  Runs(session) /\ Kept(session') /\ Goes(session, session')
  OBVIOUS
<1>1. Running
  BY DEF Next, Types, CanAct, Confirms, Finishes, HandsOver, Keys, LetterLands, Discards,
         Pauses, Resumes, TimerFires, TimePasses, HeldBack, Beats, SendStarts,
         FirstSounds, SendMisses, SendEnds, SendFails, StoppedReports
<1>2. Runs(session)
  BY <1>1 DEF Inv, Kept, Runs, Running
<1>3. CASE \E a \in Answers : Types(a) \/ Confirms(a) \/ Finishes(a)
  BY <1>2, <1>3, LearnerActs
<1>4. CASE HandsOver \/ Keys \/ LetterLands
  BY <1>2, <1>4, BoxActs
<1>5. CASE Discards \/ Pauses \/ Resumes
  BY <1>2, <1>5, SessionActs
<1>6. CASE (\E id \in TimerIds : TimerFires(id)) \/ TimePasses \/ HeldBack \/ Beats
  BY <1>2, <1>6, TimeActs
<1>7. CASE SendStarts \/ FirstSounds \/ SendMisses \/ SendEnds \/ SendFails
  BY <1>2, <1>7, SendActs
<1>8. CASE StoppedReports
  BY <1>2, <1>8, StopActs
<1>. QED BY <1>3, <1>4, <1>5, <1>6, <1>7, <1>8 DEF Next

LEMMA NextFits == Inv /\ [Next]_vars => Inv'
<1>. SUFFICES ASSUME Inv, [Next]_vars PROVE Inv'
  OBVIOUS
<1>1. Kept(session) /\ resumes \in Nat
  BY DEF Inv, Kept
<1>2. SUFFICES Kept(session') /\ resumes' \in Nat
  BY DEF Inv, Kept
<1>3. resumes' \in Nat
  <2>1. resumes' = resumes \/ resumes' = resumes + 1
    BY DEF Next, vars, Types, Confirms, Finishes, HandsOver, Keys, LetterLands, Discards, Pauses,
           Resumes, TimerFires, TimePasses, HeldBack, Beats, SendStarts, FirstSounds,
           SendMisses, SendEnds, SendFails, StoppedReports
  <2>. QED BY <1>1, <2>1
<1>4. CASE UNCHANGED vars
  BY <1>1, <1>3, <1>4 DEF vars
<1>5. CASE Next
  BY <1>3, <1>5, NextKeeps
<1>. QED BY <1>4, <1>5

LEMMA InvEver == Spec => []Inv
BY InitFits, NextFits, PTL DEF Spec

\* Where the app is never held back, the session has what the box holds.
LEMMA BoxHeardEver ==
  ASSUME "gaps" \notin Happens
  PROVE  Spec => []BoxHeard(session)
<1>1. Init => BoxHeard(session)
  BY StartFits DEF Init
<1>2. Inv /\ BoxHeard(session) /\ [Next]_vars => BoxHeard(session)'
  <2>. SUFFICES ASSUME Inv, BoxHeard(session), [Next]_vars PROVE BoxHeard(session')
    BY DEF BoxHeard, IsTerminal, Live, Answerable, InputLocked, Told, Playing
  <2>1. CASE Next
    BY <2>1, NextKeeps DEF Goes
  <2>2. CASE UNCHANGED vars
    BY <2>2 DEF vars
  <2>. QED BY <2>1, <2>2
<1>. QED BY <1>1, <1>2, InvEver, PTL DEF Spec

-----------------------------------------------------------------------------
(***************************************************************************)
(* What it says.                                                           *)
(***************************************************************************)
LEMMA InvDoes ==
  ASSUME Inv
  PROVE  /\ session \in Session /\ Leased(session, "no") /\ TimersFit(session, {})
         /\ Waits(session) /\ Learned(session) /\ AboutNext(session) /\ FullLength(session)
         /\ Confirmed(session) /\ TimedRight(session) /\ HeardRight(session, "no")
         /\ (Running <=> ~IsTerminal(session))
BY DEF Inv, Fits, Leased, Running

\* A session is a session, whatever happens to it.
THEOREM TypeCorrect == Spec => []TypeOK
<1>1. Inv => TypeOK
  BY DEF Inv, Fits, TypeOK
<1>. QED BY <1>1, InvEver, PTL

LEMMA QuietNow == Inv => Quiet
<1>. SUFFICES ASSUME Inv PROVE Quiet
  OBVIOUS
<1>1. session \in Session /\ Leased(session, "no") /\ (Running <=> ~IsTerminal(session))
  BY InvDoes
<1>2. session.held <=> Running /\ ~Paused(session)
  BY <1>1 DEF Leased, Still, Paused
<1>3. ~session.held => session.timers = {} /\ session.sends = {}
  BY <1>1 DEF Leased
<1>4. \A send \in session.sends : session.phase = "playing" /\ send.of = session.about
  BY <1>1 DEF Leased
<1>5. Cardinality(session.sends) <= 1
  <2>1. CASE session.sends = {}
    BY <2>1, FS_EmptySet
  <2>2. CASE session.sends # {}
    <3>1. PICK send : session.sends = {send}
      BY <1>1, <2>2 DEF Leased
    <3>. QED BY <3>1, FS_Singleton
  <2>. QED BY <2>1, <2>2
<1>. QED BY <1>2, <1>3, <1>4, <1>5 DEF Quiet

\* A session that is paused, or over, plays nothing, waits for nothing and holds
\* no audio; one that runs holds it, and sends one send at a time, of the group
\* being played (ReleaseAudio).
THEOREM QuietEver == Spec => []Quiet
BY InvEver, QuietNow, PTL

LEMMA ToldInGroups ==
  ASSUME NEW s \in Session, Learned(s)
  PROVE  /\ Told(s) \in Nat /\ Told(s) <= NumGroups
         /\ {g \in Groups : s.groups[g].done} = 0 .. Told(s) - 1
         /\ Cardinality({g \in Groups : s.groups[g].done}) = Told(s)
<1>1. s.learned \in Seq(Groups \X Answers)
  BY DEF Session
<1>2. Told(s) \in Nat
  BY <1>1 DEF Told
<1>3. Told(s) <= NumGroups
  <2>1. CASE Told(s) = 0
    BY <2>1, NumGroupsAssumption
  <2>2. CASE Told(s) # 0
    <3>1. Told(s) \in 1 .. Told(s) /\ Told(s) \in 1 .. Len(s.learned)
      BY <1>2, <2>2 DEF Told
    <3>2. s.learned[Told(s)] \in Groups \X Answers
      BY <1>1, <3>1
    <3>3. s.learned[Told(s)] = <<Told(s) - 1, s.groups[Told(s) - 1].input>>
      BY <3>1 DEF Learned
    <3>4. Told(s) - 1 \in Groups
      BY <3>2, <3>3
    <3>. QED BY <1>2, <3>4, NumGroupsAssumption DEF Groups
  <2>. QED BY <2>1, <2>2
<1>4. {g \in Groups : s.groups[g].done} = 0 .. Told(s) - 1
  <2>1. \A g \in Groups : s.groups[g].done <=> g < Told(s)
    BY DEF Learned
  <2>2. {g \in Groups : s.groups[g].done} = {g \in Groups : g < Told(s)}
    BY <2>1
  <2>3. {g \in Groups : g < Told(s)} = 0 .. Told(s) - 1
    BY <1>2, <1>3, NumGroupsAssumption DEF Groups
  <2>. QED BY <2>2, <2>3
<1>5. Cardinality(0 .. Told(s) - 1) = Told(s)
  BY <1>2, FS_Interval
<1>. QED BY <1>2, <1>3, <1>4, <1>5

LEMMA InOrderNow == Inv => InOrder
<1>. SUFFICES ASSUME Inv PROVE InOrder
  OBVIOUS
<1>1. session \in Session /\ Learned(session) /\ AboutNext(session)
  BY InvDoes
<1>2. PICK n : n = Told(session)
  OBVIOUS
<1>3. /\ n \in Nat /\ n <= NumGroups /\ Answered = 0 .. n - 1 /\ Cardinality(Answered) = n
  BY <1>1, <1>2, ToldInGroups DEF Answered
<1>4. session.learned = [i \in 1 .. n |-> <<i - 1, session.groups[i - 1].input>>]
  <2>1. session.learned \in Seq(Groups \X Answers) /\ Len(session.learned) = n
    BY <1>1, <1>2 DEF Session, Told
  <2>2. session.learned \in [1 .. n -> Groups \X Answers]
    BY <2>1
  <2>3. \A i \in 1 .. n : session.learned[i] = <<i - 1, session.groups[i - 1].input>>
    BY <1>1, <1>2 DEF Learned
  <2>. QED BY <2>2, <2>3
<1>5. Answerable(session) => session.about = session.current /\ session.current \notin Answered
  <2>1. Answerable(session) => session.about = n /\ session.current = n
    BY <1>1, <1>2 DEF AboutNext
  <2>. QED BY <1>3, <2>1
<1>6. session.over = "kept" => Answered # {}
  <2>1. session.over = "kept" => n > 0
    BY <1>1, <1>2 DEF Learned
  <2>2. n > 0 => 0 \in 0 .. n - 1
    BY <1>3
  <2>. QED BY <1>3, <2>1, <2>2
<1>. QED BY <1>3, <1>4, <1>5, <1>6 DEF InOrder

\* Groups are answered one after the other, each once, and the source is taught
\* each answer once, as the results show it (record_answer, confirm_current).
THEOREM InOrderEver == Spec => []InOrder
BY InvEver, InOrderNow, PTL

LEMMA OnItsWayNow == Inv => OnItsWay
<1>. SUFFICES ASSUME Inv, Running PROVE
       LET g == session.about
           grp == session.groups[g]
       IN  /\ session.phase = "countdown" => InFlight(session.phaseTimer, {"countdown"})
           /\ session.phase = "interGroupGap" => InFlight(session.phaseTimer, {"gap"})
           /\ session.phase = "repeatGap" => InFlight(session.phaseTimer, {"gap", "again"})
           /\ session.phase = "playing" => \E send \in session.sends : send.of = g
           /\ Answerable(session) /\ grp.complete =>
                session.auto.id \in session.timers /\ session.auto.value = grp.input
           /\ session.phase = "awaiting" /\ session.settings.window /\ ~session.begun =>
                InFlight(session.phaseTimer, {"window"})
           /\ Paused(session) => session.resume.kind # "none"
  BY DEF OnItsWay
<1>1. /\ session \in Session /\ Leased(session, "no") /\ TimersFit(session, {})
      /\ Waits(session) /\ Confirmed(session) /\ ~IsTerminal(session)
  BY InvDoes
<1>2. ASSUME NEW kind, session.phaseTimer.kind = kind, kind # "none"
      PROVE  session.phaseTimer.id \in session.timers
  <2>1. session.phaseTimer # NoPhaseTimer
    BY <1>2 DEF NoPhaseTimer
  <2>. QED BY <1>1, <2>1 DEF TimersFit
<1>3. /\ session.phase = "countdown" => InFlight(session.phaseTimer, {"countdown"})
      /\ session.phase = "interGroupGap" => InFlight(session.phaseTimer, {"gap"})
      /\ session.phase = "repeatGap" => InFlight(session.phaseTimer, {"gap", "again"})
      /\ session.phase = "awaiting" /\ session.settings.window /\ ~session.begun =>
           InFlight(session.phaseTimer, {"window"})
  BY <1>1, <1>2 DEF Waits, InFlight
<1>4. session.phase = "playing" => \E send \in session.sends : send.of = session.about
  BY <1>1 DEF Leased
<1>5. Answerable(session) /\ session.groups[session.about].complete =>
        /\ session.auto.id \in session.timers
        /\ session.auto.value = session.groups[session.about].input
  BY <1>1 DEF Confirmed, TimersFit
<1>6. Paused(session) => session.resume.kind # "none"
  BY <1>1 DEF Leased
<1>. QED BY <1>3, <1>4, <1>5, <1>6

\* Whatever a session waits for besides the learner is on its way, under the
\* lease it holds: a timer, a send, or the confirm of an answer of full length.
THEOREM OnItsWayEver == Spec => []OnItsWay
BY InvEver, OnItsWayNow, PTL

\* An answer with keys from both sides of a pause, since its group's first send,
\* is never timed from that send (note_paused and set_input of session.rs).
THEOREM TimedFairlyEver == Spec => []TimedFairly
<1>1. Inv => TimedFairly
  <2>. SUFFICES ASSUME Inv PROVE TimedFairly
    OBVIOUS
  <2>1. TimedRight(session)
    BY InvDoes
  <2>. QED BY <2>1 DEF TimedRight, TimedFairly
<1>. QED BY <1>1, InvEver, PTL

LEMMA HeardIsRightNow == Inv => HeardIsRight
<1>. SUFFICES ASSUME Inv, NEW g \in Groups, Running, ~session.groups[g].done
              PROVE  LET grp == session.groups[g]
                         going == {send \in session.sends : send.of = g /\ send.sounded}
                     IN  /\ grp.clean <= grp.heard
                         /\ grp.heard <= grp.all + Cardinality(going)
                         /\ grp.counted <= grp.all + Cardinality(going)
  BY DEF HeardIsRight
<1>1. /\ session \in Session /\ Leased(session, "no") /\ HeardRight(session, "no")
      /\ ~IsTerminal(session)
  BY InvDoes
<1>2. PICK grp \in GroupOf : grp = session.groups[g]
  BY <1>1, GroupTypes
<1>3. PICK going : going = {send \in session.sends : send.of = g /\ send.sounded}
  OBVIOUS
<1>4. HeardSo(session, g, "no")
  BY <1>1 DEF HeardRight
<1>5. PICK one \in {0, 1} : one = One(Sounds(session, g))
  BY Ones
<1>6. Cardinality(going) = one
  <2>1. CASE Sounds(session, g)
    <3>1. PICK x \in session.sends : x.of = g /\ x.sounded
      BY <2>1 DEF Sounds
    <3>2. going = {x}
      BY <1>1, <1>3, <3>1 DEF Leased
    <3>3. one = 1
      BY <1>5, <2>1, Ones
    <3>. QED BY <3>2, <3>3, FS_Singleton
  <2>2. CASE ~Sounds(session, g)
    <3>1. going = {}
      BY <1>3, <2>2 DEF Sounds
    <3>2. one = 0
      BY <1>5, <2>2, Ones
    <3>. QED BY <3>1, <3>2, FS_EmptySet
  <2>. QED BY <2>1, <2>2
<1>7. grp.clean <= grp.heard /\ grp.heard <= grp.all /\ grp.counted <= grp.all + one
  BY <1>2, <1>4, <1>5 DEF HeardSo
<1>8. grp.heard \in Nat /\ grp.all \in Nat
  BY DEF GroupOf
<1>9. grp.heard <= grp.all + one
  BY <1>7, <1>8
<1>. QED BY <1>2, <1>3, <1>6, <1>7, <1>9

\* A group's hearings are counted right, across pauses, sends tried again, and
\* sends that lost some of their sound (heard and Completed::heard).
THEOREM HeardIsRightEver == Spec => []HeardIsRight
BY InvEver, HeardIsRightNow, PTL

LEMMA AnswersNext ==
  ASSUME NEW s, Kept(s), NEW t, Kept(t), NEW g \in Groups, ~s.groups[g].done, t.groups[g].done
  PROVE  /\ t.learned # s.learned
         /\ Told(t) = Told(s) + 1 => g = Told(s)
<1>1. Learned(s) /\ Learned(t) /\ s \in Session /\ t \in Session
  BY DEF Kept, Fits
<1>2. Told(s) \in Nat /\ Told(t) \in Nat /\ g \in Nat
  BY <1>1, NumGroupsAssumption DEF Session, Told, Groups
<1>3. ~(g < Told(s)) /\ g < Told(t)
  BY <1>1 DEF Learned
<1>4. t.learned = s.learned => Told(t) = Told(s)
  BY DEF Told
<1>. QED BY <1>2, <1>3, <1>4

\* Nothing that closes an answer overtakes what was typed, on whatever of the
\* ways an answer is closed, and End session leaves nothing behind, as long as
\* the app is never held back (dispatch and AnswerOutbox of session_runtime.rs).
THEOREM NothingOvertakenEver ==
  ASSUME "gaps" \notin Happens
  PROVE  Spec => NothingOvertaken
<1>1. Inv /\ BoxHeard(session) /\ [Next]_vars =>
        [/\ \A g \in Groups : Closes(g) => session'.groups[g].input \in InTheBox
         /\ session'.over = "home" /\ (session.text # "none" \/ Answered # {})
              => ~\E grown \in Answers : Finishes(grown)]_vars
  <2>. SUFFICES ASSUME Inv, BoxHeard(session), Next
               PROVE  /\ \A g \in Groups : Closes(g) => session'.groups[g].input \in InTheBox
                      /\ session'.over = "home" /\ (session.text # "none" \/ Answered # {})
                           => ~\E grown \in Answers : Finishes(grown)
    OBVIOUS
  <2>1. Runs(session) /\ Kept(session) /\ Kept(session') /\ ClosesRight(session, session')
    BY NextKeeps DEF Goes, Runs
  <2>2. ASSUME NEW g \in Groups, Closes(g) PROVE session'.groups[g].input \in InTheBox
    <3>1. ~session.groups[g].done /\ session'.groups[g].done
      BY <2>2 DEF Closes
    <3>2. /\ session'.learned # session.learned
          /\ Told(session') = Told(session) + 1 => g = Told(session)
      BY <2>1, <3>1, AnswersNext
    <3>3. session'.groups[g].input \in MayHold(session)
      BY <2>1, <3>2 DEF ClosesRight
    <3>. QED BY <3>3 DEF MayHold, InTheBox
  <2>3. ASSUME session'.over = "home", NEW grown \in Answers, Finishes(grown)
        PROVE  session.text = "none" /\ Answered = {}
    <3>1. PICK e : e = [kind |-> "finish", grown |-> grown]
      OBVIOUS
    <3>2. session' = Dispatch(session, e) /\ grown \in Grown(session)
      BY <2>3, <3>1 DEF Finishes
    <3>3. e.kind = "finish" /\ e.grown = grown
      BY <3>1
    <3>4. Told(session) = 0 /\ session.text = "none"
      BY <2>1, <2>3, <3>2, <3>3, ClosesFits
    <3>5. \A g \in Groups : ~session.groups[g].done
      <4>1. Learned(session)
        BY DEF Inv, Fits
      <4>2. \A g \in Groups : ~(g < 0)
        BY NumGroupsAssumption DEF Groups
      <4>. QED BY <3>4, <4>1, <4>2 DEF Learned
    <3>. QED BY <3>4, <3>5 DEF Answered
  <2>. QED BY <2>2, <2>3
<1>. QED BY <1>1, BoxHeardEver, InvEver, PTL DEF Spec, NothingOvertaken

\* No timer closes an answer that is being entered: it waits for the letter under
\* way, and for what is typed of an answer (closes_answer of machine.rs, dispatch).
THEOREM TimersWaitEver ==
  ASSUME "gaps" \notin Happens
  PROVE  Spec => TimersWait
<1>1. Inv /\ BoxHeard(session) /\ [Next]_vars =>
        [(\E g \in Groups : Closes(g)) /\ Entering
           => ~\E id \in session.timers : TimerFires(id)]_vars
  <2>. SUFFICES ASSUME Inv, BoxHeard(session), Next, NEW g \in Groups, Closes(g), Entering,
                      NEW id \in session.timers, TimerFires(id)
               PROVE  FALSE
    OBVIOUS
  <2>1. Runs(session) /\ Kept(session) /\ Kept(session')
    BY NextKeeps DEF Runs
  <2>2. session' = Dispatch([session EXCEPT !.timers = @ \ {id}], [kind |-> "timer", id |-> id])
    BY DEF TimerFires
  <2>3. session'.learned = session.learned \/ (session.letter = "none" /\ session.text # "uneven")
    BY <2>1, <2>2, FiresFits
  <2>4. session'.learned # session.learned
    BY <2>1, AnswersNext DEF Closes
  <2>. QED BY <2>3, <2>4 DEF Entering
<1>. QED BY <1>1, BoxHeardEver, InvEver, PTL DEF Spec, TimersWait

=============================================================================
