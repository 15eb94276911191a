--------------------------- MODULE SessionMachine ----------------------------
(***************************************************************************)
(* A training session: SessionMachine (crates/cw-core/src/machine.rs) over *)
(* its groups (crates/cw-core/src/session.rs), as functions from a session *)
(* to the session an event leaves.                                         *)
(*                                                                         *)
(* The machine asks its runtime for effects; an effect is here what        *)
(* run_effects (src/session_runtime.rs) makes of it: a timer started is    *)
(* one more in flight, a Play one more send, ReleaseAudio the audio given  *)
(* back with every timer and send under it.  What an answer says is kept   *)
(* as far as the machine looks: nothing, of the group's length, or not.    *)
(* Times are left out, but for what they decide: whether a group has only  *)
(* just begun, whether the first character of a send has sounded.          *)
(***************************************************************************)
EXTENDS Naturals, Sequences, FiniteSets

CONSTANTS NumGroups,  \* how many groups the session has
          Whole,      \* answers of their group's length
          Settings,   \* the settings a session may be started with
          MaxTimers   \* bound: timers in flight when the learner acts

ASSUME NumGroupsAssumption == NumGroups \in Nat \ {0}
ASSUME WholeAssumption == "none" \notin Whole /\ "uneven" \notin Whole
ASSUME SettingsAssumption ==
  Settings \subseteq [lock : BOOLEAN, window : BOOLEAN, countdown : Nat, repeats : Nat \ {0}]
ASSUME MaxTimersAssumption == MaxTimers \in Nat

Groups  == 0 .. NumGroups - 1
Answers == {"none", "uneven"} \cup Whole

\* Timers are told apart by name.  Three more than the learner may leave in
\* flight: what one event starts.
TimerIds == 1 .. MaxTimers + 3

\* How many times a group is sent again for a send some of which went unheard.
MAX_SENT_AGAIN == 2

(***************************************************************************)
(* A group.  sounding: its first send began, to time its characters from;  *)
(* untimed: they cannot be.  heard counts its hearings, sending says how   *)
(* far the send going out is one, and counted is heard as its answer       *)
(* became complete.  The last four are history, until it is answered: its  *)
(* attempts that sounded (all) and those of them surely heard in part      *)
(* (clean), and whether keys of its answer came since its last pause, and  *)
(* before it (before), counting from its first send.                       *)
(***************************************************************************)
GroupOf == [input : Answers, done : BOOLEAN, complete : BOOLEAN, counted : Nat,
            plays : Nat, again : Nat, heard : Nat,
            sending : {"none", "silent", "sounded"}, sounding : BOOLEAN,
            untimed : BOOLEAN, pausedComplete : BOOLEAN,
            all : Nat, clean : Nat, since : BOOLEAN, before : BOOLEAN]
Blank   == [input |-> "none", done |-> FALSE, complete |-> FALSE, counted |-> 0,
            plays |-> 0, again |-> 0, heard |-> 0,
            sending |-> "none", sounding |-> FALSE,
            untimed |-> FALSE, pausedComplete |-> FALSE,
            all |-> 0, clean |-> 0, since |-> FALSE, before |-> FALSE]

TimerKinds == {"gap", "window", "countdown", "again"}
PhaseTimer == [id : TimerIds, kind : TimerKinds] \cup {[id |-> 0, kind |-> "none"]}
AutoTimer  == [id : TimerIds, of : Groups, value : Whole]
                \cup {[id |-> 0, of |-> 0, value |-> "none"]}
ResumeOf   == [kind : {"none", "send", "answer"}, of : Groups]
SendOf     == [of : Groups, out : BOOLEAN, tries : Nat, sounded : BOOLEAN, lost : BOOLEAN]

NoPhaseTimer == [id |-> 0, kind |-> "none"]
NoAuto       == [id |-> 0, of |-> 0, value |-> "none"]
NoResume     == [kind |-> "none", of |-> 0]

Phases == {"countdown", "playing", "repeatGap", "interGroupGap", "awaiting",
           "paused", "finished", "aborted"}

(***************************************************************************)
(* A session with what runs under it: the machine's own fields; the timers *)
(* and sends in flight under its lease of the audio, the groups of sends   *)
(* stopped that have yet to say so, and whether the lease is current; the  *)
(* answer box; and how the session ended.                                  *)
(***************************************************************************)
Session ==
  [settings : Settings, phase : Phases, about : Groups, remaining : Nat,
   current : Groups, groups : [Groups -> GroupOf],
   phaseTimer : PhaseTimer, auto : AutoTimer, repeatsLeft : Nat, begun : BOOLEAN,
   countdownTo : Groups, resume : ResumeOf, missed : BOOLEAN, known : BOOLEAN,
   fresh : BOOLEAN, learned : Seq(Groups \X Answers),
   timers : SUBSET TimerIds, sends : SUBSET SendOf, stopped : SUBSET Groups, held : BOOLEAN,
   text : Answers, waiting : BOOLEAN, letter : {"none", "open", "keyed"},
   away : BOOLEAN, over : {"no", "kept", "home"}]

IsTerminal(s) == s.phase \in {"finished", "aborted"}
Paused(s)     == s.phase = "paused"
Playing(s)    == s.phase \in {"playing", "repeatGap"}
Answerable(s) == Playing(s) \/ s.phase = "awaiting"

\* GroupSession::input_locked
InputLocked(s, g) ==
  /\ (s.settings.lock /\ Playing(s)) \/ s.phase \in {"countdown", "paused"}
  /\ g = s.current

PlayingGroup(s, g) == s.phase = "playing" /\ s.about = g

-----------------------------------------------------------------------------
(***************************************************************************)
(* The effects, as the runtime carries them out.                           *)
(***************************************************************************)
FreeTimer(s) == CHOOSE i \in TimerIds : i \notin s.timers /\ \A j \in TimerIds : j < i => j \in s.timers

StartPhaseTimer(s, kind) ==
  [s EXCEPT !.timers = @ \cup {FreeTimer(s)},
            !.phaseTimer = [id |-> FreeTimer(s), kind |-> kind]]

StartAuto(s, g, value) ==
  [s EXCEPT !.timers = @ \cup {FreeTimer(s)},
            !.auto = [id |-> FreeTimer(s), of |-> g, value |-> value]]

CancelTimers(s) == [s EXCEPT !.phaseTimer = NoPhaseTimer, !.auto = NoAuto]

\* A send that has gone, ended or stopped: counted, for the history.
Counted(grp, send, ended) ==
  IF grp.done THEN grp
  ELSE [grp EXCEPT !.all = IF ended \/ send.sounded THEN @ + 1 ELSE @,
                   !.clean = IF send.sounded /\ ~send.lost THEN @ + 1 ELSE @]

SendGone(s, send, ended) ==
  [s EXCEPT !.sends = @ \ {send}, !.groups[send.of] = Counted(@, send, ended)]

\* SessionEffect::StopAudio: what is sent stops, and is yet to say so.
StopAudio(s) ==
  [s EXCEPT !.stopped = @ \cup {send.of : send \in s.sends},
            !.sends = {},
            !.groups = [g \in Groups |->
               IF \E send \in s.sends : send.of = g
               THEN Counted(s.groups[g], CHOOSE send \in s.sends : send.of = g, FALSE)
               ELSE s.groups[g]]]

\* SessionEffect::ReleaseAudio, and the end of a session: a timer under a
\* lease that is no longer current wakes to nothing.
ReleaseAudio(s) == [StopAudio(s) EXCEPT !.timers = {}, !.held = FALSE]

\* SessionEffect::Play
Play(s, g) ==
  [s EXCEPT !.sends = @ \cup {[of |-> g, out |-> FALSE, tries |-> 1,
                               sounded |-> FALSE, lost |-> FALSE]}]

\* SessionEffect::PersistAndShowResults and AbortToHome, the audio given back.
EndSession(s, keep) ==
  [ReleaseAudio(CancelTimers(s)) EXCEPT
     !.phase = IF keep THEN "finished" ELSE "aborted",
     !.over = IF keep THEN "kept" ELSE "home"]

-----------------------------------------------------------------------------
(***************************************************************************)
(* Sending a group.                                                        *)
(***************************************************************************)
BeginGroup(s, g) ==
  Play([s EXCEPT !.phase = "playing", !.about = g, !.current = g,
                 !.groups[g].plays = 0,
                 !.repeatsLeft = s.settings.repeats,
                 !.missed = FALSE, !.known = FALSE, !.fresh = TRUE,
                 !.begun = s.groups[g].input # "none"], g)

CountDown(s, g) ==
  StartPhaseTimer([s EXCEPT !.countdownTo = g, !.phase = "countdown",
                            !.remaining = s.settings.countdown], "countdown")

\* Once more, a word space after the send that just ended.
Repeat(s, g) == StartPhaseTimer([s EXCEPT !.phase = "repeatGap", !.about = g], "gap")

\* A send of grp goes out: its characters are timed from the first, unless
\* that was tried again.
StartPlayback(grp) ==
  [grp EXCEPT !.sending = "silent",
              !.sounding = @ \/ grp.plays = 0,
              !.untimed = @ \/ (grp.plays = 0 /\ grp.sounding)]

\* A send of g started, on its first attempt or a later one, to be heard afresh.
PlaybackStarted(s, g) ==
  IF PlayingGroup(s, g)
  THEN [s EXCEPT !.missed = FALSE, !.known = TRUE, !.groups[g] = StartPlayback(@)]
  ELSE s

\* A first send that was held up cannot be timed from.
NoteHeldUp(s, g) ==
  IF s.groups[g].plays = 0 /\ s.groups[g].sounding
  THEN [s EXCEPT !.groups[g].untimed = TRUE] ELSE s

\* Some of a send of g went unheard; "lost" says whether characters did,
\* as far as the send going out can tell.
PlaybackMissed(s, g, lost) ==
  LET noted == NoteHeldUp(s, g)
  IN  IF ~lost /\ s.known THEN s
      ELSE IF PlayingGroup(s, g)
      THEN [noted EXCEPT !.groups[g].sending = "none", !.missed = TRUE]
      ELSE noted

\* Just the lost send, where the group was heard whole before; else from the
\* start, after the pause between groups.
SendAgain(s, g) ==
  LET counted == [s EXCEPT !.groups[g].again = @ + 1]
  IN  IF s.groups[g].plays > 0
      THEN Repeat(counted, g)
      ELSE StartPhaseTimer([counted EXCEPT !.phase = "repeatGap", !.about = g], "again")

\* The group has been sent: its answer is waited for, as long as the settings say.
AwaitAnswer(s, g) ==
  LET awaiting == [s EXCEPT !.phase = "awaiting", !.about = g]
  IN  IF s.settings.window THEN StartPhaseTimer(awaiting, "window") ELSE awaiting

\* A send of grp was heard to its end (note_play_finished of session.rs).
NotePlayFinished(grp) == [grp EXCEPT !.plays = @ + 1, !.heard = @ + 1, !.sending = "none"]

PlaybackEnded(s, g) ==
  LET answered == s.auto # NoAuto /\ s.auto.of = g
      ended == [s EXCEPT !.known = FALSE, !.missed = FALSE]
      heard == [ended EXCEPT !.groups[g] = NotePlayFinished(@)]
  IN  IF ~PlayingGroup(s, g) THEN s
      ELSE IF s.missed /\ ~answered /\ s.groups[g].again < MAX_SENT_AGAIN
      THEN SendAgain(ended, g)
      ELSE IF s.repeatsLeft > 1
      THEN Repeat([heard EXCEPT !.repeatsLeft = @ - 1], g)
      ELSE AwaitAnswer(heard, g)

-----------------------------------------------------------------------------
(***************************************************************************)
(* Answering it.                                                           *)
(***************************************************************************)
\* How often grp has been heard by now, the send going out included once its
\* first character has sounded (Group::completed).
HeardByNow(grp) == grp.heard + (IF grp.sending = "sounded" THEN 1 ELSE 0)

Complete(grp) == IF grp.complete THEN grp
                 ELSE [grp EXCEPT !.complete = TRUE, !.counted = HeardByNow(grp)]

\* Mutant of SetInput: a change after a pause is timed like any other.
SetInputTimed(grp, a) ==
  LET changed == a # grp.input
      taken == [grp EXCEPT !.input = a,
                           !.since = a # "none" /\ (@ \/ (changed /\ grp.sounding)),
                           !.before = @ /\ a # "none"]
  IN  IF grp.done THEN grp
      ELSE IF a \in Whole THEN Complete(taken)
      ELSE [taken EXCEPT !.complete = FALSE, !.counted = 0]

\* GroupSession::set_input and mark_answer_complete
SetInput(grp, a) ==
  LET changed == a # grp.input
      taken == [grp EXCEPT !.input = a,
                           !.untimed = @ \/ (grp.pausedComplete /\ changed /\ grp.sounding),
                           !.since = a # "none" /\ (@ \/ (changed /\ grp.sounding)),
                           !.before = @ /\ a # "none"]
  IN  IF grp.done THEN grp
      ELSE IF a \in Whole THEN Complete(taken)
      ELSE [taken EXCEPT !.complete = FALSE, !.counted = 0]

\* What the box holds. An answer of the group's length is confirmed once it
\* has sat still for a moment.
Input(s, a) ==
  LET g == s.about
      typed == [s EXCEPT !.groups[g] = SetInput(@, a), !.begun = @ \/ a # "none"]
  IN  IF ~Answerable(s) \/ InputLocked(s, g) THEN s
      ELSE IF a \notin Whole THEN [typed EXCEPT !.auto = NoAuto]
      ELSE IF s.auto # NoAuto /\ s.groups[g].input = a THEN typed
      ELSE StartAuto(typed, g, a)

\* Mutant of RecordAnswer: a group is answered as often as it is asked to be.
RecordAgain(s, finishing) ==
  LET g == s.current
  IN  IF InputLocked(s, g) /\ ~finishing THEN s
      ELSE [s EXCEPT !.groups[g] = [Complete(@) EXCEPT !.done = TRUE, !.all = 0, !.clean = 0,
                                                       !.since = FALSE, !.before = FALSE],
                     !.learned = Append(@, <<g, s.groups[g].input>>)]

\* The current group answered with what the session has of its box, and the
\* source taught it, the first time only.
RecordAnswer(s, finishing) ==
  LET g == s.current
  IN  IF (InputLocked(s, g) /\ ~finishing) \/ s.groups[g].done THEN s
      ELSE [s EXCEPT !.groups[g] = [Complete(@) EXCEPT !.done = TRUE, !.all = 0, !.clean = 0,
                                                       !.since = FALSE, !.before = FALSE],
                     !.learned = Append(@, <<g, s.groups[g].input>>)]

ConfirmCurrent(s) ==
  LET answered == CancelTimers(RecordAnswer(s, FALSE))
      next == s.current + 1
  IN  IF InputLocked(s, s.current) \/ s.groups[s.current].done THEN s
      ELSE IF next = NumGroups THEN EndSession(answered, TRUE)
      ELSE StartPhaseTimer(StopAudio([answered EXCEPT !.phase = "interGroupGap", !.about = next]),
                           "gap")

\* Enter with nothing typed, the group only just begun, was meant for the last.
ConfirmTooSoon(s) ==
  s.phase = "playing" /\ s.groups[s.about].input = "none" /\ s.fresh

Confirm(s) == IF ConfirmTooSoon(s) THEN s ELSE ConfirmCurrent(s)

-----------------------------------------------------------------------------
(***************************************************************************)
(* Pausing, resuming and ending.                                           *)
(***************************************************************************)
\* What a session paused now would go on with.
ResumeFrom(s) ==
  LET to(kind, g) == [kind |-> kind, of |-> g]
  IN  CASE s.phase = "countdown"     -> to("send", s.countdownTo)
        [] Playing(s)                -> to(IF s.auto # NoAuto /\ s.auto.of = s.about
                                           THEN "answer" ELSE "send", s.about)
        [] s.phase = "awaiting"      -> to("answer", s.about)
        [] s.phase = "interGroupGap" -> to("send", s.about)

\* The send of grp going out is cut: heard once its first character has sounded.
CutSend(grp) == [grp EXCEPT !.sending = "none", !.heard = HeardByNow(grp)]

\* The keys there are came before a pause.
KeysBeforePause(grp) == [grp EXCEPT !.before = @ \/ grp.since, !.since = FALSE]

\* Mutant of PauseSession: the machine forgets its timers, and keeps the audio.
PauseHoldingAudio(s) ==
  IF Paused(s) \/ IsTerminal(s) THEN s
  ELSE LET to == ResumeFrom(s)
       IN  [StopAudio(CancelTimers(s)) EXCEPT
              !.groups[to.of] = KeysBeforePause(CutSend(@)),
              !.resume = to, !.phase = "paused", !.about = to.of]

\* Mutant of PauseSession: the send cut is not counted as heard.
PauseUncounted(s) ==
  IF Paused(s) \/ IsTerminal(s) THEN s
  ELSE LET to == ResumeFrom(s)
       IN  [ReleaseAudio(CancelTimers(s)) EXCEPT
              !.groups[to.of] = KeysBeforePause([@ EXCEPT !.sending = "none"]),
              !.resume = to, !.phase = "paused", !.about = to.of]

\* SessionMachine::pause. The page went out of sight, Back was pressed, or the
\* sound stopped.
PauseSession(s) ==
  IF Paused(s) \/ IsTerminal(s) THEN s
  ELSE LET to == ResumeFrom(s)
       IN  [ReleaseAudio(CancelTimers(s)) EXCEPT
              !.groups[to.of] = KeysBeforePause(CutSend(@)),
              !.resume = to, !.phase = "paused", !.about = to.of]

\* Keys on either side of a pause cannot be timed against one send; an answer
\* complete before it stands as it was timed.
NotePaused(grp) ==
  IF grp.done THEN grp
  ELSE IF grp.complete THEN [grp EXCEPT !.pausedComplete = TRUE]
  ELSE [grp EXCEPT !.untimed = @ \/ grp.sounding]

\* Mutant of ResumeSession: an answer waited for again always has its window.
ResumeWithoutAuto(s) ==
  LET g == s.resume.of
      noted == [s EXCEPT !.resume = NoResume, !.groups[g] = NotePaused(@)]
  IN  CASE s.resume.kind = "none" -> s
        [] s.resume.kind = "answer" -> AwaitAnswer(noted, g)
        [] s.resume.kind = "send" -> IF s.settings.countdown = 0
                                     THEN BeginGroup(noted, g) ELSE CountDown(noted, g)

ResumeSession(s) ==
  LET g == s.resume.of
      noted == [s EXCEPT !.resume = NoResume, !.groups[g] = NotePaused(@)]
      input == s.groups[g].input
  IN  CASE s.resume.kind = "none" -> s
        [] s.resume.kind = "answer" ->
             IF input \in Whole
             THEN StartAuto([noted EXCEPT !.phase = "awaiting", !.about = g], g, input)
             ELSE AwaitAnswer(noted, g)
        [] s.resume.kind = "send" ->
             IF s.settings.countdown = 0 THEN BeginGroup(noted, g) ELSE CountDown(noted, g)

\* What is typed and not yet confirmed is kept, whatever locks the box.
FinishNow(s) ==
  LET noted == IF s.resume.kind = "answer"
               THEN [s EXCEPT !.groups[s.resume.of] = NotePaused(@)] ELSE s
      typed == s.groups[s.current].input # "none"
      answered == IF typed THEN RecordAnswer(noted, TRUE) ELSE noted
  IN  EndSession(answered, \E g \in Groups : answered.groups[g].done)

-----------------------------------------------------------------------------
(***************************************************************************)
(* A timer that ran out.  One the machine has forgotten is ignored.        *)
(***************************************************************************)
AutoFired(s) ==
  LET taken == [s EXCEPT !.auto = NoAuto]
  IN  IF s.current = s.auto.of /\ s.groups[s.auto.of].input = s.auto.value
      THEN ConfirmCurrent(taken) ELSE taken

\* Mutant of PhaseTimerFired: the pause before a group goes out again from the
\* start is a timer nothing waits for.
AgainIgnored(s) ==
  LET kind == s.phaseTimer.kind
      taken == [s EXCEPT !.phaseTimer = NoPhaseTimer]
  IN  CASE kind = "gap" /\ s.phase = "interGroupGap" -> BeginGroup(taken, s.about)
        [] kind = "gap" /\ s.phase = "repeatGap"     -> Play([taken EXCEPT !.phase = "playing"], s.about)
        [] kind = "countdown" /\ s.phase = "countdown" /\ s.remaining > 1 ->
             StartPhaseTimer([taken EXCEPT !.remaining = @ - 1], "countdown")
        [] kind = "countdown" /\ s.phase = "countdown" /\ s.remaining <= 1 ->
             BeginGroup(taken, s.countdownTo)
        [] kind = "window" /\ s.phase = "awaiting" /\ ~s.begun -> ConfirmCurrent(taken)
        [] OTHER -> taken

PhaseTimerFired(s) ==
  LET kind == s.phaseTimer.kind
      taken == [s EXCEPT !.phaseTimer = NoPhaseTimer]
  IN  CASE kind = "gap" /\ s.phase = "interGroupGap" -> BeginGroup(taken, s.about)
        [] kind = "gap" /\ s.phase = "repeatGap"     -> Play([taken EXCEPT !.phase = "playing"], s.about)
        [] kind = "countdown" /\ s.phase = "countdown" /\ s.remaining > 1 ->
             StartPhaseTimer([taken EXCEPT !.remaining = @ - 1], "countdown")
        [] kind = "countdown" /\ s.phase = "countdown" /\ s.remaining <= 1 ->
             BeginGroup(taken, s.countdownTo)
        [] kind = "again" /\ s.phase = "repeatGap"   -> BeginGroup(taken, s.about)
        [] kind = "window" /\ s.phase = "awaiting" /\ ~s.begun -> ConfirmCurrent(taken)
        [] OTHER -> taken

TimerFired(s, id) ==
  IF s.auto # NoAuto /\ s.auto.id = id THEN AutoFired(s)
  ELSE IF s.phaseTimer # NoPhaseTimer /\ s.phaseTimer.id = id THEN PhaseTimerFired(s)
  ELSE s

(***************************************************************************)
(* Whether, and how, an event would close the answer (closes_answer).      *)
(***************************************************************************)
ClosesAnswer(s, event) ==
  CASE IsTerminal(s) -> "no"
    [] ~IsTerminal(s) /\ event.kind \in {"confirm", "finish"} -> "deadline"
    [] ~IsTerminal(s) /\ event.kind = "timer" ->
         IF s.auto # NoAuto /\ s.auto.id = event.id THEN "settled"
         ELSE IF s.phaseTimer = [id |-> event.id, kind |-> "window"]
                 /\ s.phase = "awaiting" /\ ~s.begun THEN "unbegun"
         ELSE "no"
    [] OTHER -> "no"

\* SessionMachine::apply
Apply(s, event) ==
  CASE IsTerminal(s)            -> s
    [] ~IsTerminal(s) /\ event.kind = "abort"   -> EndSession(s, FALSE)
    [] ~IsTerminal(s) /\ event.kind = "stopped" ->
         IF PlayingGroup(s, event.of) THEN PauseSession(s) ELSE s
    [] ~IsTerminal(s) /\ event.kind = "started" -> PlaybackStarted(s, event.of)
    [] ~IsTerminal(s) /\ event.kind = "missed"  -> PlaybackMissed(s, event.of, event.lost)
    [] ~IsTerminal(s) /\ event.kind = "ended"   -> PlaybackEnded(s, event.of)
    [] ~IsTerminal(s) /\ event.kind = "heldUp"  -> NoteHeldUp(s, event.of)
    [] ~IsTerminal(s) /\ event.kind = "input"   -> Input(s, event.text)
    [] ~IsTerminal(s) /\ event.kind = "confirm" -> Confirm(s)
    [] ~IsTerminal(s) /\ event.kind = "pause"   -> PauseSession(s)
    [] ~IsTerminal(s) /\ event.kind = "resume"  -> ResumeSession(s)
    [] ~IsTerminal(s) /\ event.kind = "timer"   -> TimerFired(s, event.id)
    [] ~IsTerminal(s) /\ event.kind = "finish"  -> FinishNow(s)

-----------------------------------------------------------------------------
\* SessionMachine::start
Started(settings) ==
  LET new == [settings |-> settings, phase |-> "playing", about |-> 0, remaining |-> 0,
              current |-> 0, groups |-> [g \in Groups |-> Blank],
              phaseTimer |-> NoPhaseTimer, auto |-> NoAuto,
              repeatsLeft |-> settings.repeats, begun |-> FALSE,
              countdownTo |-> 0, resume |-> NoResume, missed |-> FALSE, known |-> FALSE,
              fresh |-> FALSE, learned |-> << >>,
              timers |-> {}, sends |-> {}, stopped |-> {}, held |-> TRUE,
              text |-> "none", waiting |-> FALSE, letter |-> "none",
              away |-> FALSE, over |-> "no"]
  IN  IF settings.countdown = 0 THEN BeginGroup(new, 0) ELSE CountDown(new, 0)

=============================================================================
