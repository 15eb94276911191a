--------------------------- MODULE SessionRuntime ----------------------------
(***************************************************************************)
(* A training session as it runs (src/session_runtime.rs): the machine, its*)
(* timers and sends, the answer box, and whatever else happens to it, each *)
(* handed to the machine by dispatch.  Everything runs on one thread, and  *)
(* an action is what runs between two awaits of it.                        *)
(*                                                                         *)
(* Timers and sends finish in any order.  A send may be tried again, lose  *)
(* some of its sound, or fail; the page may go out of sight, and the app   *)
(* may be held back, for longer than HEARTBEAT_GAP_MS, at any point.       *)
(***************************************************************************)
EXTENDS SessionMachine

CONSTANTS Happens,    \* what may happen besides: paddles used, skips in a send, an
                      \* attempt at one that fails, the app held back
          MaxResumes  \* bound: how often the learner resumes a paused session

ASSUME HappensAssumption == Happens \subseteq {"paddles", "skips", "fails", "gaps"}
ASSUME MaxResumesAssumption == MaxResumes \in Nat

VARIABLES session,  \* the session and what runs under it
          resumes   \* how often it has been resumed

vars == <<session, resumes>>

\* How many attempts a send has (src/player.rs).
SEND_ATTEMPTS == 3

TypeOK == session \in Session /\ resumes \in Nat

Running == session.over = "no"

\* The box takes typing: its group is the current one, and it is not locked.
Live(s) == Answerable(s) /\ ~InputLocked(s, s.current) /\ ~s.groups[s.current].done

\* An answer with one more letter.
Longer(a) == IF a = "uneven" THEN Whole \cup {"uneven"} ELSE {"uneven"}

\* What the box may hold once a letter keyed in full is in it.
Grown(s) == IF s.letter = "keyed" THEN Longer(s.text) ELSE {s.text}

Init == \E settings \in Settings : session = Started(settings) /\ resumes = 0

-----------------------------------------------------------------------------
(***************************************************************************)
(* dispatch                                                                *)
(***************************************************************************)
\* The machine hears what waits in the box (AnswerOutbox::take).
Take(s) ==
  IF s.waiting THEN [Apply(s, [kind |-> "input", text |-> s.text]) EXCEPT !.waiting = FALSE]
  ELSE s

\* Held back for longer than any heartbeat takes, the session is paused from
\* when it was last seen running.
PauseIfAway(s) ==
  IF s.away THEN [PauseSession(Take(s)) EXCEPT !.away = FALSE] ELSE s

\* The box finishes a letter keyed in full: "grown" is its text with it.
FinishEntry(s, grown) ==
  IF s.letter # "keyed" THEN s
  ELSE IF Live(s) THEN [s EXCEPT !.letter = "none", !.text = grown, !.waiting = TRUE]
  ELSE [s EXCEPT !.letter = "none"]

\* A group that is over leaves the box empty, and no letter half keyed.
Settle(before, after) ==
  IF \E g \in Groups : after.groups[g].done /\ ~before.groups[g].done
  THEN [after EXCEPT !.text = "none", !.letter = "none"] ELSE after

\* Mutant of Dispatch: the event comes before what waits in the box.
DispatchFirst(s, event) ==
  LET here   == PauseIfAway(s)
      closes == ClosesAnswer(here, event)
      entered == IF closes = "deadline" THEN FinishEntry(here, event.grown) ELSE here
  IN  IF closes \in {"settled", "unbegun"} /\ here.letter # "none"
      THEN [here EXCEPT !.timers = @ \cup {event.id}]
      ELSE Settle(s, Take(Apply(entered, event)))

\* Mutant of Dispatch: a timer does not wait for what is being entered.
DispatchHasty(s, event) ==
  LET here   == PauseIfAway(s)
      closes == ClosesAnswer(here, event)
      entered == IF closes = "deadline" THEN FinishEntry(here, event.grown) ELSE here
  IN  Settle(s, Apply(Take(entered), event))

(***************************************************************************)
(* An event of the session's: after a gap it finds the session paused.     *)
(* One that closes the answer finishes what is keyed in full, or waits for *)
(* what is under way; then the machine hears the box, and then the event.  *)
(***************************************************************************)
Dispatch(s, event) ==
  LET here   == PauseIfAway(s)
      closes == ClosesAnswer(here, event)
      entered == IF closes = "deadline" THEN FinishEntry(here, event.grown) ELSE here
  IN  IF closes \in {"settled", "unbegun"} /\ here.letter # "none"
      THEN [here EXCEPT !.timers = @ \cup {event.id}]
      ELSE Settle(s, Apply(Take(entered), event))

Event(kind) == [kind |-> kind]
About(kind, g) == [kind |-> kind, of |-> g]

\* The session as it is comes to s, what waits in the box handed over.
HandOver(s) == Dispatch([s EXCEPT !.waiting = FALSE], [kind |-> "input", text |-> s.text])

-----------------------------------------------------------------------------
(***************************************************************************)
(* The learner.                                                            *)
(***************************************************************************)
CanAct == Running /\ Cardinality(session.timers) <= MaxTimers

\* The box of s now holds a: handed over at once if it is of its group's length.
Edit(s, a) ==
  LET held == [s EXCEPT !.text = a, !.waiting = TRUE]
  IN  IF a \in Whole THEN HandOver(held) ELSE held

Types(a) ==
  /\ CanAct /\ Live(session) /\ a # session.text
  /\ session' = Edit(session, a)
  /\ UNCHANGED resumes

\* Typing has paused.
HandsOver ==
  /\ Running /\ session.waiting
  /\ session' = HandOver(session)
  /\ UNCHANGED resumes

\* A letter is begun with the paddles, and keyed in full.
Keys ==
  /\ "paddles" \in Happens /\ Running
  /\ \/ session.letter = "none" /\ Live(session) /\ session' = [session EXCEPT !.letter = "open"]
     \/ session.letter = "open" /\ session' = [session EXCEPT !.letter = "keyed"]
  /\ UNCHANGED resumes

\* Its letter space has run out: it goes into the box, if it spells anything and
\* the box still takes it.  One that spells nothing and is finished as an answer
\* closes (FinishEntry) has landed just before.
LetterLands ==
  /\ CanAct /\ session.letter = "keyed"
  /\ LET ended == [session EXCEPT !.letter = "none"]
     IN  \/ Live(session) /\ \E a \in Longer(session.text) : session' = Edit(ended, a)
         \/ session' = ended
  /\ UNCHANGED resumes

Confirms(grown) ==
  /\ CanAct /\ Live(session) /\ grown \in Grown(session)
  /\ session' = Dispatch(session, [kind |-> "confirm", grown |-> grown])
  /\ UNCHANGED resumes

\* End session, or Exit.
Finishes(grown) ==
  /\ Running /\ grown \in Grown(session)
  /\ session' = Dispatch(session, [kind |-> "finish", grown |-> grown])
  /\ UNCHANGED resumes

\* Discard.
Discards ==
  /\ Running
  /\ session' = Dispatch(session, Event("abort"))
  /\ UNCHANGED resumes

\* The page goes out of sight, or Back is pressed.
Pauses ==
  /\ Running /\ ~Paused(session)
  /\ session' = Dispatch(session, Event("pause"))
  /\ UNCHANGED resumes

\* resume_session: the audio is claimed afresh, and what came under the claim
\* before is no longer the session's to hear.
Resumes ==
  /\ Running /\ Paused(session) /\ resumes < MaxResumes
  /\ session' = Dispatch([session EXCEPT !.held = TRUE, !.stopped = {}], Event("resume"))
  /\ resumes' = resumes + 1

-----------------------------------------------------------------------------
(***************************************************************************)
(* Time.                                                                   *)
(***************************************************************************)
TimerFires(id) ==
  /\ Running /\ id \in session.timers
  /\ session' = Dispatch([session EXCEPT !.timers = @ \ {id}], [kind |-> "timer", id |-> id])
  /\ UNCHANGED resumes

\* EMPTY_CONFIRM_GUARD_MS have passed since the group began.
TimePasses ==
  /\ Running /\ session.fresh
  /\ session' = [session EXCEPT !.fresh = FALSE]
  /\ UNCHANGED resumes

\* Nothing of the app runs for longer than HEARTBEAT_GAP_MS.
HeldBack ==
  /\ "gaps" \in Happens /\ Running /\ ~Paused(session) /\ ~session.away
  /\ session' = [session EXCEPT !.away = TRUE]
  /\ UNCHANGED resumes

\* A heartbeat after it.
Beats ==
  /\ Running /\ session.away
  /\ session' = PauseIfAway(session)
  /\ UNCHANGED resumes

-----------------------------------------------------------------------------
(***************************************************************************)
(* A send (play, and Lease::send).                                         *)
(***************************************************************************)
With(s, send, now) == [s EXCEPT !.sends = (@ \ {send}) \cup {now}]

SendStarts ==
  /\ Running
  /\ \E send \in session.sends :
       /\ ~send.out
       /\ session' = Dispatch(
            [With(session, send, [send EXCEPT !.out = TRUE, !.sounded = FALSE, !.lost = FALSE])
               EXCEPT !.groups[send.of].all = IF send.sounded THEN @ + 1 ELSE @],
            About("started", send.of))
  /\ UNCHANGED resumes

\* The moment its first character is planned to be heard at comes, the attempt
\* that planned it out yet, or failed and to be tried again.  The session is not
\* told, and weighs the moment when it pauses: what is heard in a gap came after
\* the pause.
FirstSounds ==
  /\ Running /\ ~session.away
  /\ \E send \in session.sends :
       /\ send.out \/ session.groups[send.of].sending = "silent"
       /\ ~send.sounded
       /\ session' = [With(session, send, [send EXCEPT !.sounded = TRUE]) EXCEPT
            !.groups[send.of].sending = IF @ = "silent" THEN "sounded" ELSE @]
  /\ UNCHANGED resumes

\* A poll finds that some of it was skipped, characters among it or not.
SendMisses ==
  /\ "skips" \in Happens /\ Running
  /\ \E send \in session.sends, lost \in BOOLEAN :
       /\ send.out
       /\ session' = Dispatch(With(session, send, [send EXCEPT !.lost = @ \/ lost]),
                              [kind |-> "missed", of |-> send.of, lost |-> lost])
  /\ UNCHANGED resumes

\* It played to its end, held up on its way or not.
SendEnds ==
  /\ Running
  /\ \E send \in session.sends, held \in BOOLEAN :
       /\ send.out /\ (send.sounded \/ send.lost)
       /\ LET gone == SendGone(session, send, TRUE)
              told == IF held THEN Dispatch(gone, About("heldUp", send.of)) ELSE gone
          IN  session' = Dispatch(told, About("ended", send.of))
  /\ UNCHANGED resumes

\* An attempt fails: the send is tried again, or has failed for good.
SendFails ==
  /\ "fails" \in Happens /\ Running
  /\ \E send \in session.sends :
       session' = IF send.tries < SEND_ATTEMPTS
                  THEN With(session, send, [send EXCEPT !.out = FALSE, !.tries = @ + 1])
                  ELSE Dispatch(SendGone(session, send, FALSE), About("stopped", send.of))
  /\ UNCHANGED resumes

\* A send stopped before says so, and that it was held up, or finds first that
\* some of it was skipped.
StoppedReports ==
  /\ Running
  /\ \E g \in session.stopped :
       \/ \E held \in BOOLEAN :
            LET gone == [session EXCEPT !.stopped = @ \ {g}]
                told == IF held THEN Dispatch(gone, About("heldUp", g)) ELSE gone
            IN  session' = Dispatch(told, About("stopped", g))
       \/ \E lost \in BOOLEAN :
            /\ "skips" \in Happens
            /\ session' = Dispatch(session, [kind |-> "missed", of |-> g, lost |-> lost])
  /\ UNCHANGED resumes

-----------------------------------------------------------------------------
Next ==
  \/ \E a \in Answers : Types(a) \/ Confirms(a) \/ Finishes(a)
  \/ HandsOver
  \/ Keys
  \/ LetterLands
  \/ Discards
  \/ Pauses
  \/ Resumes
  \/ \E id \in TimerIds : TimerFires(id)
  \/ TimePasses
  \/ HeldBack
  \/ Beats
  \/ SendStarts
  \/ FirstSounds
  \/ SendMisses
  \/ SendEnds
  \/ SendFails
  \/ StoppedReports

Spec == Init /\ [][Next]_vars

\* Timers run out, sends play on, and the heartbeat comes.
FairSpec ==
  /\ Spec
  /\ \A id \in TimerIds : WF_vars(TimerFires(id))
  /\ WF_vars(Beats) /\ WF_vars(SendStarts) /\ WF_vars(FirstSounds) /\ WF_vars(SendEnds)

-----------------------------------------------------------------------------
(***************************************************************************)
(* What is promised.                                                       *)
(***************************************************************************)
Answered == {g \in Groups : session.groups[g].done}

(***************************************************************************)
(* Groups are answered one after the other, each once, and the source is   *)
(* taught each answer once, as it was kept: what learn is handed is what   *)
(* the results show (record_answer, confirm_current).                      *)
(***************************************************************************)
InOrder ==
  /\ Answered = 0 .. Cardinality(Answered) - 1
  /\ session.learned = [n \in 1 .. Cardinality(Answered) |->
                          <<n - 1, session.groups[n - 1].input>>]
  /\ Answerable(session) => session.about = session.current /\ session.current \notin Answered
  /\ session.over = "kept" => Answered # {}

(***************************************************************************)
(* A session never hangs: whatever it waits for besides the learner is on  *)
(* its way, under the lease it holds - the timer of a count down or a gap, *)
(* the send of the group playing, the confirm of an answer of full length, *)
(* the window of an answer not begun (the timers of machine.rs).           *)
(***************************************************************************)
InFlight(timer, kinds) == timer.kind \in kinds /\ timer.id \in session.timers

OnItsWay ==
  LET g == session.about
      grp == session.groups[g]
  IN  Running =>
        /\ session.phase = "countdown" => InFlight(session.phaseTimer, {"countdown"})
        /\ session.phase = "interGroupGap" => InFlight(session.phaseTimer, {"gap"})
        /\ session.phase = "repeatGap" => InFlight(session.phaseTimer, {"gap", "again"})
        /\ session.phase = "playing" => \E send \in session.sends : send.of = g
        /\ Answerable(session) /\ grp.complete =>
             session.auto.id \in session.timers /\ session.auto.value = grp.input
        /\ session.phase = "awaiting" /\ session.settings.window /\ ~session.begun =>
             InFlight(session.phaseTimer, {"window"})
        /\ Paused(session) => session.resume.kind # "none"

(***************************************************************************)
(* A paused session, or one that is over, plays nothing, waits for nothing *)
(* and holds no audio; one that runs holds it, and sends one send at a     *)
(* time, of the group being played (ReleaseAudio, and Lease::send's        *)
(* comment in src/player.rs).                                              *)
(***************************************************************************)
Quiet ==
  /\ session.held <=> Running /\ ~Paused(session)
  /\ ~session.held => session.timers = {} /\ session.sends = {}
  /\ Cardinality(session.sends) <= 1
  /\ \A send \in session.sends : session.phase = "playing" /\ send.of = session.about

(***************************************************************************)
(* An answer with keys from both sides of a pause, since its group's first *)
(* send, is never timed from that send (note_paused and set_input of       *)
(* session.rs): recognition times are read from the keys.                  *)
(***************************************************************************)
TimedFairly ==
  \A g \in Groups : LET grp == session.groups[g]
                    IN  grp.since /\ grp.before => grp.untimed

(***************************************************************************)
(* A group's hearings are counted right, across pauses, sends tried again, *)
(* and sends that lost some of their sound: every send heard in part, none *)
(* lost, is counted, no send twice, and an answer counts only sends that   *)
(* went out (heard and Completed::heard of session.rs, which its score     *)
(* pays for).                                                              *)
(***************************************************************************)
HeardIsRight ==
  \A g \in Groups :
    LET grp == session.groups[g]
        going == {send \in session.sends : send.of = g /\ send.sounded}
    IN  Running /\ ~grp.done =>
          /\ grp.clean <= grp.heard
          /\ grp.heard <= grp.all + Cardinality(going)
          /\ grp.counted <= grp.all + Cardinality(going)

(***************************************************************************)
(* Nothing that closes an answer overtakes what was typed: a group is      *)
(* answered with what its box holds, a letter keyed in full included where *)
(* Enter or End session closes it (AnswerOutbox of session_runtime.rs).    *)
(* And End session keeps it, confirmed or not, whatever the phase: it goes *)
(* home with nothing kept only when there was nothing to keep (finish_now).*)
(***************************************************************************)
Closes(g) == ~session.groups[g].done /\ session'.groups[g].done

InTheBox == IF Live(session) THEN Grown(session) ELSE {session.text}

NothingOvertaken ==
  [][/\ \A g \in Groups : Closes(g) => session'.groups[g].input \in InTheBox
     /\ session'.over = "home" /\ (session.text # "none" \/ Answered # {})
          => ~\E grown \in Answers : Finishes(grown)]_vars

(***************************************************************************)
(* A timer closes no answer that is being entered: neither auto-confirm    *)
(* nor the window answers over a letter under way, and neither closes an   *)
(* answer begun and not of its group's length (closes_answer, dispatch).   *)
(***************************************************************************)
Entering == session.letter # "none" \/ session.text = "uneven"

TimersWait ==
  [][(\E g \in Groups : Closes(g)) /\ Entering
       => ~\E id \in session.timers : TimerFires(id)]_vars

(***************************************************************************)
(* What the runtime promises of every send, skip and retry included: the   *)
(* group being sent, or about to be, is sent in the end, and waited for,   *)
(* unless the session is paused or ends (MAX_SENT_AGAIN of machine.rs).    *)
(***************************************************************************)
GetsOut ==
  session.phase \in {"countdown", "playing", "repeatGap", "interGroupGap"}
    ~> session.phase = "awaiting" \/ Paused(session) \/ ~Running

=============================================================================
