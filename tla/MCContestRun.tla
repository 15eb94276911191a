---------------------------- MODULE MCContestRun ----------------------------
(***************************************************************************)
(* ContestRun on a small instance: the calls you may send are each         *)
(* station's own, a slip of it, a piece that fits them all, and nobody's.  *)
(***************************************************************************)
EXTENDS ContestRun, TLC

CONSTANT Slips

FewCalls ==
  {[d \in Callers |-> IF d = c THEN "Exact" ELSE "No"] : c \in Callers}
  \cup {[d \in Callers |-> fit] : fit \in Slips}

EveryPhrase == {<<"Cq">>, <<"Exchange">>, <<"Tu">>, <<"MyCall">>, <<"B4">>, <<"Again">>, <<"Nil">>,
                <<"HisCall">>, <<"HisCall", "Exchange">>, <<"HisCall", "B4">>}

Alike == Permutations(Callers)

\* What may still come of a turn: with nothing of yours to go, Esc takes
\* nothing back, and what was sent is not read again; who has sent is read
\* only where the sound fails.
OfTheTurn ==
  LET ended == [air EXCEPT !.parts = <<>>, !.out = 0,
                  !.unheard = IF @ = NoUnheard THEN @ ELSE <<@.lostFrom, @.entries>>]
      turn  == IF ToGo = <<>> THEN ended ELSE air
  IN  [turn EXCEPT !.said = IF breaks < MaxBreaks THEN @ ELSE {}]

\* A run that is over goes no further.
Seen ==
  CASE run.phase = "Aborted"  -> <<>>
    [] run.phase = "Finished" -> <<qsos, log>>
    [] OTHER -> <<style, run, timers, qsos, log, OfTheTurn, cutShort, keys, breaks>>
=============================================================================
