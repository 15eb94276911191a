----------------------------- MODULE ContestRun -----------------------------
(***************************************************************************)
(* A contest run: your messages, the callers that hear and answer them, the*)
(* turn on the air, and the log (machine.rs and caller.rs of cw-core's     *)
(* contest).                                                               *)
(*                                                                         *)
(* Time is left out: a turn goes on a part, a send, at a time, and a timer *)
(* that is set may fire whenever the code would heed it.  So are speeds,   *)
(* delays and odds (whatever may be drawn may happen here), what you heard *)
(* and typed of each copy, and QRM.  Which key you press is left open: any *)
(* message Enter or another key may send is sent.                          *)
(***************************************************************************)
EXTENDS Integers, Sequences, SequencesExt, FiniteSets, FiniteSetsExt

CONSTANTS Callers,    \* the stations that may come
          Styles,     \* the run styles: "Single", "Pileup"
          Calls,      \* the calls you may send, each by how it fits each station
  Phrases,    \* the messages, by their parts
          NoOne,      \* no station
          CountDown,  \* seconds to the first CQ
          DupesAfter, \* QSOs logged before a station worked may call again
          MaxKeys,    \* bound: keys that send or log
          MaxBreaks   \* bound: messages and Escs that break into a turn, pauses, and sounds that fail

Fits == {"Exact", "Close", "Partial", "No"}

PartNames == {"Cq", "HisCall", "Exchange", "Tu", "MyCall", "Again", "B4", "Nil"}

ASSUME CallsAssumption == Calls \subseteq [Callers -> Fits]
ASSUME NoOneAssumption == NoOne \notin Callers
ASSUME CallersAssumption == IsFiniteSet(Callers)
ASSUME PhrasesAssumption == Phrases \subseteq Seq(PartNames)
ASSUME BoundsAssumption ==
  {CountDown, DupesAfter, MaxKeys, MaxBreaks} \subseteq Nat /\ CountDown > 0

VARIABLES
  style,    \* how many call at once: chosen before the run
  run,      \* the phase, the countdown, whether the clock started
  timers,   \* those set
  stations, \* each station: its side of the QSO, and what the log has of it
  working,  \* the one your last call reached
  thanked,  \* the one your TU closed, not logged yet
  entries,  \* the log: QSOs, NILs and lost copies
  taught,   \* how many of them the callers to come are drawn from
  air,      \* the turn on the air
  cutShort, \* those to send again after Resume
  keys, breaks

log  == <<entries, taught>>
qsos == <<stations, working, thanked>>
vars == <<style, run, timers, qsos, log, air, cutShort, keys, breaks>>

-----------------------------------------------------------------------------
(***************************************************************************)
(* Stations.                                                               *)
(***************************************************************************)
NotCome == [state |-> "NotCome", other |-> FALSE, partial |-> FALSE, silent |-> FALSE,
            waiting |-> FALSE, engaged |-> FALSE, recorded |-> FALSE]

Arrived == [NotCome EXCEPT !.state = "NeedQso"]

Worked(s) == s.state \in {"NeedNr", "NeedCall", "NeedCallNr", "NeedEnd"}
Active(s) == s.state = "NeedQso" \/ Worked(s)

\* In a pile-up, it waits, silent, for your QSO with someone else to end.
Waits(s) == style = "Pileup" /\ s.state = "NeedQso" /\ s.other

StaysSilent(s) == s.state = "NeedNr" /\ s.silent

\* A reply timeout runs for it.
TimesOut(s) == Active(s) /\ ~Waits(s) /\ ~StaysSilent(s)

ActiveIn(st) == {c \in Callers : Active(st[c])}

\* The station in a QSO with you.
QsoStation(st, with) ==
  IF with # NoOne /\ (style = "Single" \/ st[with].state # "NeedQso") THEN with ELSE NoOne

-----------------------------------------------------------------------------
(***************************************************************************)
(* What one station makes of a message (Caller::hear).                     *)
(***************************************************************************)
Part(name) == [part |-> name]
HisCall(call) == [part |-> "HisCall", call |-> call]

Rank(fit) == CASE fit = "Exact" -> 3 [] fit = "Close" -> 2 [] fit = "Partial" -> 1 [] OTHER -> 0

\* A call goes only to the stations it fits best; of those it fits alike, to
\* one you work (Likeness).
Found(st, c, call) ==
  LET likeness(d) == IF call[d] = "No" THEN 0
                     ELSE 2 * Rank(call[d]) + (IF Worked(st[d]) THEN 1 ELSE 0)
  IN  IF \E d \in ActiveIn(st) : likeness(d) > likeness(c) THEN "No" ELSE call[c]

\* A careless operator may take a slip of its call for its own.
Takes(found) == IF found = "Close" THEN {"Close", "Exact"} ELSE {found}

\* Before it heard anything: who a call in the message was for, and whether
\* it replies, are not said yet.
Unmoved(s) == [s |-> [s EXCEPT !.silent = @ /\ ~Worked(s)], replies |-> "by its state",
               addressed |-> "no call", matched |-> FALSE, called |-> FALSE,
               took |-> FALSE, rested |-> FALSE]

Goes(h, state) == [h EXCEPT !.s.state = state]
Says(h, state) == [h EXCEPT !.s.state = state, !.replies = "yes"]

\* It forgets your QSO with anyone else.
Freed(h) == [h EXCEPT !.s.other = FALSE, !.s.partial = FALSE]

HearCq(h) ==
  LET freed == [Freed(h) EXCEPT !.rested = @ \/ Waits(h.s)]
  IN  CASE h.s.state = "NeedQso" -> Says(freed, "NeedQso")
        [] h.s.state = "NeedEnd" -> Goes(freed, "Done")
        [] h.s.state \in {"NeedNr", "NeedCall", "NeedCallNr"} -> Goes(freed, "Gone")
        [] OTHER -> freed

\* A TU works as a CQ in most contests, where it brings callers too, and in
\* the others leaves those calling as they are (tu_calls).
HearTu(h) ==
  CASE h.s.state = "NeedQso" -> {Says(Freed(h), "NeedQso"), Freed(h)}
    [] Worked(h.s) -> {Goes(Freed(h), "Done")}
    [] OTHER -> {Freed(h)}

HearCall(h, found) ==
  LET named == [h EXCEPT !.addressed = IF found = "No" THEN "another" ELSE "it",
                         !.matched = @ \/ found # "No",
                         !.called  = @ \/ found \in {"Exact", "Close"},
                         !.s.other = (found = "No"),
                         !.s.partial = @ /\ found # "No"]
      was   == h.s.state
      silent == [named EXCEPT !.replies = "no"]
  IN  CASE found = "Partial" /\ was = "NeedNr"  -> {Says(named, "NeedCallNr")}
        [] found = "Partial" /\ was = "NeedEnd" -> {Says(named, "NeedCall")}
        [] found = "Partial" /\ was = "NeedQso" ->
             {Says(named, "NeedCallNr"), [Says(named, was) EXCEPT !.s.partial = TRUE]}
        [] found = "Partial" -> {Says(named, was)}
        [] found = "Exact" /\ was \in {"NeedQso", "NeedCallNr"} -> {Goes(named, "NeedNr")}
        [] found = "Exact" /\ was = "NeedCall" -> {Goes(named, "NeedEnd")}
        [] found = "Close" /\ was \in {"NeedQso", "NeedNr"} -> {Goes(named, "NeedCallNr")}
        [] found = "Close" /\ was = "NeedEnd" -> {Goes(named, "NeedCall")}
        [] found = "No" /\ style = "Pileup" /\ was = "NeedEnd" -> {Goes(silent, "Done")}
        [] found = "No" /\ style = "Pileup" /\ Worked(h.s) -> {Goes(silent, "NeedQso")}
        [] found = "No" -> {silent}
        [] OTHER -> {named}

\* In a pile-up it may miss your exchange, and ask for it again.
HearExchange(h) ==
  LET was   == h.s.state
      forIt == h.addressed = "it" \/ h.s.partial
      waits == was \in {"NeedNr", "NeedCallNr"} \/ (was = "NeedQso" /\ forIt)
      missed == Says(h, IF was = "NeedQso" THEN "NeedCallNr" ELSE was)
      took  == [h EXCEPT !.took = @ \/ Worked(h.s)]
  IN  (IF waits /\ style = "Pileup" THEN {missed} ELSE {})
      \cup {CASE was = "NeedNr"     -> Goes(took, "NeedEnd")
              [] was = "NeedCallNr" -> Goes(took, "NeedCall")
              [] was = "NeedQso" /\ forIt -> [Says(took, "NeedCall") EXCEPT !.took = TRUE]
              [] was = "NeedQso"    -> [took EXCEPT !.replies = "no", !.s.other = TRUE]
              [] OTHER -> took}

\* B4, or NIL: the rest of the pile-up calls again, the one you work leaves.
HearOver(h, part) ==
  CASE h.s.state = "NeedQso" ->
         Says([Freed(h) EXCEPT !.rested = @ \/ (part = "Nil" /\ Waits(h.s))], "NeedQso")
    [] part = "B4" /\ h.s.state \in {"NeedCall", "NeedCallNr"} -> h
    [] Worked(h.s) /\ h.addressed # "another" /\ ~h.s.other -> Goes(h, "Gone")
    [] OTHER -> h

\* What one part may do, of a message that began with the stations as `st`.
HearPart(st, c, h, part) ==
  CASE part.part = "Cq" -> {HearCq(h)}
    [] part.part = "Tu" -> HearTu(h)
    [] part.part = "HisCall" /\ Active(h.s) ->
         UNION {HearCall(h, found) : found \in Takes(Found(st, c, part.call))}
    [] part.part = "Exchange" /\ h.addressed # "another" -> HearExchange(h)
    [] part.part = "Again" /\ Active(h.s) /\ h.addressed # "another"
         /\ ~(h.s.state = "NeedQso" /\ h.s.other) -> {[h EXCEPT !.replies = "yes"]}
    [] part.part = "MyCall" /\ h.s.state = "NeedQso" /\ ~h.s.other ->
         {[h EXCEPT !.replies = "yes"]}
    [] part.part \in {"B4", "Nil"} -> {HearOver(h, part.part)}
    [] OTHER -> {h}

\* A caller still calling spends a try on each message it answers, and the
\* last sends it away.
SpendTry(h) ==
  {h} \cup (IF h.s.state = "NeedQso" /\ h.replies = "yes" /\ ~h.rested
              THEN {Goes(h, "Gone")} ELSE {})

Replies(h) == \/ h.s.state = "NeedQso" /\ h.replies = "yes"
              \/ Worked(h.s) /\ h.replies # "no"

\* What it may make of the first i parts, and of the whole.
Hears(st, c, message) ==
  LET heard[i \in 0..Len(message)] ==
        IF i = 0 THEN {Unmoved(st[c])}
                 ELSE UNION {HearPart(st, c, h, message[i]) : h \in heard[i - 1]}
  IN  UNION {SpendTry(h) : h \in heard[Len(message)]}

Has(message, part) == \E i \in DOMAIN message : message[i].part = part

-----------------------------------------------------------------------------
(***************************************************************************)
(* What the callers make of one, and you of them.  A side of the run, as   *)
(* it is passed from step to step: the stations, who you work, whom your TU*)
(* closed, and the log.                                                    *)
(***************************************************************************)
Side(st, with, closed, logged) ==
  [stations |-> st, working |-> with, thanked |-> closed, entries |-> logged]

Now == Side(stations, working, thanked, entries)

Becomes(side) ==
  /\ stations' = side.stations /\ working' = side.working
  /\ thanked' = side.thanked   /\ entries' = side.entries

\* What those on the frequency, all but the deaf, may make of a message.
Ways(side, message, deaf) ==
  LET hearers == {c \in Callers \ deaf : side.stations[c].state # "NotCome"}
      each    == [c \in hearers |-> Hears(side.stations, c, message)]
  IN  {h \in [hearers -> UNION {each[c] : c \in hearers}] : \A c \in hearers : h[c] \in each[c]}

\* A QSO with it is begun.
Engages(h) == h.took \/ (h.matched /\ (style = "Single" \/ h.called))

Moved(st, h) ==
  [c \in Callers |-> IF c \in DOMAIN h
     THEN [h[c].s EXCEPT !.engaged = h[c].s.engaged \/ Engages(h[c])] ELSE st[c]]

\* You work one your call matched; in a pile-up no more the one it did not.
WorksNext(with, message, h) ==
  LET matched == {c \in DOMAIN h : h[c].matched}
      left    == style = "Pileup" /\ Has(message, "HisCall") /\ with \in DOMAIN h
  IN  IF matched # {} THEN matched ELSE {IF left THEN NoOne ELSE with}

\* What comes of it, with those who reply.
Outcome(side, h, with) ==
  [side |-> [side EXCEPT !.stations = Moved(@, h), !.working = with],
   replying |-> {c \in DOMAIN h : Replies(h[c])}]

\* The callers hear a message: each way it may go.
AllHear(side, message, deaf) ==
  UNION {{Outcome(side, h, with) : with \in WorksNext(side.working, message, h)} :
           h \in Ways(side, message, deaf)}

\* A QSO your TU closed waits to be logged.
Thank(side, worked, message) ==
  IF worked # NoOne /\ side.stations[worked].state = "Done" /\ Has(message, "Tu")
    THEN [side EXCEPT !.thanked = worked] ELSE side

Entry(kind, c, copy) == [kind |-> kind, station |-> c, copy |-> copy, pending |-> kind # "lost"]

\* An entry that keeps the copy of station c, if it has any left to keep.
Record(side, kind, c) ==
  LET copy == c # NoOne /\ ~side.stations[c].recorded
  IN  [side EXCEPT !.entries = Append(@, Entry(kind, c, copy)),
                   !.stations = IF copy THEN [@ EXCEPT ![c].recorded = TRUE] ELSE @]

Lose(side, c) == Record(side, "lost", c)

\* One after another, in some order.
LoseAll(side, lost) ==
  LET order == SetToSeq(lost)
      st    == side.stations
  IN  [side EXCEPT
         !.entries  = @ \o [i \in DOMAIN order |-> Entry("lost", order[i], ~st[order[i]].recorded)],
         !.stations = [c \in Callers |-> IF c \in lost THEN [st[c] EXCEPT !.recorded = TRUE]
                                                      ELSE st[c]]]

\* Stations you worked that left without a QSO in the log.
Unfinished(side) ==
  {c \in Callers \ {side.thanked} :
     /\ side.stations[c].state \in {"Done", "Gone"}
     /\ side.stations[c].engaged /\ ~side.stations[c].recorded}

\* Mutant of LetGo: one that finished is still the one you work.
LetGoLate(side) ==
  IF side.working # NoOne /\ side.stations[side.working].state = "Gone"
    THEN [side EXCEPT !.working = NoOne] ELSE side

\* You work a station no longer than it is on the frequency.
LetGo(side) ==
  IF side.working # NoOne /\ ~Active(side.stations[side.working])
    THEN [side EXCEPT !.working = NoOne] ELSE side

CloseFinished(side) ==
  LET with   == QsoStation(side.stations, side.working)
      kept   == IF with # NoOne /\ with # side.thanked
                  THEN [side EXCEPT !.thanked = NoOne] ELSE side
  IN  LetGo(LoseAll(kept, Unfinished(kept)))

Theirs(c, call) == c # NoOne /\ call[c] \in {"Exact", "Close"}

\* A QSO logged is with the station you work, or else the one your TU closed,
\* if the call is its own or close.
WorkedBy(side, call) ==
  LET with == QsoStation(side.stations, side.working)
  IN  IF Theirs(with, call) THEN with
      ELSE IF Theirs(side.thanked, call) THEN side.thanked ELSE NoOne

\* Another QSO logged: the one your TU closed is lost.
DropThanked(side, worked) ==
  LET kept == [side EXCEPT !.thanked = NoOne]
  IN  IF side.thanked \notin {NoOne, worked} /\ ~side.stations[side.thanked].recorded
        THEN Lose(kept, side.thanked) ELSE kept

\* One with nobody is against some station whose copy is not kept yet, or
\* none.
NilTargets(side, call) ==
  LET with == QsoStation(side.stations, side.working)
  IN  {NoOne} \cup
      {c \in Callers : /\ side.stations[c].state # "NotCome" /\ ~side.stations[c].recorded
                       /\ style = "Single" \/ c = with \/ Theirs(c, call)}

\* The QSO in the fields is logged, in one's log or as not in it.
Log(side, call) ==
  LET worked  == WorkedBy(side, call)
      dropped == DropThanked(side, worked)
      entered == IF worked # NoOne THEN {Record(dropped, "qso", worked)}
                 ELSE {Record(dropped, "nil", c) : c \in NilTargets(dropped, call)}
  IN  {[s EXCEPT !.working = NoOne] : s \in entered}

Logged(side) == {i \in DOMAIN side.entries : side.entries[i].kind # "lost"}

Resolved(side, rows) ==
  [side EXCEPT !.entries =
     [i \in DOMAIN @ |-> [side.entries[i] EXCEPT !.pending = @ /\ i \notin rows]]]

-----------------------------------------------------------------------------
(***************************************************************************)
(* Who comes (arrivals, join, rejoin).                                     *)
(***************************************************************************)
BringsCallers(side, message) ==
  \/ Has(message, "Cq") \/ Has(message, "Tu")
  \/ style = "Pileup" /\ Has(message, "MyCall") /\ Logged(side) # {}

\* A station worked that calls again: one on the frequency at the key, or
\* just thanked, does not.
Dupes(side, kept) ==
  {c \in Callers \ kept :
     /\ Cardinality(Logged(side)) >= DupesAfter
     /\ side.stations[c].state = "Done"
     /\ \E i \in DOMAIN side.entries : side.entries[i].station = c /\ side.entries[i].kind = "qso"}

Comes(s) == IF s.state = "NotCome" THEN Arrived
            ELSE [Arrived EXCEPT !.engaged = TRUE, !.recorded = TRUE]

\* The sets of stations that may join.
Arrivals(side, kept) ==
  LET coming == Dupes(side, kept) \cup {c \in Callers : side.stations[c].state = "NotCome"}
  IN  IF style = "Pileup" THEN SUBSET coming
      ELSE IF ActiveIn(side.stations) # {} THEN {{}}
      ELSE {{}} \cup {{c} : c \in coming}

Join(side, joined) ==
  [side EXCEPT !.stations = [c \in Callers |-> IF c \in joined THEN Comes(@[c]) ELSE @[c]]]

-----------------------------------------------------------------------------
(***************************************************************************)
(* The turn on the air: your parts, `out` of them out whole, the callers   *)
(* yet to send, sending and done in it, the rows whose check waits on it,  *)
(* and the callers as they were before the message keyed last.             *)
(***************************************************************************)
NoUnheard == [was |-> "none"]

Quiet == [on |-> FALSE, parts |-> <<>>, out |-> 0, yet |-> {}, sounding |-> {}, said |-> {},
          pending |-> {}, unheard |-> NoUnheard]

ToGo == SubSeq(air.parts, air.out + 1, Len(air.parts))

\* The rows that wait on, past a cut: those whose TU is still to go out.
PendingOn == IF Has(ToGo, "Tu") THEN air.pending ELSE {}

NoTimers == {}

\* Mutant of CutOff: a check waits on for a TU that never goes out.
CutOffCarried == Resolved(Now, air.pending \ PendingOn)

\* The turn is cut short, and what waited on it does not wait on.
CutOff == Resolved(Now, air.pending)

\* Mutant of StartWaits: only those that sent in the turn wait.
StartWaitsSenders(st) ==
  [c \in Callers |-> [st[c] EXCEPT !.waiting = TimesOut(st[c]) /\ c \in air.said]]

\* Everyone on the frequency waits for you, and the timer runs to the first
\* to give up.
StartWaits(st) == [c \in Callers |-> [st[c] EXCEPT !.waiting = TimesOut(st[c])]]

Patience(st) == IF \E c \in ActiveIn(st) : st[c].waiting THEN {"patience"} ELSE {}

\* A turn of these goes out; one with nothing in it does not.
Play(parts, pending, yet, sounding, unheard) ==
  air' = [Quiet EXCEPT !.on = TRUE, !.parts = parts, !.pending = pending,
                       !.yet = yet, !.sounding = sounding, !.unheard = unheard]

\* Mutant of Final: what the message on the air lost is taught too.
FinalAll(a, logged) == Len(logged)

\* How much of the log is final: all but what the message on the air lost,
\* which Esc can take back.
Final(a, logged) ==
  IF a.unheard # NoUnheard /\ a.unheard.entries = Len(logged)
    THEN a.unheard.lostFrom ELSE Len(logged)

Least(m, n) == IF m < n THEN m ELSE n

Teach == taught' = Max({Least(taught, Len(entries')), Final(air', entries')})

Breaks == breaks < MaxBreaks /\ breaks' = breaks + 1

Keys == run.phase = "Running" /\ keys < MaxKeys /\ keys' = keys + 1

\* A key that sends breaks into the turn that is going on.
SendKeys == Keys /\ IF air.on THEN Breaks ELSE UNCHANGED breaks

-----------------------------------------------------------------------------
(***************************************************************************)
(* Your keys.                                                              *)
(***************************************************************************)
\* Those still sending that never hear the message.  A CQ, a TU or a NIL is
\* heard by one that stops before it ends; a TU by one putting its call
\* right, too.
DeafTo(message) ==
  LET over == {c \in air.sounding : ~(Has(message, "Tu") /\ stations[c].state = "NeedCall")}
  IN  IF Has(message, "Cq") \/ Has(message, "Tu") \/ Has(message, "Nil")
        THEN SUBSET over ELSE {over}

\* Of the deaf, those that are done before the message is hear its tail as
\* garbage, and send again.
KeyedOver(message, deaf) ==
  IF Has(message, "Cq") \/ Has(message, "Tu") \/ Has(message, "Nil") THEN {{}} ELSE SUBSET deaf

Rouse(st, garbled) ==
  [c \in Callers |-> IF c \in garbled THEN [st[c] EXCEPT !.silent = @ /\ ~Worked(st[c])]
                                      ELSE st[c]]

\* Mutant of Kept: the station your TU closed is not kept.
KeptActive == ActiveIn(stations)

\* The stations a message may change, kept for Esc.
Kept == {c \in Callers : Active(stations[c]) \/ c = thanked}

\* Whoever was coming back to call does not wait for the timers now.
Unhurried == [c \in Callers |-> [stations[c] EXCEPT !.waiting = FALSE]]

\* A `?` with the Call field empty is for anyone still calling: whoever you
\* worked is forgotten.
ForAnyone(st) == [c \in Callers |-> [st[c] EXCEPT !.other = FALSE]]

\* What the message keyed takes with it, to be taken back: all that may come
\* of it, `joined` among the stations that came before, and the log from
\* `lostFrom` on.
Before(from, deaf, joined, lostFrom, n) ==
  [was |-> "keyed", stations |-> Unhurried,
   kept |-> Kept \cup {c \in joined : stations[c].state # "NotCome"},
   working |-> working, thanked |-> thanked, from |-> from, deaf |-> deaf,
   lostFrom |-> lostFrom, entries |-> n]

\* A message is sent, and the QSO with `call` logged if it is among `logs`: then
\* nothing of it can be taken back.
Send(message, logs, empty) ==
  /\ SendKeys
  /\ LET carried == ToGo
         cut     == Resolved(Now, air.pending \ PendingOn)
         heardBy == IF Has(message, "Again") /\ empty THEN ForAnyone(Unhurried) ELSE Unhurried
     IN \E deaf \in DeafTo(message) :
        \E garbled \in KeyedOver(message, deaf) :
        \E heard \in AllHear([cut EXCEPT !.stations = heardBy], message, deaf) :
          LET roused == [heard.side EXCEPT !.stations = Rouse(@, garbled)]
          IN \E said \in IF logs = {} THEN {Thank(roused, working, message)}
                         ELSE UNION {Log(roused, call) : call \in logs} :
             \E joined \in IF BringsCallers(said, message) THEN Arrivals(said, Kept) ELSE {{}} :
               LET came   == Join(said, joined)
                   closed == CloseFinished(came)
                   yet    == {c \in heard.replying \cup garbled \cup joined :
                                Active(closed.stations[c])}
                   before == Before(Len(carried), deaf, joined, Len(came.entries),
                                    Len(closed.entries))
                   row    == IF logs = {} THEN {} ELSE {Len(said.entries)}
               IN  /\ Becomes(closed)
                   /\ Play(carried \o message, PendingOn \cup row, yet, air.sounding,
                           IF logs = {} THEN before ELSE NoUnheard)
  /\ timers' = timers \ {"patience", "resume"}
  /\ cutShort' = {}
  /\ UNCHANGED <<style, run>>
  /\ Teach

\* The messages a key may send without logging, by their parts.
Messages ==
  UNION {{[i \in DOMAIN phrase |-> IF phrase[i] = "HisCall" THEN HisCall(call) ELSE Part(phrase[i])] :
            call \in Calls} : phrase \in Phrases}

\* A whole call can be logged.
Loggable == {call \in Calls : \A c \in Callers : call[c] # "Partial"}

\* A `?` is for the station in the Call field, or, where it is empty, anyone.
SendsKey ==
  \E message \in Messages :
  \E empty \in IF Has(message, "Again") THEN BOOLEAN ELSE {FALSE} : Send(message, {}, empty)

\* Enter's TU, or TU and log: the call goes out again where it changed.
LogsKey ==
  \E call \in Loggable :
    \/ Send(<<Part("Tu")>>, {call}, FALSE)
    \/ Send(<<HisCall(call), Part("Tu")>>, {call}, FALSE)

\* Logged without sending: the check shows at once.
LogOnly ==
  /\ Keys
  /\ \E call \in Loggable : \E side \in Log(Now, call) :
       Becomes(Resolved(side, {Len(side.entries)}))
  /\ UNCHANGED <<style, run, timers, air, cutShort, breaks>>
  /\ Teach

\* The stations as before a message: those it could change as they were, and
\* those who came since gone.
AsBefore(before, st) ==
  [c \in Callers |-> IF c \in before.kept THEN before.stations[c]
                     ELSE IF before.stations[c].state = "NotCome" THEN NotCome ELSE st[c]]

\* The callers, and you, as before the message keyed last.
Undone ==
  Side(AsBefore(air.unheard, stations), air.unheard.working, air.unheard.thanked,
       SubSeq(entries, 1, air.unheard.lostFrom))

\* That message is taken back, but for what of it went out whole.
Unhear ==
  LET before == air.unheard
      sent   == SubSeq(air.parts, Least(before.from, air.out) + 1, air.out)
  IN  {CloseFinished(Thank(heard.side, before.working, sent)) :
         heard \in AllHear(Undone, sent, before.deaf)}

\* Nothing has been logged, or lost, since the message was keyed.
Untold == air.unheard # NoUnheard /\ air.unheard.entries = Len(entries)

\* Mutant of TakenBack: a QSO logged meanwhile does not keep the message.
TakenBackAnyway == IF air.unheard # NoUnheard THEN Unhear ELSE {Now}

TakenBack == IF Untold THEN Unhear ELSE {Now}

\* Esc: your sending stops, the callers still sending go on, and those that
\* were listening heard garbage, and send again.
StopSending ==
  /\ run.phase = "Running" /\ air.on /\ ToGo # <<>> /\ Breaks
  /\ \E back \in TakenBack :
       LET listening == {c \in ActiveIn(back.stations) \ air.sounding : ~Waits(back.stations[c])}
           st == StartWaits(Rouse(back.stations, listening))
       IN  /\ Becomes(Resolved([back EXCEPT !.stations = st], air.pending))
           /\ IF listening \cup air.sounding = {}
                THEN air' = Quiet /\ timers' = timers \cup Patience(st)
                ELSE Play(<<>>, {}, listening, air.sounding, NoUnheard) /\ UNCHANGED timers
  /\ UNCHANGED <<style, run, cutShort, keys>>
  /\ Teach

-----------------------------------------------------------------------------
(***************************************************************************)
(* The turn goes on, and ends.                                             *)
(***************************************************************************)
OnAir == run.phase = "Running" /\ air.on

PartOut ==
  /\ OnAir /\ air.out < Len(air.parts)
  /\ air' = [air EXCEPT !.out = @ + 1]
  /\ UNCHANGED <<style, run, timers, qsos, log, cutShort, keys, breaks>>

SendBegins(c) ==
  /\ OnAir /\ c \in air.yet \ air.sounding /\ ToGo = <<>>
  /\ air' = [air EXCEPT !.yet = @ \ {c}, !.sounding = @ \cup {c}]
  /\ UNCHANGED <<style, run, timers, qsos, log, cutShort, keys, breaks>>

SendEnds(c) ==
  /\ OnAir /\ c \in air.sounding
  /\ air' = [air EXCEPT !.sounding = @ \ {c}, !.said = @ \cup {c}]
  /\ UNCHANGED <<style, run, timers, qsos, log, cutShort, keys, breaks>>

\* Its wait runs out while others still send: it calls over them, and pays
\* for the timeout as its call begins (time_outs, count_heard).
CallsOnTimeOut(c) ==
  /\ OnAir /\ ToGo = <<>> /\ TimesOut(stations[c]) /\ c \notin air.yet \cup air.sounding
  /\ air.yet \cup air.sounding # {}
  /\ air' = [air EXCEPT !.sounding = @ \cup {c}]
  /\ stations' = [stations EXCEPT ![c].other = @ /\ stations[c].state # "NeedQso"]
  /\ UNCHANGED <<style, run, timers, working, thanked, log, cutShort, keys, breaks>>

\* The checks show once your TU is out (heard_so_far).
ChecksShow ==
  /\ OnAir /\ air.pending # {} /\ ~Has(ToGo, "Tu")
  /\ entries' = Resolved(Now, air.pending).entries
  /\ air' = [air EXCEPT !.pending = {}]
  /\ UNCHANGED <<style, run, timers, qsos, taught, cutShort, keys, breaks>>

TurnEnded ==
  /\ OnAir /\ ToGo = <<>> /\ air.yet = {} /\ air.sounding = {}
  /\ Becomes([CutOff EXCEPT !.stations = StartWaits(@)])
  /\ air' = Quiet
  /\ timers' = timers \cup Patience(stations')
  /\ UNCHANGED <<style, run, cutShort, keys, breaks>>
  /\ Teach

\* What a timeout costs: a caller a try, the last sending it away; the one
\* you work another silence, the last sending it away, or leaving it silent
\* where it waits for your exchange (wait_over).
WaitOver(s) ==
  LET waited == [s EXCEPT !.waiting = FALSE]
  IN  CASE s.state = "NeedQso" -> {[waited EXCEPT !.other = FALSE],
                                   [waited EXCEPT !.other = FALSE, !.state = "Gone"]}
        [] s.state = "NeedNr"  -> {waited, [waited EXCEPT !.silent = TRUE]}
        [] OTHER -> {waited, [waited EXCEPT !.state = "Gone"]}

PatienceRanOut ==
  /\ run.phase = "Running" /\ ~air.on /\ "patience" \in timers
  /\ \E due \in SUBSET {c \in ActiveIn(stations) : stations[c].waiting} \ {{}} :
     \E st \in {f \in [Callers -> {stations[c] : c \in Callers}
                                  \cup UNION {WaitOver(stations[c]) : c \in due}] :
                  \A c \in Callers : f[c] \in IF c \in due THEN WaitOver(stations[c])
                                                           ELSE {stations[c]}} :
       LET replying == {c \in due : TimesOut(st[c])}
       IN  /\ Becomes(CloseFinished([Now EXCEPT !.stations = st]))
           /\ IF replying = {}
                THEN timers' = (timers \ {"patience"}) \cup Patience(st) /\ UNCHANGED air
                ELSE /\ timers' = timers \ {"patience"}
                     /\ Play(<<>>, {}, replying, {}, NoUnheard)
  /\ UNCHANGED <<style, run, cutShort, keys, breaks>>
  /\ Teach

-----------------------------------------------------------------------------
(***************************************************************************)
(* The run.                                                                *)
(***************************************************************************)
CountsDown ==
  /\ run.phase = "Countdown" /\ "countdown" \in timers /\ run.left > 1
  /\ run' = [run EXCEPT !.left = @ - 1]
  /\ UNCHANGED <<style, timers, qsos, log, air, cutShort, keys, breaks>>

\* The clock starts, and your first CQ goes out, bringing the first callers.
BeginRun ==
  /\ run.phase = "Countdown" /\ "countdown" \in timers /\ run.left = 1
  /\ run' = [run EXCEPT !.phase = "Running", !.begun = TRUE]
  /\ timers' = {"run_end"}
  /\ \E joined \in Arrivals(Now, {}) :
       /\ stations' = Join(Now, joined).stations
       /\ Play(<<Part("Cq")>>, {}, joined, {}, Before(0, {}, {}, 0, 0))
  /\ UNCHANGED <<style, working, thanked, log, cutShort, keys, breaks>>

Held == run' = [run EXCEPT !.phase = "Paused"] /\ timers' = NoTimers

\* Paused by you, or hidden: those cut short send again after Resume, but
\* for one that had begun where you chose the pause.
Pause(why) ==
  /\ run.phase \in {"Countdown", "Running"} /\ Breaks /\ Held
  /\ cutShort' = cutShort \cup air.yet \cup (IF why = "You" THEN {} ELSE air.sounding)
  /\ Becomes(CutOff)
  /\ air' = Quiet
  /\ UNCHANGED <<style, keys>>
  /\ Teach

\* The sound failed after every retry: everyone in the turn sends again.
SoundFailed ==
  /\ OnAir /\ Breaks /\ Held
  /\ cutShort' = cutShort \cup air.yet \cup air.sounding \cup air.said
  /\ Becomes(CutOff)
  /\ air' = Quiet
  /\ UNCHANGED <<style, keys>>
  /\ Teach

\* Paused in the countdown, it starts again.
Resume ==
  /\ run.phase = "Paused"
  /\ IF run.begun
       THEN run' = [run EXCEPT !.phase = "Running"] /\ timers' = {"run_end", "resume"}
       ELSE /\ run' = [run EXCEPT !.phase = "Countdown", !.left = CountDown]
            /\ timers' = {"countdown"}
  /\ UNCHANGED <<style, qsos, log, air, cutShort, keys, breaks>>

\* A moment after Resume, those cut short send again; the others wait for
\* you afresh.
CallersAgain ==
  /\ run.phase = "Running" /\ ~air.on /\ "resume" \in timers
  /\ cutShort' = {}
  /\ LET again == cutShort \cap ActiveIn(stations)
     IN  IF again = {}
           THEN /\ stations' = StartWaits(stations)
                /\ timers' = (timers \ {"resume"}) \cup Patience(stations')
                /\ UNCHANGED air
           ELSE /\ stations' = Unhurried
                /\ timers' = timers \ {"resume"}
                /\ Play(<<>>, {}, again, {}, NoUnheard)
  /\ UNCHANGED <<style, run, working, thanked, log, keys, breaks>>

\* Mutant of Open: only the station you work is open.
OpenWorked(st) == {c \in Callers \cap {working} : st[c].engaged /\ ~st[c].recorded}

\* QSOs still open as the run ends.
Open(st) == {c \in Callers : st[c].engaged /\ ~st[c].recorded}

\* The run is over, at its limit or by you: every open QSO is a lost copy.
Finish ==
  /\ run.phase \in {"Countdown", "Running", "Paused"}
  /\ run' = [run EXCEPT !.phase = "Finished"]
  /\ Becomes(LoseAll(CutOff, Open(stations)))
  /\ air' = Quiet /\ timers' = NoTimers
  /\ UNCHANGED <<style, cutShort, keys, breaks>>
  /\ Teach

Abort ==
  /\ run.phase \in {"Countdown", "Running", "Paused"}
  /\ run' = [run EXCEPT !.phase = "Aborted"]
  /\ air' = Quiet /\ timers' = NoTimers
  /\ UNCHANGED <<style, qsos, entries, cutShort, keys, breaks>>
  /\ Teach

Over == run.phase \in {"Finished", "Aborted"} /\ UNCHANGED vars

Init ==
  /\ style \in Styles
  /\ run = [phase |-> "Countdown", left |-> CountDown, begun |-> FALSE]
  /\ timers = {"countdown"}
  /\ stations = [c \in Callers |-> NotCome]
  /\ working = NoOne /\ thanked = NoOne
  /\ entries = <<>> /\ taught = 0
  /\ air = Quiet /\ cutShort = {} /\ keys = 0 /\ breaks = 0

Next ==
  \/ SendsKey \/ LogsKey \/ LogOnly \/ StopSending
  \/ PartOut \/ ChecksShow \/ TurnEnded \/ PatienceRanOut
  \/ \E c \in Callers : SendBegins(c) \/ SendEnds(c) \/ CallsOnTimeOut(c)
  \/ CountsDown \/ BeginRun \/ CallersAgain \/ Resume \/ SoundFailed
  \/ \E why \in {"You", "Hidden"} : Pause(why)
  \/ Finish \/ Abort \/ Over

Spec == Init /\ [][Next]_vars

-----------------------------------------------------------------------------
(***************************************************************************)
(* Properties.                                                             *)
(***************************************************************************)
Copies(c) == {i \in DOMAIN entries : entries[i].station = c /\ entries[i].copy}

\* Where the run is not running nothing sounds and no timer but the
\* countdown's is set; what is on the air is of stations that came, and
\* what is taught is in the log; the station you work is on the frequency.
TypeOK ==
  /\ run.phase \in {"Countdown", "Running", "Paused", "Finished", "Aborted"}
  /\ run.phase # "Running" => ~air.on /\ timers \subseteq {"countdown"}
  /\ run.phase = "Running" => "run_end" \in timers
  /\ ~air.on => air = Quiet
  /\ \A c \in air.yet \cup air.sounding \cup air.said \cup cutShort :
       stations[c].state # "NotCome"
  /\ taught <= Len(entries)
  /\ working # NoOne => Active(stations[working])

\* One station, one copy: a station's copy is kept where it is noted as
\* kept, and never twice, whatever Esc takes back, whoever calls again.
OneCopy ==
  \A c \in Callers : Cardinality(Copies(c)) = IF stations[c].recorded THEN 1 ELSE 0

\* A station you worked has its copy kept once it has left, but for one your
\* TU closed; and as the run is finished, every one has.
NoneHidden ==
  \A c \in Callers : stations[c].engaged =>
    \/ stations[c].recorded
    \/ run.phase # "Finished" /\ (Active(stations[c]) \/ c = thanked)

\* A logged QSO is final, and so is every entry before it: whatever comes,
\* it stays in the log as it is (Esc takes back only what logged nothing).
LoggedIsFinal ==
  [][\A i, j \in DOMAIN entries :
       i <= j /\ entries[j].kind # "lost" =>
         i <= Len(entries') /\ [entries'[i] EXCEPT !.pending = entries[i].pending] = entries[i]]_vars

\* What the callers to come were drawn from stands: Esc takes back no entry
\* already taught (teach).
TaughtStands == [][taught' >= taught]_vars

\* A row whose check has not shown waits on the turn on the air: no check is
\* left waiting once the turn is gone, however it went.
ChecksComeOut ==
  run.phase # "Aborted" =>
    \A i \in DOMAIN entries : entries[i].pending => air.on /\ i \in air.pending

\* With nothing on the air, everyone whose patience may run out has a wait
\* running, and the timer is set to it, or to those coming back after
\* Resume: no caller stands with nothing to move it on.  One that waits in a
\* pile-up for your QSO with another to end has no wait of its own: your next
\* message moves it (note_callers).
NobodyStands ==
  run.phase = "Running" /\ ~air.on =>
    \/ "resume" \in timers
    \/ /\ \A c \in Callers : TimesOut(stations[c]) => stations[c].waiting
       /\ (\E c \in ActiveIn(stations) : stations[c].waiting) => "patience" \in timers
=============================================================================
