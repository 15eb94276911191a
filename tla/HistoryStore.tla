---------------------------- MODULE HistoryStore ----------------------------
(***************************************************************************)
(* The history on disk, and the copies of the app that keep theirs in line *)
(* with it (src/persist/files.rs and worker.rs, and what state.rs and      *)
(* keep_cut_off of session_runtime.rs do with what the store answers).     *)
(*                                                                         *)
(* Every session is a record, a file of its own; a deletion is a tombstone *)
(* by its name.  Each copy of the app has a thread that reads and writes   *)
(* the files, one job at a time, in the order asked; the app takes up what *)
(* came of each later, in any order.  A change is many steps, and the      *)
(* copies' interleave.  Names in a folder that are not synced yet may or   *)
(* may not be there after a power cut.                                     *)
(***************************************************************************)
EXTENDS Naturals, Sequences, FiniteSets

CONSTANTS Copies,       \* copies of the app open on one folder
          Records,      \* the sessions, each by the record it is stored as
          Stored,       \* those stored, and shown by every copy, from the start
          MaxAsks,      \* bound: sessions finished, deletions and undos
          FaultsAt,     \* the steps of a change that may fail
          MaxTroubles   \* bound: steps failed, crashes and power cuts

ASSUME BoundsAssumption == MaxAsks \in Nat /\ MaxTroubles \in Nat
ASSUME StoredAssumption == Stored \subseteq Records
ASSUME FaultsAssumption == FaultsAt \subseteq {"unforget", "put", "forget", "remove"}

VARIABLES
  disk,     \* the folders of records and of tombstones, and what of each is synced
  changed,  \* whether the folders changed since each copy last noted them
  app,      \* each copy of the app
  queue,    \* the jobs each copy's thread has yet to do, the first under way
  work,     \* how far that first one is
  answers,  \* what came of jobs done, not taken up yet
  left,     \* what the marks of copies stopped carry
  loading,  \* what each copy that is opening has listed, and not yet read
  finished, \* history: the sessions finished
  deleted,  \* history: those ever deleted by hand
  sure,     \* history: those told stored, with no deletion begun since
  gone,     \* history: those told deleted, with no undo begun since
  rolled,   \* history: those a failed deletion took back from another copy's
  swept,    \* history: those a copy that was opening took away, and not stored
            \* again and synced since
  lost,     \* history: those a stop took with no mark of them left
  asks, troubles

ghosts == <<finished, deleted, sure, gone, rolled, swept, lost>>
counts == <<asks, troubles>>
vars   == <<disk, changed, app, queue, work, answers, left, loading, ghosts, counts>>

-----------------------------------------------------------------------------
(***************************************************************************)
(* A copy of the app, the jobs it asks for, and how far one is.            *)
(***************************************************************************)
\* Down, or just opened and holding nothing.
Stopped == [up |-> FALSE, here |-> {}, unsaved |-> {}, trash |-> {}, mark |-> {},
            own |-> {}, looking |-> FALSE, retrying |-> FALSE]

\* A copy that opens: what it will take away and what it will read.
Settled == [on |-> FALSE, doomed |-> {}, live |-> {}, unlinked |-> FALSE]

\* `dying` and `rising` are history: what other copies began to delete, or to
\* undo, since this job did, or were about it then; and what was passed over
\* as deleted.
Idle == [at |-> "idle", remaining |-> {}, placed |-> {}, dying |-> {}, rising |-> {}]

Change(why, put, unforget, forget, unsaved) ==
  [why |-> why, put |-> put, unforget |-> unforget, forget |-> forget, unsaved |-> unsaved]

\* A look at the store, or keep_cut_off: the records asked about, and for a
\* look's reading what of the copy's own is missing.
Ask(why, ids, missing) == Change(why, ids, missing, {}, {})

IsChange(job) == job.why \in {"keep", "delete", "undo", "retry"}

Listed == disk.records \ disk.tombstones

Ups == {c \in Copies : app[c].up}

\* A change's deletions, or its undoing, are being made.
Deleting(c) == IF work[c].at \in {"forget", "roll_back", "remove"}
                 THEN Head(queue[c]).forget ELSE {}
Undoing(c)  == IF work[c].at \in {"unforget", "put"} THEN Head(queue[c]).unforget ELSE {}

Init ==
  /\ disk = [records |-> Stored, tombstones |-> {},
             records_synced |-> Stored, tombstones_synced |-> {}]
  /\ changed = [c \in Copies |-> FALSE]
  /\ app = [c \in Copies |-> [Stopped EXCEPT !.up = TRUE, !.here = Stored]]
  /\ queue = [c \in Copies |-> <<>>]
  /\ work = [c \in Copies |-> Idle]
  /\ answers = [c \in Copies |-> {}]
  /\ left = {}
  /\ loading = [c \in Copies |-> Settled]
  /\ finished = Stored /\ deleted = {} /\ sure = Stored /\ gone = {} /\ rolled = {}
  /\ swept = {} /\ lost = {}
  /\ asks = 0 /\ troubles = 0

-----------------------------------------------------------------------------
(***************************************************************************)
(* The folders.                                                            *)
(***************************************************************************)
\* The folders hold these names now: every copy's watch sees the change.
Names(records, tombstones) ==
  /\ disk' = [disk EXCEPT !.records = records, !.tombstones = tombstones]
  /\ changed' = [c \in Copies |-> changed[c] \/ records # disk.records
                                             \/ tombstones # disk.tombstones]

SyncRecords    == /\ disk' = [disk EXCEPT !.records_synced = disk.records]
                  /\ swept' = swept \ disk.records
SyncTombstones == disk' = [disk EXCEPT !.tombstones_synced = disk.tombstones]

\* What a power cut may leave of a folder.
AfterPowerCut(names, synced) ==
  {s \in SUBSET (names \cup synced) : names \cap synced \subseteq s}

-----------------------------------------------------------------------------
(***************************************************************************)
(* One change, a step at a time (HistoryFiles::make): the deletions undone,*)
(* then the records, then the deletions, each folder synced before the     *)
(* next.  Whatever fails is tried again at the head of the queue, and told *)
(* of as failed once it has been often enough.                             *)
(***************************************************************************)
Step(c, at, remaining) ==
  work' = [work EXCEPT ![c] = [@ EXCEPT !.at = at, !.remaining = remaining]]

Takes(c, r) == work' = [work EXCEPT ![c].remaining = @ \ {r}]

\* Something goes wrong here.
Trouble == troubles < MaxTroubles /\ troubles' = troubles + 1

\* The job is done: its answer is on its way to the app.
Answer(c, ok, got) ==
  /\ answers' = [answers EXCEPT ![c] = @ \cup {[job |-> Head(queue[c]), ok |-> ok, got |-> got]}]
  /\ queue' = [queue EXCEPT ![c] = Tail(@)]
  /\ work' = [work EXCEPT ![c] = Idle]

\* What this copy did is no change for it to take up (restamp).
Restamp(c) == changed' = [changed EXCEPT ![c] = FALSE]

\* What the change stored is sure, and what it deleted gone, but for what
\* another copy was deleting, or undoing, meanwhile, and for what an undo cut
\* short left with its tombstone's going not synced.
Made(c) ==
  LET job == Head(queue[c])
  IN  /\ sure' = sure \cup (job.put \ (work[c].dying \cup disk.tombstones_synced \cup job.forget))
      /\ gone' = gone \cup (job.forget \ work[c].rising)

Begin(c) ==
  /\ queue[c] # <<>> /\ work[c].at = "idle" /\ IsChange(Head(queue[c]))
  /\ LET undone == Head(queue[c]).unforget
     IN  work' = [d \in Copies |->
           IF d = c
             THEN [at |-> IF undone = {} THEN "put" ELSE "unforget", placed |-> {},
                   remaining |-> IF undone = {} THEN Head(queue[c]).put ELSE undone,
                   dying  |-> UNION {Deleting(o) : o \in Copies \ {c}},
                   rising |-> UNION {Undoing(o) : o \in Copies \ {c}}]
             ELSE [work[d] EXCEPT !.rising = IF work[d].at = "idle" THEN {} ELSE @ \cup undone]]
  /\ gone' = gone \ Head(queue[c]).unforget
  /\ UNCHANGED <<disk, changed, app, queue, answers, left, loading, finished, deleted, sure, rolled,
                 swept, lost, counts>>

Unforget(c) ==
  /\ work[c].at = "unforget"
  /\ \/ \E r \in work[c].remaining :
          /\ Names(disk.records, disk.tombstones \ {r})
          /\ Takes(c, r)
     \/ /\ work[c].remaining = {}
        /\ SyncTombstones
        /\ Step(c, "put", Head(queue[c]).put)
        /\ UNCHANGED changed
  /\ UNCHANGED <<app, queue, answers, left, loading, ghosts, counts>>

\* One deleted already stays deleted, unless this change undoes that.
PassedOver(c, r) == r \in disk.tombstones \ Head(queue[c]).unforget

\* The deletions of the change begin.
StartForgetting(c) ==
  LET forget == Head(queue[c]).forget
  IN  /\ work' = [d \in Copies |->
           IF d = c THEN [work[c] EXCEPT !.at = "forget", !.remaining = forget]
                    ELSE [work[d] EXCEPT !.dying = IF work[d].at = "idle" THEN {}
                                                                         ELSE @ \cup forget]]
      /\ sure' = sure \ forget

\* Mutant of PutsDone: the records are not synced before the app is told.
PutsDoneUnsynced(c) ==
  /\ UNCHANGED <<disk, swept>>
  /\ IF Head(queue[c]).forget = {}
       THEN Made(c) /\ Answer(c, TRUE, {}) /\ Restamp(c)
       ELSE /\ StartForgetting(c)
            /\ UNCHANGED <<changed, queue, answers, gone>>

\* Every record is stored: the deletions are next, if there are any.
PutsDone(c) ==
  /\ IF Head(queue[c]).put # {} THEN SyncRecords ELSE UNCHANGED <<disk, swept>>
  /\ IF Head(queue[c]).forget = {}
       THEN Made(c) /\ Answer(c, TRUE, {}) /\ Restamp(c)
       ELSE /\ StartForgetting(c)
            /\ UNCHANGED <<changed, queue, answers, gone>>

Put(c) ==
  /\ work[c].at = "put"
  /\ \/ \E r \in work[c].remaining :
          /\ IF PassedOver(c, r)
               THEN /\ work' = [work EXCEPT ![c].remaining = @ \ {r}, ![c].dying = @ \cup {r}]
                    /\ UNCHANGED <<disk, changed>>
               ELSE Names(disk.records \cup {r}, disk.tombstones) /\ Takes(c, r)
          /\ UNCHANGED <<queue, answers, sure, gone, swept>>
     \/ work[c].remaining = {} /\ PutsDone(c)
  /\ UNCHANGED <<app, left, loading, finished, deleted, rolled, lost, counts>>

\* Mutant of TombstonesDone: the tombstones are not synced before the
\* records go.
TombstonesDoneUnsynced(c) == UNCHANGED disk

TombstonesDone(c) == SyncTombstones

Forget(c) ==
  /\ work[c].at = "forget"
  /\ \/ \E r \in work[c].remaining :
          /\ Names(disk.records, disk.tombstones \cup {r})
          /\ work' = [work EXCEPT ![c].remaining = @ \ {r},
                                  ![c].placed = @ \cup ({r} \ disk.tombstones)]
     \/ /\ work[c].remaining = {}
        /\ TombstonesDone(c)
        /\ Step(c, "remove", Head(queue[c]).forget)
        /\ UNCHANGED changed
  /\ UNCHANGED <<app, queue, answers, left, loading, ghosts, counts>>

\* From here the change is made: a record that will not go stays until the
\* next read.
Remove(c) ==
  /\ work[c].at = "remove"
  /\ \/ \E r \in work[c].remaining :
          /\ Names(disk.records \ {r}, disk.tombstones)
          /\ Takes(c, r)
          /\ UNCHANGED <<queue, answers, sure, gone, swept, troubles>>
     \/ \E r \in work[c].remaining :
          /\ "remove" \in FaultsAt /\ Trouble
          /\ Takes(c, r)
          /\ UNCHANGED <<disk, changed, queue, answers, sure, gone, swept>>
     \/ /\ work[c].remaining = {}
        /\ SyncRecords /\ Made(c) /\ Answer(c, TRUE, {}) /\ Restamp(c)
        /\ UNCHANGED troubles
  /\ UNCHANGED <<app, left, loading, finished, deleted, rolled, lost, asks>>

\* The change failed: tried again from the start, or told of.
Failed(c) ==
  /\ Restamp(c)
  /\ \/ /\ work' = [work EXCEPT ![c] = Idle]
        /\ UNCHANGED <<queue, answers>>
     \/ Answer(c, FALSE, {})

\* None of the tombstones placed stays unless all do.
Fail(c) ==
  /\ work[c].at \in FaultsAt \ {"remove"} /\ Trouble
  /\ IF work[c].at = "forget"
       THEN Step(c, "roll_back", work[c].placed) /\ UNCHANGED <<changed, queue, answers>>
       ELSE Failed(c)
  /\ UNCHANGED <<disk, app, left, loading, ghosts, asks>>

RollBack(c) ==
  /\ work[c].at = "roll_back"
  /\ \/ \E r \in work[c].remaining :
          /\ Names(disk.records, disk.tombstones \ {r})
          /\ Takes(c, r)
          /\ rolled' = rolled \cup ({r} \cap (gone \cup UNION {Deleting(o) : o \in Copies \ {c}}))
          /\ UNCHANGED <<queue, answers>>
     \/ work[c].remaining = {} /\ SyncTombstones /\ Failed(c) /\ UNCHANGED rolled
  /\ UNCHANGED <<app, left, loading, finished, deleted, sure, gone, swept, lost, counts>>

\* The listing is read, and the folders noted as they are then.
List(c) ==
  /\ queue[c] # <<>> /\ Head(queue[c]).why = "list"
  /\ \/ /\ work[c].at = "idle"
        /\ Step(c, "listed", Listed)
        /\ UNCHANGED <<changed, queue, answers>>
     \/ /\ work[c].at = "listed"
        /\ Restamp(c)
        /\ Answer(c, TRUE, work[c].remaining)
  /\ UNCHANGED <<disk, app, left, loading, ghosts, counts>>

\* The records asked for are read, or those of them deleted by hand found.
Find(c) ==
  /\ queue[c] # <<>> /\ Head(queue[c]).why \in {"read", "forgotten", "cut_off"}
  /\ Answer(c, TRUE, Head(queue[c]).put \cap
                       (IF Head(queue[c]).why = "read" THEN disk.records ELSE disk.tombstones))
  /\ UNCHANGED <<disk, changed, app, left, loading, ghosts, counts>>

Work(c) == \/ Begin(c) \/ Unforget(c) \/ Put(c) \/ Forget(c) \/ Remove(c)
           \/ RollBack(c) \/ List(c) \/ Find(c)

-----------------------------------------------------------------------------
(***************************************************************************)
(* The app: what it asks, and what it does with the answers.               *)
(***************************************************************************)
AppIs(c, new) == app' = [app EXCEPT ![c] = new]

\* The change is asked for, with every session of the copy's (as `new` has
\* it) the store has yet to take riding along (change_history).
Asks(c, new, why, put, unforget, forget, unsaved) ==
  /\ AppIs(c, new)
  /\ queue' = [queue EXCEPT ![c] =
       Append(@, Change(why, put \cup new.unsaved, unforget, forget, unsaved))]

\* Something the learner does.
Acts == asks < MaxAsks /\ asks' = asks + 1 /\ UNCHANGED troubles

\* A session ends here: its mark, written as it went, holds it until the
\* store has taken it (mark_kept, keep_finished).
Finish(c, r) ==
  /\ app[c].up /\ r \notin finished /\ Acts
  /\ finished' = finished \cup {r}
  /\ Asks(c, [app[c] EXCEPT !.here = @ \cup {r}, !.unsaved = @ \cup {r},
                            !.mark = @ \cup {r}, !.own = {r}],
          "keep", {r}, {}, {}, {})
  /\ UNCHANGED <<disk, changed, work, answers, left, loading, deleted, sure, gone, rolled, swept, lost>>

\* Mutant of DeleteAsked: deleted while another session waits, the waiting
\* one no longer rides along.
DeleteAskedAlone(c, picked) ==
  LET new == [app[c] EXCEPT !.here = @ \ picked, !.unsaved = {}]
  IN  Asks(c, new, "delete", {}, {}, picked, app[c].unsaved \cap picked)

DeleteAsked(c, picked) ==
  LET new == [app[c] EXCEPT !.here = @ \ picked, !.unsaved = @ \ picked]
  IN  Asks(c, new, "delete", {}, {}, picked, app[c].unsaved \cap picked)

Delete(c, picked) ==
  /\ app[c].up /\ picked # {} /\ picked \subseteq app[c].here /\ Acts
  /\ deleted' = deleted \cup picked
  /\ DeleteAsked(c, picked)
  /\ UNCHANGED <<disk, changed, work, answers, left, loading, finished, sure, gone, rolled, swept, lost>>

Undo(c) ==
  LET taken == app[c].trash
  IN  /\ app[c].up /\ taken # {} /\ Acts
      /\ Asks(c, [app[c] EXCEPT !.trash = {}, !.here = @ \cup taken],
              "undo", taken, taken, {}, {})
      /\ UNCHANGED <<disk, changed, work, answers, left, loading, ghosts>>

\* A look at the store: as a screen opens where the folders say anything
\* changed, or as a sync ends, whatever they say.  Bound: a copy has one look
\* under way at a time.
Look(c) ==
  /\ app[c].up /\ ~app[c].looking
  /\ changed' = [changed EXCEPT ![c] = FALSE]
  /\ AppIs(c, [app[c] EXCEPT !.looking = TRUE])
  /\ queue' = [queue EXCEPT ![c] = Append(@, Ask("list", app[c].here, app[c].unsaved))]
  /\ UNCHANGED <<disk, work, answers, left, loading, ghosts, counts>>

\* RETRY_MS later, what the store has yet to take is asked of it again.
Retry(c) ==
  /\ app[c].up /\ app[c].retrying
  /\ LET new == [app[c] EXCEPT !.retrying = FALSE]
     IN  IF new.unsaved # {} THEN Asks(c, new, "retry", {}, {}, {}, {})
                             ELSE AppIs(c, new) /\ UNCHANGED queue
  /\ UNCHANGED <<disk, changed, work, answers, left, loading, ghosts, counts>>

\* The mark follows what the store has taken (settle_mark); a change not
\* stored leaves it holding the session over.
SettleMark(a, ok) ==
  LET held == a.unsaved \cup (IF ok THEN {} ELSE a.own)
  IN  [a EXCEPT !.mark = held, !.own = @ \cap held]

\* Mutant of Back: what was not deleted after all is not shown again.
BackUnshown(a, job) ==
  [a EXCEPT !.here = @ \ job.unforget,
            !.unsaved = (@ \cup job.unsaved) \ job.unforget,
            !.trash = IF job.why = "undo" THEN job.unforget ELSE @]

\* The change was not made: what it deleted is back here, what it undid
\* goes again.
Back(a, job) ==
  [a EXCEPT !.here = (@ \cup job.forget) \ job.unforget,
            !.unsaved = (@ \cup job.unsaved) \ job.unforget,
            !.trash = IF job.why = "undo" THEN job.unforget ELSE @]

\* The change was made: what it stored is stored here too (took).
Taken(a, job) ==
  [a EXCEPT !.unsaved = @ \ job.put, !.trash = IF job.why = "delete" THEN job.forget ELSE @]

\* Mutant of RetryLater: a change not made is not tried again.
RetryTaken(a, ok) == [a EXCEPT !.retrying = @ \/ (ok /\ a.unsaved # {})]

RetryLater(a, ok) == [a EXCEPT !.retrying = @ \/ a.unsaved # {}]

SettleChange(c, answer) ==
  LET job  == answer.job
      took == IF answer.ok THEN Taken(app[c], job) ELSE Back(app[c], job)
  IN  /\ IsChange(job)
      /\ AppIs(c, RetryLater(SettleMark(took, answer.ok), answer.ok))
      /\ UNCHANGED queue

\* The listing is back: what is new is read, then what is missing is asked
\* after.
SettleList(c, answer) ==
  LET new     == answer.got \ answer.job.put
      missing == (answer.job.put \ answer.got) \ answer.job.unforget
  IN  /\ answer.job.why = "list"
      /\ queue' = [queue EXCEPT ![c] = Append(@, Ask("read", new, missing))]
      /\ UNCHANGED app

SettleRead(c, answer) ==
  /\ answer.job.why = "read"
  /\ queue' = [queue EXCEPT ![c] = Append(@, Ask("forgotten", answer.job.unforget, answer.got))]
  /\ UNCHANGED app

\* What the look found is taken up: one missing goes if deleted by hand, and
\* is to be stored again if not.  What is still to be stored is left alone.
TakeUp(a, arrived, missing, forgotten) ==
  LET going == (missing \cap forgotten) \ a.unsaved
      again == ((missing \ forgotten) \cap a.here) \ a.unsaved
  IN  [a EXCEPT !.looking = FALSE, !.here = (@ \ going) \cup arrived,
                !.unsaved = @ \cup again]

SettleForgotten(c, answer) ==
  LET new == TakeUp(app[c], answer.job.unforget, answer.job.put, answer.got)
  IN  /\ answer.job.why = "forgotten"
      /\ IF new.unsaved \ app[c].unsaved # {}
           THEN Asks(c, new, "retry", {}, {}, {}, {})
           ELSE AppIs(c, new) /\ UNCHANGED queue

\* What marks of copies stopped carried, but for what was deleted and what
\* is here by now, is held with this copy's mark and stored (keep_cut_off).
SettleCutOff(c, answer) ==
  LET held == (answer.job.put \ answer.got) \ app[c].here
      new  == SettleMark([app[c] EXCEPT !.here = @ \cup held, !.unsaved = @ \cup held], FALSE)
  IN  /\ answer.job.why = "cut_off"
      /\ IF held # {} THEN Asks(c, new, "keep", held, {}, {}, {})
                      ELSE UNCHANGED <<app, queue>>

\* The task that waits for an answer goes on.
Settle(c) ==
  /\ \E answer \in answers[c] :
       /\ answers' = [answers EXCEPT ![c] = @ \ {answer}]
       /\ \/ SettleChange(c, answer) \/ SettleList(c, answer) \/ SettleRead(c, answer)
          \/ SettleForgotten(c, answer) \/ SettleCutOff(c, answer)
  /\ UNCHANGED <<disk, changed, work, left, loading, ghosts, counts>>

-----------------------------------------------------------------------------
(***************************************************************************)
(* Stopping and opening again.                                             *)
(***************************************************************************)
\* Sessions taken from marks, and not yet held by this copy's own.
Taking(c) ==
  UNION ({answer.job.put : answer \in {a \in answers[c] : a.job.why = "cut_off"}}
         \cup {queue[c][i].put : i \in {j \in 1..Len(queue[c]) : queue[c][j].why = "cut_off"}})

\* A copy stops, wherever its thread is: its jobs and their answers are gone,
\* its mark stays.
Crash(c) ==
  /\ app[c].up \/ loading[c].on
  /\ Trouble
  /\ AppIs(c, Stopped)
  /\ loading' = [loading EXCEPT ![c] = Settled]
  /\ queue' = [queue EXCEPT ![c] = <<>>]
  /\ work' = [work EXCEPT ![c] = Idle]
  /\ answers' = [answers EXCEPT ![c] = {}]
  /\ left' = left \cup app[c].mark
  /\ lost' = lost \cup Taking(c)
  /\ UNCHANGED <<disk, changed, finished, deleted, sure, gone, rolled, swept, asks>>

\* The power goes: every copy stops, and the marks, which are not synced,
\* may go with it.
PowerCut ==
  /\ \E c \in Copies : app[c].up \/ loading[c].on
  /\ Trouble
  /\ \E records \in AfterPowerCut(disk.records, disk.records_synced),
        tombstones \in AfterPowerCut(disk.tombstones, disk.tombstones_synced) :
          disk' = [records |-> records, records_synced |-> records,
                   tombstones |-> tombstones, tombstones_synced |-> tombstones]
  /\ app' = [c \in Copies |-> Stopped]
  /\ loading' = [c \in Copies |-> Settled]
  /\ queue' = [c \in Copies |-> <<>>]
  /\ work' = [c \in Copies |-> Idle]
  /\ answers' = [c \in Copies |-> {}]
  /\ left' \in SUBSET (left \cup UNION {app[c].mark : c \in Copies})
  /\ lost' = finished
  /\ UNCHANGED <<changed, finished, deleted, sure, gone, rolled, swept, asks>>

\* The app opens (HistoryFiles::load): the folders are listed,
Open(c) ==
  /\ ~app[c].up /\ ~loading[c].on
  /\ loading' = [loading EXCEPT ![c] = [on |-> TRUE, doomed |-> disk.records \cap disk.tombstones,
                                        live |-> Listed, unlinked |-> FALSE]]
  /\ UNCHANGED <<disk, changed, app, queue, work, answers, left, ghosts, counts>>

\* each record listed beside its tombstone is taken away, a deletion cut short
\* finished, whatever has become of its tombstone since,
Unlink(c) ==
  /\ \E r \in loading[c].doomed :
       /\ Names(disk.records \ {r}, disk.tombstones)
       /\ loading' = [loading EXCEPT ![c].doomed = @ \ {r},
                                     ![c].unlinked = @ \/ r \in disk.records]
       /\ swept' = swept \cup ({r} \cap disk.records)
  /\ UNCHANGED <<app, queue, work, answers, left, finished, deleted, sure, gone, rolled, lost, counts>>

\* and the rest are read, those that are there still.
Loaded(c) ==
  /\ loading[c].on /\ loading[c].doomed = {}
  /\ IF loading[c].unlinked THEN SyncRecords ELSE UNCHANGED <<disk, swept>>
  /\ AppIs(c, [Stopped EXCEPT !.up = TRUE, !.here = loading[c].live \cap disk.records])
  /\ loading' = [loading EXCEPT ![c] = Settled]
  /\ Restamp(c)
  /\ UNCHANGED <<queue, work, answers, left, finished, deleted, sure, gone, rolled, lost, counts>>

\* The marks no copy holds are taken, as the app opens or a session starts:
\* what they carry that is not here is asked after (tell_of_cut_off).
TakeCutOff(c) ==
  LET kept == left \ app[c].here
  IN  /\ app[c].up /\ left # {}
      /\ left' = {}
      /\ queue' = IF kept = {} THEN queue
                  ELSE [queue EXCEPT ![c] = Append(@, Ask("cut_off", kept, {}))]
      /\ UNCHANGED <<disk, changed, app, work, answers, loading, ghosts, counts>>

-----------------------------------------------------------------------------
Next ==
  \/ \E c \in Copies :
       \/ \E r \in Records : Finish(c, r)
       \/ \E picked \in SUBSET Records : Delete(c, picked)
       \/ Undo(c) \/ Look(c) \/ Retry(c) \/ Settle(c) \/ Work(c) \/ Fail(c)
       \/ Crash(c) \/ Open(c) \/ Unlink(c) \/ Loaded(c) \/ TakeCutOff(c)
  \/ PowerCut

Spec == Init /\ [][Next]_vars

-----------------------------------------------------------------------------
(***************************************************************************)
(* Properties.                                                             *)
(***************************************************************************)
IsApp(a) ==
  /\ a.up \in BOOLEAN /\ a.looking \in BOOLEAN /\ a.retrying \in BOOLEAN
  /\ \A s \in {a.here, a.trash} : s \subseteq finished
  /\ a.unsaved \subseteq a.here
  /\ a.own \subseteq a.mark

\* Every set holds sessions finished, whatever a copy has yet to store is
\* among what it shows, a thread under way has a change to make, and a copy
\* that opens is not open.
TypeOK ==
  /\ \A n \in DOMAIN disk : disk[n] \subseteq finished
  /\ \A c \in Copies : /\ IsApp(app[c])
                       /\ work[c].at # "idle" => queue[c] # <<>>
                       /\ ~app[c].up => queue[c] = <<>> /\ answers[c] = {}
                       /\ loading[c].on => ~app[c].up
                       /\ loading[c].doomed \cup loading[c].live \subseteq finished

\* A session the app was told is stored is stored, and stays stored through
\* a power cut, until a deletion by hand of it begins: whatever other copies
\* change, wherever they stop (files.rs:329-331).  But for one a copy that was
\* opening had listed as deleted, and took away after its deletion was undone.
SureStays ==
  /\ sure \ swept \subseteq disk.records \cap disk.records_synced
  /\ sure \cap (disk.tombstones \cup disk.tombstones_synced) = {}

\* Without that exception: a change never loses a session (files.rs:329-331).
NeverLost == sure \subseteq disk.records

\* A session the app was told is deleted has its tombstone, and keeps it
\* through a power cut, until an undo of it begins: no copy shows it, and
\* none stores it again.  But for one another copy's failed deletion took
\* back.
GoneStays == gone \ rolled \subseteq disk.tombstones \cap disk.tombstones_synced

\* Without that exception: tombstones are kept for good, and only an undo
\* brings a deleted session back (docs/platforms.md:768-771).
KeptForGood == gone \subseteq disk.tombstones

\* A finished session never deleted by hand is stored, or some mark carries
\* it for the next launch, but for one whose marks were just taken as the
\* copy that took them stopped too.
FinishedIsKept ==
  \A r \in (finished \ deleted) \ lost :
    \/ r \in Listed \cup left
    \/ \E c \in Ups : r \in app[c].mark \cup Taking(c)

\* A copy with nothing to do, whose watch says nothing changed since it last
\* looked, shows what is stored.
UpToDate ==
  \A c \in Ups :
    (/\ queue[c] = <<>> /\ answers[c] = {} /\ app[c].unsaved = {} /\ ~changed[c])
      => app[c].here = Listed

\* What a copy has yet to store it is on its way to storing: a change that
\* carries it is asked for, or its answer on its way, or a retry waits.
NoneWaits ==
  \A c \in Ups : app[c].unsaved # {} =>
    \/ app[c].retrying
    \/ \E i \in 1..Len(queue[c]) : IsChange(queue[c][i])
    \/ \E answer \in answers[c] : IsChange(answer.job)
=============================================================================
