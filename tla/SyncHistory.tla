----------------------------- MODULE SyncHistory ----------------------------
(***************************************************************************)
(* The history of the sessions as synced devices keep it: each device's    *)
(* store, the packs in the drive, what each device keeps of them           *)
(* (SyncState), and the sync each runs (sync_once of src/sync/run.rs,      *)
(* under sync_now of src/sync/ctx.rs) while the learner finishes, deletes  *)
(* and puts back sessions.                                                 *)
(*                                                                         *)
(* A sync awaits the drive and the store at every step, so another         *)
(* device's sync, or the learner at this one, may come between any two.  A *)
(* request may fail, the answer to one that was carried out may be lost,   *)
(* and the app may stop at any point: what it then has is its store and    *)
(* the SyncState saved at the end of its last sync.                        *)
(***************************************************************************)
EXTENDS DriveState

CONSTANTS Devices,
          Fills,        \* pairs <<was, now>>: a backup holds "now", a fuller "was"
          Skew,         \* how far ahead each device's clock runs
          FaultKinds,   \* the faults that may come
          LastBack,     \* bound: the time after which none is put back
          MaxTime,      \* bound: the time the clock stops at
          MaxFaults     \* bound: faults, in all

ASSUME FillsAssumption == Fills \subseteq Records \X Records
ASSUME SkewAssumption == Skew \in [Devices -> Nat]
ASSUME BoundsAssumption == LastBack \in Nat /\ MaxTime \in Nat /\ MaxFaults \in Nat

VARIABLES
  store,      \* what each device's store has of each record
  packs,      \* the packs in the drive, each by what it holds
  saved,      \* the SyncState each device keeps between syncs
  run,        \* the sync under way on each device, if any
  overlay,    \* sessions put back during it (SyncCtx.revived)
  restored,   \* what Undo of the last restore would undo, as the app holds it
  now,        \* the time
  byHand,     \* history: the records ever deleted by hand, on any device
  mine,       \* history: whether each device's last deletion of each record was
              \* made there by hand, and whether the drive was told of it
  lost,       \* history: the records each store ever lost
  faults      \* how many faults there have been

vars == <<store, packs, saved, run, overlay, restored, now, byHand, mine, lost, faults>>

Times == [Records -> Nat]
None  == [r \in Records |-> 0]

SyncState == [read : SUBSET Word, drive : Word, applied : Times, revived : Times]
NewState  == [read |-> {}, drive |-> Blank, applied |-> None, revived |-> None]

Steps   == {"idle", "started", "read", "listed", "again", "planned", "gathered",
            "sending", "failing"}
PlanOf  == [take : SUBSET Records, takeBack : SUBSET Records, letGo : SUBSET Records,
            send : SUBSET Records, sendDeleted : SUBSET Records, sendBack : SUBSET Records]
NoPlan  == [take |-> {}, takeBack |-> {}, letGo |-> {},
            send |-> {}, sendDeleted |-> {}, sendBack |-> {}]
RunOf   == [step : Steps, at : Nat, state : SyncState, read : SUBSET Word, drive : Word,
            bytes : SUBSET Records, listed : SUBSET Records, plan : PlanOf,
            here : SUBSET Records]
NoRun   == [step |-> "idle", at |-> 0, state |-> NewState, read |-> {}, drive |-> Blank,
            bytes |-> {}, listed |-> {}, plan |-> NoPlan, here |-> {}]

TypeOK ==
  /\ store \in [Devices -> [Records -> {"none", "live", "forgotten"}]]
  /\ packs \in SUBSET Word
  /\ saved \in [Devices -> SyncState]
  /\ run \in [Devices -> RunOf]
  /\ overlay \in [Devices -> Times]
  /\ restored \in [Devices -> SUBSET Fills]
  /\ now \in Nat
  /\ byHand \in SUBSET Records
  /\ mine \in [Devices -> [Records -> {"no", "untold", "told"}]]
  /\ lost \in [Devices -> SUBSET Records]
  /\ faults \in Nat

Listed(d)    == {r \in Records : store[d][r] = "live"}
Forgotten(d) == {r \in Records : store[d][r] = "forgotten"}
Running(d)   == run[d].step # "idle"

\* The times of one map, those of another in their place (BTreeMap::extend).
Extend(times, more) == [r \in Records |-> IF more[r] > 0 THEN more[r] ELSE times[r]]

\* Mutant of Clock: the time since the first sync, which a device may ask for
\* before there is one.
ClockSinceSync(d) == now - 3 + Skew[d]

\* What the clock of d reads.
Clock(d) == now + Skew[d]

\* Devices turn sync on with any history: finished here, restored from a
\* backup of another device, or deleted before sync was on.
Init ==
  /\ store \in [Devices -> [Records -> {"none", "live", "forgotten"}]]
  /\ packs = {}
  /\ saved = [d \in Devices |-> NewState]
  /\ run = [d \in Devices |-> NoRun]
  /\ overlay = [d \in Devices |-> None]
  /\ restored = [d \in Devices |-> {}]
  /\ now = 2
  /\ byHand = UNION {Forgotten(d) : d \in Devices}
  /\ mine = [d \in Devices |-> [r \in Records |-> IF store[d][r] = "forgotten"
                                                THEN "untold" ELSE "no"]]
  /\ lost = [d \in Devices |-> {}]
  /\ faults = 0

-----------------------------------------------------------------------------
(***************************************************************************)
(* One change of a store's history (HistoryFiles::make): deletions undone, *)
(* then records put, then deletions.  A record deleted and not undone      *)
(* stays deleted, and one already there is not written over.               *)
(***************************************************************************)
Made(here, put, unforget, forget) ==
  LET undone(r) == IF r \in unforget /\ here[r] = "forgotten" THEN "none" ELSE here[r]
      placed(r) == IF r \in put /\ undone(r) = "none" THEN "live" ELSE undone(r)
  IN  [r \in Records |-> IF r \in forget THEN "forgotten" ELSE placed(r)]

\* The store of d after a change, the deletions "own" made by hand.
ChangeStore(d, put, unforget, forget, own) ==
  /\ store' = [store EXCEPT ![d] = Made(@, put, unforget, forget)]
  /\ byHand' = byHand \cup own
  /\ mine' = [mine EXCEPT ![d] = [r \in Records |->
                CASE r \in own                                   -> "untold"
                  [] r \in forget \ own /\ store[d][r] = "live" -> "no"
                  [] OTHER                                       -> mine[d][r]]]

\* A change the learner makes.
HandChange(d, put, forget) == ChangeStore(d, put, put, forget, forget)

\* Told that sessions were put back by hand (sync_revived): noted with the
\* state, saved at once, or beside it while a sync has the state in hand.
Revived(d, ids) ==
  LET back == [r \in Records |-> IF r \in ids THEN Clock(d) + 1 ELSE 0]
  IN  /\ now' = now + 2
      /\ IF Running(d)
           THEN /\ overlay' = [overlay EXCEPT ![d] = Extend(@, back)]
                /\ UNCHANGED saved
           ELSE /\ saved' = [saved EXCEPT ![d].revived = Extend(@, back)]
                /\ UNCHANGED overlay

MayPutBack == now < LastBack
MayFault(kind) == kind \in FaultKinds /\ faults < MaxFaults /\ faults' = faults + 1

-----------------------------------------------------------------------------
(***************************************************************************)
(* The learner.                                                            *)
(***************************************************************************)

\* A session finishes, and is stored (keep_finished).
Finish(d, r) ==
  /\ \A e \in Devices : store[e][r] = "none" /\ r \notin lost[e]
  /\ ~Held(WordOf(packs), r)
  /\ HandChange(d, {r}, {})
  /\ UNCHANGED <<packs, saved, run, overlay, restored, now, lost, faults>>

\* A session is deleted (delete_sessions), or what a restore added is, as
\* Undo of it deletes it.  Sync keeps no note of it: the store does.
Delete(d, r) ==
  /\ r \in Listed(d)
  /\ HandChange(d, {}, {r})
  /\ UNCHANGED <<packs, saved, run, overlay, restored, now, lost, faults>>

\* A session is put back: by Undo of its deletion (undo_delete), or by a
\* restore of a backup that holds it (restore_now, restored).
PutBack(d, r) ==
  /\ MayPutBack
  /\ r \notin Listed(d)
  /\ HandChange(d, {r}, {})
  /\ Revived(d, {r})
  /\ UNCHANGED <<packs, run, restored, lost, faults>>

\* A restore fills in a session with the fuller one of the backup, a record
\* of its own, in its place: the one it fills in is deleted.
FillIn(d, was, fill) ==
  /\ MayPutBack
  /\ <<was, fill>> \in Fills
  /\ was \in Listed(d) /\ fill \notin Listed(d)
  /\ HandChange(d, {fill}, {was})
  /\ Revived(d, {fill})
  /\ restored' = [restored EXCEPT ![d] = {<<was, fill>>}]
  /\ UNCHANGED <<packs, run, lost, faults>>

\* Undo of that restore: what it filled in, if it is here still, is put back
\* as it was, and what took its place deleted (undo_restore).
UndoRestore(d) ==
  /\ restored[d] # {}
  /\ restored' = [restored EXCEPT ![d] = {}]
  /\ LET here == {fill \in restored[d] : fill[2] \in Listed(d)}
         was  == {fill[1] : fill \in here}
         gone == {fill[2] : fill \in here}
     IN  HandChange(d, was, gone)
  /\ UNCHANGED <<packs, saved, run, overlay, now, lost, faults>>

\* A store lets a record go for want of room, or a file of it is lost.
Lose(d, r) ==
  /\ MayFault("lose")
  /\ r \in Listed(d)
  /\ store' = [store EXCEPT ![d][r] = "none"]
  /\ lost' = [lost EXCEPT ![d] = @ \cup {r}]
  /\ UNCHANGED <<packs, saved, run, overlay, restored, now, byHand, mine>>

-----------------------------------------------------------------------------
(***************************************************************************)
(* The sync of one device.                                                 *)
(***************************************************************************)

\* A sync starts with a copy of the state, the notes set beside it taken in
\* (sync_now).
Start(d) ==
  /\ ~Running(d)
  /\ LET state == [saved[d] EXCEPT !.revived = Extend(@, overlay[d])]
     IN  run' = [run EXCEPT ![d] = [NoRun EXCEPT !.step  = "started",
                                                !.at    = Clock(d),
                                                !.state = state,
                                                !.read  = state.read,
                                                !.drive = state.drive]]
  /\ overlay' = [overlay EXCEPT ![d] = None]
  /\ UNCHANGED <<store, packs, saved, restored, now, byHand, mine, lost, faults>>

\* It lists the drive, and reads every pack not read before (read_packs).  A
\* pack never changes, so reading it later than listing it shows the same.
Look(d) ==
  /\ run[d].step = "started"
  /\ LET new == packs \ run[d].read
     IN  run' = [run EXCEPT ![d].step  = "read",
                            ![d].read  = run[d].read \cup new,
                            ![d].drive = Take(run[d].drive, WordOf(new)),
                            ![d].bytes = {r \in Records : Held(WordOf(new), r)}]
  /\ UNCHANGED <<store, packs, saved, overlay, restored, now, byHand, mine, lost, faults>>

\* The store is asked what it lists (history_listing).
List(d) ==
  /\ run[d].step = "read"
  /\ run' = [run EXCEPT ![d].step = "listed", ![d].listed = Listed(d)]
  /\ UNCHANGED <<store, packs, saved, overlay, restored, now, byHand, mine, lost, faults>>

\* Mutant of Planned: whatever the store does not list, it deleted.
PlannedOfMissing(d, w, listed) ==
  Plan(w, listed, Records \ listed, run[d].state.applied, run[d].state.revived)

\* Mutant of Planned: whatever the drive does not hold goes here.
PlannedAsMirror(d, w, listed) ==
  [Plan(w, listed, Forgotten(d), run[d].state.applied, run[d].state.revived)
     EXCEPT !.letGo = listed \ Alive(w), !.send = {}]

\* Mutant of Planned: what was let go for the drive is never taken back.
PlannedWithoutBack(d, w, listed) ==
  [Plan(w, listed, Forgotten(d), run[d].state.applied, run[d].state.revived)
     EXCEPT !.takeBack = {}]

\* The plan of a sync of d that has read the word w, by what the store says
\* it deleted now (planned).
Planned(d, w, listed) ==
  Plan(w, listed, Forgotten(d), run[d].state.applied, run[d].state.revived)

\* A record to take that no pack just read holds.
Wanting(plan, bytes) == ~(plan.take \cup plan.takeBack \subseteq bytes)

\* The store is asked what it deleted of the rest, and the plan made.  Where
\* that wants what only a pack read before holds, every pack is to be read
\* again.
MakePlan(d) ==
  /\ run[d].step = "listed"
  /\ LET plan  == Planned(d, run[d].drive, run[d].listed)
         again == Wanting(plan, run[d].bytes) /\ run[d].state.read # {}
     IN  run' = [run EXCEPT ![d].step = IF again THEN "again" ELSE "planned",
                            ![d].plan = plan]
  /\ UNCHANGED <<store, packs, saved, overlay, restored, now, byHand, mine, lost, faults>>

\* Every pack listed as the sync began is read again, and the plan made
\* anew, of what the store listed then.
ReadAgain(d) ==
  /\ run[d].step = "again"
  /\ LET word == WordOf(run[d].read)
     IN  run' = [run EXCEPT ![d].step  = "planned",
                            ![d].drive = word,
                            ![d].bytes = {r \in Records : Held(word, r)},
                            ![d].plan  = Planned(d, word, run[d].listed)]
  /\ UNCHANGED <<store, packs, saved, overlay, restored, now, byHand, mine, lost, faults>>

\* The sessions the plan sends are read, those the store can still read
\* (read_here).
Gather(d) ==
  /\ run[d].step = "planned"
  /\ LET here == (run[d].plan.send \cup run[d].plan.sendBack) \cap Listed(d)
     IN  run' = [run EXCEPT ![d].step = "gathered", ![d].here = here]
  /\ UNCHANGED <<store, packs, saved, overlay, restored, now, byHand, mine, lost, faults>>

\* What a sync of d takes, and the deletions it undoes to take some of it.
Taken(d)  == (run[d].plan.take \cup run[d].plan.takeBack) \cap run[d].bytes
Undone(d) == run[d].plan.takeBack \cap run[d].bytes

\* Mutants of Noted: deletions taken from the drive are noted at the time of
\* the sync, not of the deletion; they are not noted; no note of a session put
\* back is kept.
NotedAtSync(d) ==
  [read    |-> run[d].read,
   drive   |-> run[d].drive,
   applied |-> [r \in Records |-> CASE r \in run[d].plan.letGo -> run[d].at
                                    [] r \in Undone(d)         -> 0
                                    [] OTHER                   -> run[d].state.applied[r]],
   revived |-> [r \in Records |-> IF r \in run[d].plan.sendBack
                                    THEN run[d].state.revived[r] ELSE 0]]
NotedUnapplied(d) ==
  [read    |-> run[d].read,
   drive   |-> run[d].drive,
   applied |-> run[d].state.applied,
   revived |-> [r \in Records |-> IF r \in run[d].plan.sendBack
                                    THEN run[d].state.revived[r] ELSE 0]]
NotedWithoutBack(d) ==
  [read    |-> run[d].read,
   drive   |-> run[d].drive,
   applied |-> [r \in Records |-> CASE r \in run[d].plan.letGo -> run[d].drive[r].tomb
                                    [] r \in Undone(d)         -> 0
                                    [] OTHER                   -> run[d].state.applied[r]],
   revived |-> None]

\* The state a sync of d notes as what it read is taken in: when the drive
\* made each deletion taken from it, and the sessions put back that are to be
\* sent, whose notes stay until they are.
Noted(d) ==
  [read    |-> run[d].read,
   drive   |-> run[d].drive,
   applied |-> [r \in Records |-> CASE r \in run[d].plan.letGo -> run[d].drive[r].tomb
                                    [] r \in Undone(d)         -> 0
                                    [] OTHER                   -> run[d].state.applied[r]],
   revived |-> [r \in Records |-> IF r \in run[d].plan.sendBack
                                    THEN run[d].state.revived[r] ELSE 0]]

\* What a sync of d sends once it has: of the sessions, those it read.
Sends(d) ==
  [NoPlan EXCEPT !.send        = run[d].plan.send \cap run[d].here,
                 !.sendDeleted = run[d].plan.sendDeleted,
                 !.sendBack    = run[d].plan.sendBack \cap run[d].here]

\* What the drive holds is taken into the store in one change, and noted.
Change(d) ==
  /\ run[d].step = "gathered"
  /\ ChangeStore(d, Taken(d), Undone(d), run[d].plan.letGo, {})
  /\ run' = [run EXCEPT ![d] = [NoRun EXCEPT !.step  = "sending",
                                            !.at    = run[d].at,
                                            !.state = Noted(d),
                                            !.plan  = Sends(d)]]
  /\ UNCHANGED <<packs, saved, overlay, restored, now, lost, faults>>

\* The change fails partway: some deletions undone, then some records put,
\* and nothing deleted.
ChangeFails(d) ==
  /\ MayFault("fail")
  /\ run[d].step = "gathered"
  /\ Taken(d) \cup run[d].plan.letGo # {}
  /\ \E undone \in SUBSET Undone(d), put \in SUBSET Taken(d) :
       /\ put # {} => undone = Undone(d)
       /\ store' = [store EXCEPT ![d] = Made(@, put, undone, {})]
       /\ lost' = [lost EXCEPT ![d] = @ \cup {r \in undone : store'[d][r] = "none"}]
  /\ run' = [run EXCEPT ![d].step = "failing"]
  /\ UNCHANGED <<packs, saved, overlay, restored, now, byHand, mine>>

ToSend(d) == run[d].plan.send \cup run[d].plan.sendDeleted \cup run[d].plan.sendBack

\* The next pack of d: every deletion and putting back to tell of, in the
\* first, and as many of the records to send as it has room for (packs_of).
NextPack(d, put) ==
  [r \in Records |->
     [put    |-> r \in put,
      tomb   |-> IF r \in run[d].plan.sendDeleted THEN run[d].at ELSE 0,
      revive |-> IF r \in run[d].plan.sendBack THEN run[d].state.revived[r] ELSE 0]]

MayPack(d, put) ==
  /\ run[d].step = "sending"
  /\ ToSend(d) # {}
  /\ put \subseteq run[d].plan.send
  /\ run[d].plan.send # {} => put # {}

\* The deletions of d a pack tells of, told.
Tell(d) ==
  mine' = [mine EXCEPT ![d] = [r \in Records |->
             IF r \in run[d].plan.sendDeleted /\ mine[d][r] = "untold"
               THEN "told" ELSE mine[d][r]]]

\* Mutant of Sent: the pack is noted as read, and what it says is not.
SentUnread(d, pack) ==
  [read    |-> run[d].state.read \cup {pack},
   drive   |-> run[d].state.drive,
   applied |-> run[d].state.applied,
   revived |-> [r \in Records |-> IF r \in run[d].plan.sendBack THEN 0
                                 ELSE run[d].state.revived[r]]]

\* A pack sent is taken as read, and the notes of what it puts back go.
Sent(d, pack) ==
  [read    |-> run[d].state.read \cup {pack},
   drive   |-> Take(run[d].state.drive, pack),
   applied |-> run[d].state.applied,
   revived |-> [r \in Records |-> IF r \in run[d].plan.sendBack THEN 0
                                 ELSE run[d].state.revived[r]]]

\* A pack is sent, and answered (send_pack).
Send(d) ==
  \E put \in SUBSET run[d].plan.send :
    /\ MayPack(d, put)
    /\ packs' = packs \cup {NextPack(d, put)}
    /\ run' = [run EXCEPT ![d].state = Sent(d, NextPack(d, put)),
                          ![d].plan  = [NoPlan EXCEPT !.send = run[d].plan.send \ put]]
    /\ Tell(d)
    /\ UNCHANGED <<store, saved, overlay, restored, now, byHand, lost, faults>>

\* A pack is sent, and the drive's answer lost: an error to this device.
AnswerLost(d) ==
  /\ MayFault("answer")
  /\ \E put \in SUBSET run[d].plan.send :
       MayPack(d, put) /\ packs' = packs \cup {NextPack(d, put)}
  /\ run' = [run EXCEPT ![d].step = "failing"]
  /\ Tell(d)
  /\ UNCHANGED <<store, saved, overlay, restored, now, byHand, lost>>

\* Mutant of End: every pack then in the drive is noted as read.
EndAllRead(d) ==
  /\ saved' = [saved EXCEPT ![d] =
                  [run[d].state EXCEPT !.revived = Extend(@, overlay[d]),
                                       !.read = packs, !.drive = WordOf(packs)]]
  /\ run' = [run EXCEPT ![d] = NoRun]
  /\ overlay' = [overlay EXCEPT ![d] = None]
  /\ UNCHANGED <<store, packs, restored, now, byHand, mine, lost>>

\* The sync ends, and the state as it left it is saved with the notes set
\* beside it meanwhile.
End(d) ==
  /\ saved' = [saved EXCEPT ![d] =
                  [run[d].state EXCEPT !.revived = Extend(@, overlay[d])]]
  /\ run' = [run EXCEPT ![d] = NoRun]
  /\ overlay' = [overlay EXCEPT ![d] = None]
  /\ UNCHANGED <<store, packs, restored, now, byHand, mine, lost>>

EndWell(d) ==
  /\ run[d].step = "sending"
  /\ ToSend(d) = {}
  /\ End(d)
  /\ UNCHANGED faults

\* An error ends it: a change or an answer that failed, or a request or the
\* store's listing at any step that makes one.
EndFailing(d) ==
  /\ run[d].step = "failing"
  /\ End(d)
  /\ UNCHANGED faults

Fail(d) ==
  /\ MayFault("fail")
  /\ run[d].step \in {"started", "read", "again", "sending"}
  /\ run' = [run EXCEPT ![d].step = "failing"]
  /\ UNCHANGED <<store, packs, saved, overlay, restored, now, byHand, mine, lost>>

\* A deletion taken from the drive whose note is gone is from then on as one
\* made here by hand: nothing tells the two apart.
Unnoted(d, was, left) ==
  mine' = [mine EXCEPT ![d] = [r \in Records |->
             IF mine[d][r] = "no" /\ was[r] > left[r] THEN "untold" ELSE mine[d][r]]]

\* The app stops, and is started again: what it held in memory is gone.
Crash(d) ==
  /\ MayFault("crash")
  /\ Running(d) \/ restored[d] # {}
  /\ Unnoted(d, run[d].state.applied, saved[d].applied)
  /\ run' = [run EXCEPT ![d] = NoRun]
  /\ overlay' = [overlay EXCEPT ![d] = None]
  /\ restored' = [restored EXCEPT ![d] = {}]
  /\ UNCHANGED <<store, packs, saved, now, byHand, lost>>

\* What sync keeps here goes, and sync is turned on again: a device joins
\* with its store as it is and nothing else (sync_forget, SyncState::new).
Rejoin(d) ==
  /\ MayFault("rejoin")
  /\ ~Running(d)
  /\ Unnoted(d, saved[d].applied, None)
  /\ saved' = [saved EXCEPT ![d] = NewState]
  /\ UNCHANGED <<store, packs, run, overlay, restored, now, byHand, lost>>

-----------------------------------------------------------------------------
\* Time goes by.  It moves on by two, and by two with each session put back,
\* which takes the time between: so no session is deleted and put back in the
\* same millisecond, where no clock is an odd time ahead.
Tick ==
  /\ now < MaxTime
  /\ now' = now + 2
  /\ UNCHANGED <<store, packs, saved, run, overlay, restored, byHand, mine, lost, faults>>

Sync(d) == \/ Start(d)
           \/ Look(d)
           \/ List(d)
           \/ MakePlan(d)
           \/ ReadAgain(d)
           \/ Gather(d)
           \/ Change(d)
           \/ Send(d)
           \/ EndWell(d)
           \/ EndFailing(d)

Fault(d) == \/ \E r \in Records : Lose(d, r)
            \/ ChangeFails(d)
            \/ AnswerLost(d)
            \/ Fail(d)
            \/ Crash(d)
            \/ Rejoin(d)

Learner(d) == \/ \E r \in Records : Finish(d, r) \/ Delete(d, r) \/ PutBack(d, r)
              \/ \E was, fill \in Records : FillIn(d, was, fill)
              \/ UndoRestore(d)

Next == Tick \/ \E d \in Devices : Sync(d) \/ Fault(d) \/ Learner(d)

Spec == Init /\ [][Next]_vars

\* Each device goes on syncing, as the app does when it opens, after every
\* change and when it comes back into sight, and time goes by; the learner and
\* the faults are under no obligation.
FairSpec == Spec /\ WF_vars(Tick) /\ \A d \in Devices : WF_vars(Sync(d))

-----------------------------------------------------------------------------
(***************************************************************************)
(* What makes it correct.                                                  *)
(***************************************************************************)

\* What a device keeps of the drive is the word of the packs it notes as
\* read, and so is what a sync goes by: whatever was read afresh, failed,
\* sent, or sent and its answer lost (state.rs, "what those packs put
\* together say").
ViewOf(v) == v.read \subseteq packs /\ v.drive = WordOf(v.read)

DriveView ==
  \A d \in Devices : ViewOf(saved[d]) /\ ViewOf(run[d]) /\ ViewOf(run[d].state)

\* Missing is never deleted: a record no one ever deleted by hand is deleted
\* in no store and by no pack, whatever the stores lost and whichever syncs
\* failed halfway (plan.rs).
MissingIsNeverDeleted ==
  \A r \in Records :
    \/ \E d \in Devices : r \in Forgotten(d)
    \/ \E p \in packs : p[r].tomb > 0
    => r \in byHand

\* Packs are noted as read only once what they hold is in the store: what
\* the packs a device noted say is there, is there or was deleted there,
\* unless the store lost it since (run.rs, sync_once).
ReadIsStored ==
  \A d \in Devices : \A r \in Alive(saved[d].drive) :
    store[d][r] = "none" => r \in lost[d]

\* A device never waits for what cannot come: one that let a record go for
\* the drive, and sees it back there, takes it back at the next sync.  So
\* of every record alive in the drive and deleted here, either the device
\* tells the drive or the drive tells the device.
NoneIsStuck ==
  \A d \in Devices : \A r \in Alive(saved[d].drive) :
    saved[d].applied[r] > 0 => saved[d].drive[r].revive > saved[d].applied[r]

\* A note that a session was put back here stays until the drive has been
\* told, or has nothing to be told: through failures, answers lost and the
\* app stopping (run.rs, "each note of one goes once sent, or once there is
\* nothing to send of it").
NoteDropped(d, r) ==
  /\ saved[d].revived[r] > saved'[d].revived[r]
  /\ saved'[d] # NewState

NoteKept ==
  [][\A d \in Devices, r \in Records : NoteDropped(d, r) =>
       \/ \E p \in packs : p[r].revive >= saved[d].revived[r]
       \/ ~Deleted(saved'[d].drive, r)
       \/ saved'[d].drive[r].tomb >= saved[d].revived[r]
       \/ r \notin Listed(d)]_vars

\* A step of d sends a pack that deletes r, or changes its store by a sync.
SendsDeleted(d, r) == r \in run[d].plan.sendDeleted /\ packs' # packs /\ run'[d] # run[d]
Syncs(d) == store'[d] # store[d] /\ run'[d] # run[d]

\* A device tells the drive of a deletion only where the learner deleted the
\* record on it by hand: not where it let it go for another's deletion and has
\* the note of that still (plan.rs, send_deleted).
OnlyByHand ==
  [][\A d \in Devices, r \in Records : SendsDeleted(d, r) => mine[d][r] # "no"]_vars

\* A deletion told of is not told of again once another device has put the
\* session back: the putting back stands (docs/sync.md).
ToldOnce ==
  [][\A d \in Devices, r \in Records : SendsDeleted(d, r) => mine[d][r] # "told"]_vars

\* A sync never takes away a session put back here after the deletion it
\* goes by (docs/sync.md; ctx.rs, sync_revived).
PutBackIsNotTakenAgain ==
  [][\A d \in Devices, r \in Records :
       Syncs(d) /\ r \in Listed(d) /\ r \in Forgotten(d)' =>
         Extend(run[d].state.revived, overlay[d])[r] <= run[d].drive[r].tomb]_vars

\* Every session put back by hand is noted, for the drive to be told of
\* (docs/sync.md: by Undo, or by a restore).
PutBackIsNoted ==
  [][\A d \in Devices, r \in Records :
       ~Syncs(d) /\ r \in Forgotten(d) /\ r \in Listed(d)' =>
         Extend(saved[d].revived, overlay[d])'[r] > now]_vars

\* Once the learner rests, every device comes to the same history, and that
\* is what the drive says (docs/sync.md, "The history").
Settled == \A d \in Devices : Listed(d) = Alive(WordOf(packs))

Converges == <>[]Settled

\* What sync promises of the history, by what each device lists, what the
\* packs put together say, and what each device keeps of it.
Promised == INSTANCE SharedHistory
  WITH history <- [d \in Devices |-> Listed(d)],
       word    <- WordOf(packs),
       known   <- [d \in Devices |-> saved[d].drive]

KeepsPromise == Promised!Spec

=============================================================================
