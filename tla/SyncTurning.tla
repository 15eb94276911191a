----------------------------- MODULE SyncTurning -----------------------------
(***************************************************************************)
(* Sync turned on and off (src/sync/ctx.rs, and look, join and delete_copy *)
(* of src/sync/run.rs), and when each device's syncs run.                  *)
(*                                                                         *)
(* The device that first turns sync on makes a keyring in the drive, which *)
(* the passphrase opens; every other joins with it.  Two that turn it on   *)
(* at once each make one, and must settle on the first made.  The key of a *)
(* keyring is then kept by the device, and a sync goes by it: it ends sync *)
(* on the device where the first keyring in the drive is another, or gone. *)
(*                                                                         *)
(* A device signs in, joins or deletes the copy in one task at a time.     *)
(* What a sync does with the history and the settings is in SyncHistory    *)
(* and SyncSettings.                                                       *)
(***************************************************************************)
EXTENDS Integers, Sequences, FiniteSets

CONSTANTS Devices, Phrases,
          Tried,        \* the passphrases the learner may enter on each
          FaultKinds,   \* the faults that may come
          MaxRings,     \* bound: keyrings made
          MaxAsks,      \* bound: changes stored that ask for a sync
          MaxOffs,      \* bound: times sync is turned off by the learner
          MaxFaults     \* bound: faults

ASSUME TriedAssumption == Tried \in [Devices -> SUBSET Phrases]
ASSUME BoundsAssumption == /\ MaxRings \in Nat /\ MaxAsks \in Nat
                           /\ MaxOffs \in Nat /\ MaxFaults \in Nat

VARIABLES
  rings,      \* the keyrings in the drive, numbered as they are made
  made,       \* the passphrase of each keyring made so far
  card,       \* what the card of each device shows (SyncStatus)
  state,      \* the keyring each device's SyncState goes by, 0 where sync is off
  disk,       \* the same, as its store has it
  token,      \* whether each device is signed in
  found,      \* what signing in found: a keyring, Nothing, or none as yet
  task,       \* the signing in, joining or deleting under way, if any
  sync,       \* the sync under way, and the keyring it goes by
  again,      \* another sync is asked for after it
  soon,       \* a sync is waiting to start
  asked,      \* history: a change stored is in no sync as yet
  asks, offs, faults

drive   == <<rings, made>>
counts  == <<asks, offs, faults>>
vars    == <<rings, made, card, state, disk, token, found, task, sync, again, soon,
             asked, asks, offs, faults>>

Nothing == 0
NoneYet == -1
Rest    == 0        \* the files in the drive beside the keyrings

Cards   == [at : {"off", "signing in", "passphrase", "unlocking", "on", "turning off"},
            needs : BOOLEAN]
Card(at) == [at |-> at, needs |-> FALSE]
On(d)   == card[d].at = "on"

Tasks   == [step : {"idle", "asking", "renewing", "looking", "opening", "creating",
                    "checking", "removing", "fetching", "waiting", "deleting"},
            ring : Nat, first : Nat, phrase : Phrases \cup {"none"}, left : SUBSET Nat,
            before : Cards]
Idle    == [step |-> "idle", ring |-> 0, first |-> 0, phrase |-> "none", left |-> {},
            before |-> Card("off")]
AtStep(d, step) == task[d].step = step

NoSync  == [step |-> "idle", ring |-> 0]
Running(d) == sync[d].step # "idle"

TypeOK ==
  /\ made \in Seq(Phrases)
  /\ rings \subseteq 1..Len(made)
  /\ card \in [Devices -> Cards]
  /\ state \in [Devices -> Nat]
  /\ disk \in [Devices -> Nat]
  /\ token \in [Devices -> BOOLEAN]
  /\ found \in [Devices -> Nat \cup {NoneYet}]
  /\ task \in [Devices -> Tasks]
  /\ sync \in [Devices -> [step : {"idle", "listing", "working"}, ring : Nat]]
  /\ again \in [Devices -> BOOLEAN]
  /\ soon \in [Devices -> BOOLEAN]
  /\ asked \in [Devices -> BOOLEAN]
  /\ asks \in Nat /\ offs \in Nat /\ faults \in Nat

\* The keyring every device goes by: the first made (first_keyring).
First(in) == IF in = {} THEN Nothing ELSE CHOOSE r \in in : \A s \in in : r <= s

MayFault(kind) == kind \in FaultKinds /\ faults < MaxFaults /\ faults' = faults + 1

Init ==
  /\ rings = {} /\ made = <<>>
  /\ card = [d \in Devices |-> Card("off")]
  /\ state = [d \in Devices |-> Nothing]
  /\ disk = [d \in Devices |-> Nothing]
  /\ token = [d \in Devices |-> FALSE]
  /\ found = [d \in Devices |-> NoneYet]
  /\ task = [d \in Devices |-> Idle]
  /\ sync = [d \in Devices |-> NoSync]
  /\ again = [d \in Devices |-> FALSE]
  /\ soon = [d \in Devices |-> FALSE]
  /\ asked = [d \in Devices |-> FALSE]
  /\ asks = 0 /\ offs = 0 /\ faults = 0

-----------------------------------------------------------------------------
(***************************************************************************)
(* What several of the steps do.                                           *)
(***************************************************************************)

\* Sync now, with the state as it is "kept": or once more after the sync
\* under way, "before", where there is one (sync_now).
SyncNow(d, kept, before) ==
  /\ sync' = [sync EXCEPT ![d] = IF kept # Nothing /\ before = NoSync
                                   THEN [step |-> "listing", ring |-> kept] ELSE before]
  /\ again' = [again EXCEPT ![d] = before # NoSync /\ (@ \/ kept # Nothing)]
  /\ asked' = [asked EXCEPT ![d] = @ /\ kept # Nothing /\ before # NoSync]

Show(d, shown) == card' = [card EXCEPT ![d] = shown]

\* The state is kept, in memory and by the store (keep_sync_state).
Keep(d, kept) == /\ state' = [state EXCEPT ![d] = kept]
                 /\ disk' = [disk EXCEPT ![d] = kept]

\* Mutant of Forget: what is kept is as not looked for, in place of none.
ForgetAsUnfound(d) == /\ Keep(d, NoneYet)
                      /\ found' = [found EXCEPT ![d] = NoneYet]
                      /\ token' = [token EXCEPT ![d] = FALSE]
                      /\ Show(d, Card("off"))

\* Everything sync keeps here is forgotten, the sign-in too (sync_forget).
Forget(d) == /\ Keep(d, Nothing)
             /\ found' = [found EXCEPT ![d] = NoneYet]
             /\ token' = [token EXCEPT ![d] = FALSE]
             /\ Show(d, Card("off"))

Does(d, t) == task' = [task EXCEPT ![d] = t]
Step(d, step) == Does(d, [task[d] EXCEPT !.step = step])

\* Where no token is held, a request is refused.
MayAsk(d) == token[d]

-----------------------------------------------------------------------------
(***************************************************************************)
(* Turning sync on.                                                        *)
(***************************************************************************)

\* Sign in is pressed: to turn sync on, or where it is on and needs it
\* (sync_sign_in).
SignIn(d) ==
  /\ AtStep(d, "idle")
  /\ card[d].at = "off" \/ (On(d) /\ card[d].needs)
  /\ IF state[d] = Nothing
       THEN Step(d, "asking") /\ Show(d, Card("signing in"))
       ELSE Step(d, "renewing") /\ UNCHANGED card
  /\ UNCHANGED <<drive, state, disk, token, found, sync, again, soon, asked, counts>>

\* The learner signs in, and the drive is looked into (look).
SignedIn(d) ==
  /\ AtStep(d, "asking")
  /\ token' = [token EXCEPT ![d] = TRUE]
  /\ Step(d, "looking")
  /\ UNCHANGED <<drive, card, state, disk, found, sync, again, soon, asked, counts>>

\* Where sync was on: it is synced now.
Renewed(d) ==
  /\ AtStep(d, "renewing")
  /\ token' = [token EXCEPT ![d] = TRUE]
  /\ Does(d, Idle)
  /\ disk' = [disk EXCEPT ![d] = IF state[d] = Nothing THEN @ ELSE state[d]]
  /\ Show(d, IF On(d) THEN Card("on") ELSE card[d])
  /\ SyncNow(d, state[d], sync[d])
  /\ UNCHANGED <<drive, state, found, soon, counts>>

\* The learner does not sign in, or it fails.
NotSignedIn(d) ==
  /\ task[d].step \in {"asking", "renewing"}
  /\ Does(d, Idle)
  /\ Show(d, IF AtStep(d, "asking") THEN Card("off") ELSE card[d])
  /\ UNCHANGED <<drive, state, disk, token, found, sync, again, soon, asked, counts>>

\* What the drive holds is found, whatever the card shows by now.
Looked(d) ==
  /\ AtStep(d, "looking")
  /\ found' = [found EXCEPT ![d] = First(rings)]
  /\ Does(d, Idle)
  /\ Show(d, Card("passphrase"))
  /\ UNCHANGED <<drive, state, disk, token, sync, again, soon, asked, counts>>

LookFails(d) ==
  /\ AtStep(d, "looking")
  /\ MayFault("fail")
  /\ token' = [token EXCEPT ![d] = FALSE]
  /\ Does(d, Idle)
  /\ Show(d, Card("off"))
  /\ UNCHANGED <<drive, state, disk, found, sync, again, soon, asked, asks, offs>>

\* Turning it on is cancelled: a sign-in that waits is stopped, where this
\* device's way of signing in can stop it; a look into the drive is not
\* (sync_cancel).
Cancel(d) ==
  /\ card[d].at \in {"signing in", "passphrase"}
  /\ IF AtStep(d, "asking") THEN Does(d, Idle) \/ UNCHANGED task ELSE UNCHANGED task
  /\ token' = [token EXCEPT ![d] = @ /\ state[d] # Nothing]
  /\ found' = [found EXCEPT ![d] = NoneYet]
  /\ Show(d, Card("off"))
  /\ UNCHANGED <<drive, state, disk, sync, again, soon, asked, counts>>

Creating == {d \in Devices : AtStep(d, "creating")}

\* A passphrase is entered: what was found is opened with it, or a keyring
\* made (sync_passphrase).
Enter(d, phrase) ==
  /\ card[d].at = "passphrase" /\ found[d] # NoneYet
  /\ AtStep(d, "idle")
  /\ found[d] = Nothing => Len(made) + Cardinality(Creating) < MaxRings
  /\ Does(d, [Idle EXCEPT !.step = IF found[d] = Nothing THEN "creating" ELSE "opening",
                          !.first = found[d], !.phrase = phrase])
  /\ Show(d, Card("unlocking"))
  /\ UNCHANGED <<drive, state, disk, token, found, sync, again, soon, asked, counts>>

\* Sync is on, by the keyring "ring", and a first sync runs.
TurnedOn(d, ring) ==
  /\ Keep(d, ring)
  /\ found' = [found EXCEPT ![d] = NoneYet]
  /\ Show(d, Card("on"))
  /\ SyncNow(d, ring, sync[d])

\* It is not, and the passphrase is asked for again.
NotTurnedOn(d) ==
  /\ Show(d, Card("passphrase"))
  /\ UNCHANGED <<state, disk, found, sync, again, asked>>

\* A keyring is opened, if the passphrase is its own: the one found, or the
\* first made, where another made one first.
Open(d) ==
  /\ AtStep(d, "opening") \/ (AtStep(d, "fetching") /\ MayAsk(d) /\ task[d].first \in rings)
  /\ IF made[task[d].first] = task[d].phrase THEN TurnedOn(d, task[d].first) ELSE NotTurnedOn(d)
  /\ Does(d, Idle)
  /\ UNCHANGED <<drive, token, soon, counts>>

\* A keyring is made in the drive.
Create(d) ==
  /\ AtStep(d, "creating") /\ MayAsk(d)
  /\ made' = Append(made, task[d].phrase)
  /\ rings' = rings \cup {Len(made) + 1}
  /\ Does(d, [task[d] EXCEPT !.step = "checking", !.ring = Len(made) + 1])
  /\ UNCHANGED <<card, state, disk, token, found, sync, again, soon, asked, counts>>

\* It is made, and the answer lost.
CreateAnswerLost(d) ==
  /\ MayFault("answer")
  /\ AtStep(d, "creating") /\ MayAsk(d)
  /\ made' = Append(made, task[d].phrase)
  /\ rings' = rings \cup {Len(made) + 1}
  /\ Does(d, Idle)
  /\ NotTurnedOn(d)
  /\ UNCHANGED <<token, soon, asks, offs>>

\* Mutant of Check: the keyring this device made stands.
CheckOurs(d) ==
  /\ AtStep(d, "checking") /\ MayAsk(d)
  /\ TurnedOn(d, task[d].ring) /\ Does(d, Idle)
  /\ UNCHANGED <<drive, token, soon, counts>>

\* The drive is listed again: the keyring made is the first, or another is.
Check(d) ==
  /\ AtStep(d, "checking") /\ MayAsk(d)
  /\ IF First(rings) \in {task[d].ring, Nothing}
       THEN TurnedOn(d, task[d].ring) /\ Does(d, Idle)
       ELSE /\ Does(d, [task[d] EXCEPT !.step = "removing", !.first = First(rings)])
            /\ UNCHANGED <<card, state, disk, found, sync, again, asked>>
  /\ UNCHANGED <<drive, token, soon, counts>>

\* This device's own is taken away again.
Remove(d) ==
  /\ AtStep(d, "removing") /\ MayAsk(d) /\ task[d].ring \in rings
  /\ rings' = rings \ {task[d].ring}
  /\ Step(d, "fetching")
  /\ UNCHANGED <<made, card, state, disk, token, found, sync, again, soon, asked, counts>>

\* A request of the joining is refused: no one is signed in, or what it asks
\* for is gone; or it fails.
JoinFails(d) ==
  /\ task[d].step \in {"creating", "checking", "removing", "fetching"}
  /\ \/ MayFault("fail")
     \/ /\ \/ ~MayAsk(d)
           \/ AtStep(d, "removing") /\ task[d].ring \notin rings
           \/ AtStep(d, "fetching") /\ task[d].first \notin rings
        /\ UNCHANGED faults
  /\ Does(d, Idle)
  /\ NotTurnedOn(d)
  /\ UNCHANGED <<drive, token, soon, asks, offs>>

-----------------------------------------------------------------------------
(***************************************************************************)
(* When syncs run.                                                         *)
(***************************************************************************)

\* A sync is asked for, a moment from now, where sync is on (sync_soon).
Soon(d) == soon' = [soon EXCEPT ![d] = @ \/ (On(d) /\ ~card[d].needs)]

\* A change is stored here that asks to be synced (change_history,
\* store_settings).
Stored(d) ==
  /\ asks < MaxAsks
  /\ On(d) /\ ~card[d].needs
  /\ asks' = asks + 1
  /\ asked' = [asked EXCEPT ![d] = TRUE]
  /\ Soon(d)
  /\ UNCHANGED <<drive, card, state, disk, token, found, task, sync, again, offs, faults>>

\* The app comes back into sight, its last sync a while ago (sync_if_stale).
ComesIntoSight(d) ==
  /\ ~soon[d] /\ ~Running(d) /\ On(d) /\ ~card[d].needs
  /\ Soon(d)
  /\ UNCHANGED <<drive, card, state, disk, token, found, task, sync, again, asked, counts>>

\* The moment is over, and any session under way.
SoonOver(d) ==
  /\ soon[d]
  /\ soon' = [soon EXCEPT ![d] = FALSE]
  /\ SyncNow(d, state[d], sync[d])
  /\ UNCHANGED <<drive, card, state, disk, token, found, task, counts>>

\* Mutant of EndSync: one asked for meanwhile is left to the next change.
EndSyncOnce(d, kept) ==
  /\ sync' = [sync EXCEPT ![d] = NoSync]
  /\ again' = [again EXCEPT ![d] = FALSE]
  /\ asked' = [asked EXCEPT ![d] = @ /\ kept # Nothing]

\* The sync under way is over, and the one asked for meanwhile begins.
EndSync(d, kept) ==
  IF again[d] THEN SyncNow(d, kept, NoSync)
  ELSE /\ sync' = [sync EXCEPT ![d] = NoSync]
       /\ asked' = [asked EXCEPT ![d] = @ /\ kept # Nothing]
       /\ UNCHANGED again

\* Mutant of ListDrive: any keyring in the drive will do.
ListDriveAny(d) ==
  /\ sync[d].step = "listing" /\ MayAsk(d)
  /\ IF rings # {}
       THEN /\ sync' = [sync EXCEPT ![d].step = "working"]
            /\ UNCHANGED <<card, state, disk, found, token, again, asked>>
       ELSE Forget(d) /\ EndSync(d, Nothing)
  /\ UNCHANGED <<drive, task, soon, counts>>

\* The drive is listed: the sync goes on where the first keyring is the one
\* it goes by, and sync ends here where it is not (sync_once).
ListDrive(d) ==
  /\ sync[d].step = "listing" /\ MayAsk(d)
  /\ IF First(rings) = sync[d].ring
       THEN /\ sync' = [sync EXCEPT ![d].step = "working"]
            /\ UNCHANGED <<card, state, disk, found, token, again, asked>>
       ELSE Forget(d) /\ EndSync(d, Nothing)
  /\ UNCHANGED <<drive, task, soon, counts>>

\* It ends, well or with an error, and the state as it left it is kept.
SyncEnds(d) ==
  /\ sync[d].step = "working"
  /\ Keep(d, sync[d].ring)
  /\ Show(d, IF On(d) THEN Card("on") ELSE card[d])
  /\ EndSync(d, sync[d].ring)
  /\ UNCHANGED <<drive, token, found, task, soon, counts>>

\* It ends as no one is signed in any more.
SyncSignedOut(d) ==
  /\ Running(d) /\ ~MayAsk(d)
  /\ Keep(d, sync[d].ring)
  /\ Show(d, IF On(d) THEN [Card("on") EXCEPT !.needs = TRUE] ELSE card[d])
  /\ EndSync(d, sync[d].ring)
  /\ UNCHANGED <<drive, token, found, task, soon, counts>>

\* A token runs out, and only the user can sign in again.
Expire(d) ==
  /\ MayFault("expire")
  /\ token[d]
  /\ token' = [token EXCEPT ![d] = FALSE]
  /\ UNCHANGED <<drive, card, state, disk, found, task, sync, again, soon, asked, asks, offs>>

-----------------------------------------------------------------------------
(***************************************************************************)
(* Turning sync off.                                                       *)
(***************************************************************************)

\* Here only: the key and the sign-in are forgotten (sync_turn_off).
TurnOffHere(d) ==
  /\ offs < MaxOffs
  /\ On(d) /\ AtStep(d, "idle")
  /\ offs' = offs + 1
  /\ Forget(d)
  /\ asked' = [asked EXCEPT ![d] = FALSE]
  /\ UNCHANGED <<drive, task, sync, again, soon, asks, faults>>

\* The synced copy is to be deleted: once no sync is under way here.
TurnOffEverywhere(d) ==
  /\ offs < MaxOffs
  /\ On(d) /\ AtStep(d, "idle")
  /\ offs' = offs + 1
  /\ Does(d, [Idle EXCEPT !.step = "waiting", !.before = card[d]])
  /\ Show(d, Card("turning off"))
  /\ UNCHANGED <<drive, state, disk, token, found, sync, again, soon, asked, asks, faults>>

\* The drive is listed, and what it lists deleted, the keyrings first
\* (delete_copy).
ListCopy(d) ==
  /\ AtStep(d, "waiting") /\ ~Running(d) /\ MayAsk(d)
  /\ Does(d, [task[d] EXCEPT !.step = "deleting", !.left = rings \cup {Rest}])
  /\ UNCHANGED <<drive, card, state, disk, token, found, sync, again, soon, asked, counts>>

DeleteNext(d) ==
  /\ AtStep(d, "deleting") /\ MayAsk(d)
  /\ \E file \in task[d].left :
       /\ file = Rest => task[d].left = {Rest}
       /\ rings' = rings \ {file}
       /\ Does(d, [task[d] EXCEPT !.left = @ \ {file}])
  /\ UNCHANGED <<made, card, state, disk, token, found, sync, again, soon, asked, counts>>

CopyDeleted(d) ==
  /\ AtStep(d, "deleting") /\ task[d].left = {}
  /\ Forget(d)
  /\ Does(d, Idle)
  /\ asked' = [asked EXCEPT ![d] = FALSE]
  /\ UNCHANGED <<drive, sync, again, soon, counts>>

\* It fails, and the card is as before.
DeletingFails(d) ==
  /\ \/ AtStep(d, "waiting") /\ ~Running(d)
     \/ AtStep(d, "deleting") /\ task[d].left # {}
  /\ MayFault("fail") \/ (~MayAsk(d) /\ UNCHANGED faults)
  /\ Show(d, task[d].before)
  /\ Does(d, Idle)
  /\ UNCHANGED <<drive, state, disk, token, found, sync, again, soon, asked, asks, offs>>

\* The app stops, and is opened again with what its store has: it syncs as it
\* opens, signed in where what it keeps signs it in with no one asked.
Crash(d) ==
  /\ MayFault("crash")
  /\ state' = [state EXCEPT ![d] = disk[d]]
  /\ Show(d, IF disk[d] = Nothing THEN Card("off") ELSE Card("on"))
  /\ \E signs \in BOOLEAN : token' = [token EXCEPT ![d] = signs /\ disk[d] # Nothing]
  /\ found' = [found EXCEPT ![d] = NoneYet]
  /\ Does(d, Idle)
  /\ sync' = [sync EXCEPT ![d] = NoSync]
  /\ again' = [again EXCEPT ![d] = FALSE]
  /\ soon' = [soon EXCEPT ![d] = disk[d] # Nothing]
  /\ asked' = [asked EXCEPT ![d] = @ /\ disk[d] # Nothing]
  /\ UNCHANGED <<drive, disk, asks, offs>>

-----------------------------------------------------------------------------
Learner(d) == \/ SignIn(d) \/ SignedIn(d) \/ Renewed(d) \/ NotSignedIn(d) \/ Cancel(d)
              \/ \E phrase \in Tried[d] : Enter(d, phrase)
              \/ Stored(d)
              \/ TurnOffHere(d) \/ TurnOffEverywhere(d)

\* The tasks of a device, its syncs, and what begins them.
Joins(d)   == \/ Looked(d) \/ Open(d) \/ Create(d) \/ Check(d) \/ Remove(d) \/ JoinFails(d)
Syncs(d)   == \/ ListDrive(d) \/ SyncEnds(d) \/ SyncSignedOut(d)
Deletes(d) == \/ ListCopy(d) \/ DeleteNext(d) \/ CopyDeleted(d) \/ DeletingFails(d)

Fault(d) == LookFails(d) \/ CreateAnswerLost(d) \/ Expire(d) \/ Crash(d)

Next == \E d \in Devices :
          \/ Learner(d) \/ Joins(d) \/ Syncs(d) \/ SoonOver(d) \/ ComesIntoSight(d)
          \/ Deletes(d) \/ Fault(d)

Spec == Init /\ [][Next]_vars

\* Requests are answered, a sync asked for begins, and the app comes into
\* sight again, or is opened: the learner does nothing else of necessity.
FairSpec == /\ Spec
            /\ \A d \in Devices : /\ WF_vars(Joins(d)) /\ WF_vars(Syncs(d))
                                  /\ WF_vars(Deletes(d)) /\ WF_vars(SoonOver(d))
                                  /\ WF_vars(ComesIntoSight(d))

-----------------------------------------------------------------------------
(***************************************************************************)
(* What makes it correct.                                                  *)
(***************************************************************************)

\* Devices that turned sync on at once settle on one keyring: a device whose
\* keyring is in the drive goes by the first there, whatever was made,
\* deleted or lost meanwhile (first_keyring, "the keyring every device goes
\* by"; join).
OneKey ==
  \A d \in Devices : {state[d], disk[d], sync[d].ring} \cap rings \subseteq {First(rings)}

\* No change is forgotten: until a sync begins after it was stored, one is on
\* its way, whatever runs, stops or is asked meanwhile (sync_soon, "once,
\* however many changes ask in the meantime").
AskedIsOnItsWay ==
  \A d \in Devices : asked[d] => soon[d] \/ (Running(d) /\ again[d])

\* Once the learner does nothing more, every device on which sync is on, and
\* signed in, goes by the one keyring in the drive: the others turned it off
\* (docs/sync.md; sync_turn_off, "turns sync off on every device as each next
\* syncs").
Together ==
  <>[](\A d \in Devices :
         On(d) /\ ~card[d].needs /\ state[d] # Nothing => state[d] = First(rings))

\* A device keeps what sync keeps while it is on: the card never says it is
\* where there is no key to sync with (SyncCtx.state, "what sync keeps, while
\* it is on").
KeyWhileOn == \A d \in Devices : On(d) => state[d] # Nothing

\* Where sync is off, no key is kept (ui/sync.rs, "Turning sync off here
\* forgets the key and the sign-in on this device").
KeyForgotten ==
  \A d \in Devices : card[d].at = "off" => state[d] = Nothing /\ disk[d] = Nothing
=============================================================================
