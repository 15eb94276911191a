# Dust, modelled in TLA+

Dust is a trainer for copying Morse code in groups, words, callsigns and
contests. It runs in a browser, on desktops and on Android, keeps the history of
every session on the device, and may keep it in step with the user's other
devices through sealed files in their Google Drive. These modules model the
parts of it that are hard to test: where several actors change one state, where
a step may fail or the app stop between two steps, and where what one device did
long ago decides what another does now.

## The system

| part | state it keeps | operations | talks to |
|---|---|---|---|
| sync: the history (`src/sync/plan.rs`, `run.rs`, `state.rs`, `pack.rs`) | `SyncState`: packs read, what they said (`DriveState`), deletions taken from the drive (`applied`), sessions put back (`revived`) | `sync_once`: list and read packs, plan, change the store, send packs | the drive (`Remote`), the store (`Store`), the app |
| sync: when it runs (`ctx.rs`, `auth*.rs`, `drive.rs`, `http.rs`) | `SyncCtx`: state, status, `running`, `again`, `soon`, notes set beside a running sync | `sync_now`, `sync_soon`, `sync_revived`, sign-in, passphrase, turning off | the app's signals, Google |
| sync: the settings (`settings.rs`) | a file per device in the drive, each key stamped; the base and stamps of the last sync | stamp, merge, take | the app's settings effect, the store |
| sync: joining (`run.rs`, `join`) | the keyring in the drive | make one, or settle on the first | the drive |
| the app's history (`src/state.rs`, `src/history.rs`) | the sessions shown, those still unsaved, the last deletion and the last restore for Undo | finish, delete, undo, restore, undo the restore, retry | the store, sync |
| the store (`src/persist/*`) | records and tombstones by id; settings, mark, sync state | `change_history`, `history_listing`, `forgotten`, `read_records` | files, IndexedDB or page storage; its own thread on a desktop |
| the session (`crates/cw-core/src/machine.rs`, `session.rs`) | the phase, the group sounding, the answer typed | events in, effects out | the runtime |
| its runtime (`src/session_runtime.rs`, `player.rs`, `playback.rs`) | timers, what is sounding, whether the page is hidden | run effects, feed events | the machine, audio, the store |
| the contest (`crates/cw-core/src/contest/machine.rs`, `caller.rs`) | the phase, the stations, the one you work, the turn on the air, the log | events and your messages in, effects out | its runtime |
| its runtime and view (`src/contest_runtime.rs`, `src/ui/contest.rs`) | timers, fields typed | run effects, keys | the contest, audio |
| auto level, keyer, sampling, timing, statistics, band noise | counters, element state, random state | functions of the input | the session |
| audio, UI | buffers, epochs, pages | render | everything |

What is hard in each:

* **Sync.** Every device reads and writes the drive at its own pace, with no
  lock and no server: two syncs interleave at every request. Requests fail, and
  an answer to one that was carried out may be lost. The learner deletes and
  puts back sessions between any two awaits. The app may stop between changing
  its store and saving why. Deletions and puttings back are ordered by clocks
  that disagree.
* **The store.** A change is many file steps, any of which may fail or be the
  last before a crash; two copies of the app may share one store; room may run
  out. The store's thread and the app work on at their own pace, and answers are
  taken up late.
* **The settings.** They are copied as a sync starts and taken up as it ends; each
  device writes a file of its own, from what it read of the others' before.
* **Turning on and off.** Devices turn sync on at once, each making a keyring;
  sync is turned off while one runs; a sign-in runs out anywhere.
* **The contest.** A message breaks into a turn where your own is half out and
  callers are sending, listening, or waiting; Esc takes the last one back.
* **The session.** Timers, sound, typing and the page going out of sight reach
  one machine in any order, some of them late.

What makes each right: sync never deletes what nobody deleted, never takes a
session away again once it was put back, forgets nothing it has to tell, and
brings every device to one history; a change to the store is made whole or not
at all, and never loses a session; the settings come to one choice of each key, the
newest; devices settle on one keyring; a session counts each answer once and
always comes to an end; a contest keeps each QSO once, and shows every one that
was lost.

`PROJECT.json` lists every part with what is modelled of it, and under `hazards`
each place in the code where one of these things bites.

## Modules

| module | what it is |
|---|---|
| `DriveState` | what the packs in the drive say of each record put together, and the plan of one sync: the pure part of `plan.rs` |
| `SyncHistory` | devices, their stores, the drive, the syncs step by step, the learner and the faults |
| `SharedHistory` | what sync promises, with no syncs in it: the abstract specification `SyncHistory` implements |
| `MCSyncHistory` | instances of `SyncHistory` for TLC |
| `SessionMachine` | a training session: what each event and timer makes of it, as operators on a session |
| `SessionRuntime` | the session as it runs: the answer box, paddles, timers, sends, gaps, each handed over by `dispatch` |
| `MCSessionRuntime` | instances of `SessionRuntime` for TLC |
| `SyncSettings` | the settings, counts and theme as synced devices keep them the same |
| `SyncTurning` | sync turned on and off, the keyrings, and when each device's syncs run |
| `HistoryStore` | the history's files under several copies of the app, each with its store's thread, down to the fsyncs |
| `ContestRun` | a contest run: stations, messages, the turn on the air, the log |
| `MCSyncSettings`, `MCSyncTurning`, `MCHistoryStore`, `MCContestRun` | instances of these for TLC |
| `SyncSettings_proofs` | merging is a join, the newest of a key stays in the drive, and a count changed on one device stands there |
| `SyncTurning_proofs` | devices settle on one keyring, and a sync asked for is under way or on its way |
| `DriveState_proofs` | the algebra of words: taking packs in is a join, in whatever order and however often |
| `SharedHistory_proofs` | what the abstract specification implies |
| `SyncHistory_proofs` | the invariants of `SyncHistory`, that it implements `SharedHistory`, and what each device notes of the drive: nothing is read and lost, no deletion is stuck or made up, no note dropped too soon |
| `HistoryStore_proofs` | the history on disk is what the app was told, through crashes and power cuts |
| `SessionRuntime_proofs` | a session hears, waits for, times and counts what it should, through pauses, skips, retries and late words of a send |
| `ContestRun_proofs` | each QSO is in the log once, shown and final, through cut turns, Esc, pauses and failed sounds, and none whose patience may run out is left standing |

### DriveState

A *word* is the code's `DriveState`: of each record whether a pack holds it, and
the latest times it was deleted and put back. The code keeps maps whose absent
entry means "never"; the model keeps a time, 0 for never, since times are
milliseconds since the epoch. A pack is itself a word, so that `Take` is the
code's `take` and `WordOf` a fold of it over a set of packs, written as a least
upper bound. `Plan` is `plan`, each of its six outcomes a set. Session bytes are
left out: a record is its id, which is all the plan looks at.

### SyncHistory

| in the model | in the code |
|---|---|
| `store[d]` | what the device's store says of each record: `none`, `live`, or `forgotten` (a tombstone) |
| `packs` | the packs in the drive, by what they hold; never changed nor removed |
| `saved[d]` | `SyncState` as `keep_sync_state` saves it and `SyncCtx.state` holds it |
| `run[d]` | the local variables of a running `sync_once`, and how far it is |
| `overlay[d]` | `SyncCtx.revived`, notes set beside the copy a running sync has |
| `restored[d]` | `AppState.before_restore`, as far as it filled sessions in |
| `now` | the time; device `d` reads `now + Skew[d]` |
| `byHand`, `mine`, `lost`, `faults` | history, for the properties and the bounds |

A sync is one action per await, in the code's order:
`Start` (the state copied, the clock read), `Look` (list the drive, read the
packs not read before), `List` (`history_listing`), `MakePlan` (`forgotten`,
`plan`), `ReadAgain` (every pack again, and the plan anew, where a record to take
is in no pack just read), `Gather` (`read_here`), `Change` (one
`change_history`, and what it notes), `Send` (once per pack), `EndWell` or
`EndFailing` (the state put back and saved). Between any two of them the other
devices, the learner and the faults may act. A pack never changes once made, so
reading the listed ones later than the listing shows the same, and `Look` may
take both in one step.

The learner's actions are the app's: `Finish`, `Delete`, `PutBack` (Undo of a
deletion, or a restore of a session not here), `FillIn` (a restore that puts a
fuller session, under a record of its own, in place of one), `UndoRestore`.
Each is the whole of what the code does to the store and to sync.

The faults: `Lose` (page storage trimmed for want of room, a file gone),
`ChangeFails` (a change that fails halfway, as `HistoryFiles::make` may),
`AnswerLost` (a pack created, and the answer lost), `Fail` (any other request or
listing), `Crash` (the app stops; memory is gone), `Rejoin` (sync turned off and
on again: everything sync keeps here is forgotten).

Not in it, each with its reason:

* a pack that cannot be read counts as read and says nothing: it changes no
  state the properties speak of;
* the drive's copy deleted or replaced, which ends sync on a device: what is left
  then is `Rejoin`;
* `save_sync` failing: the state in memory and on disk then differ until the next
  save, and a crash before it is a crash that loses one more sync;
* the app's changes failing: they leave the store as `ChangeFails` does and the
  app says so; sync is not told;
* the store's answer to a session put back and the note of it (`sync_revived`)
  are one step, and so is a sync's change and the deletions it notes in the copy
  of its state (there is no await between the latter);
* the settings, which the end of a sync also syncs (`SyncSettings`), and turning
  sync on and off (`SyncTurning`), of which `Rejoin` is what is left.

### SharedHistory

A history per device, one shared word, and what each device knows of it. A step
is a change by hand to one device's history (any: who makes it, and of what, is not
said), a loss, a device following what the word says
(taking what it holds, letting go what it deleted), a device telling, a device
learning, a device forgetting what it knows. Nothing else may happen: no device
lets a session go that the word does not say was deleted, or takes one up that it
does not hold. `SyncHistory!KeepsPromise` is that specification under the
refinement mapping history = what each store lists, word = the word of the packs
in the drive, known = the word each device keeps.

### SessionMachine

A session is one record, and every function of `machine.rs` that changes it an
operator from a session to a session under the function's name (`pause` and
`resume` are `PauseSession` and `ResumeSession`; `apply` dispatches on the kind
of the event as the code's `match` does). The functions of `session.rs` that
change one group are operators on a group (`StartPlayback`, `CutSend`,
`NotePaused`, `SetInput`, `Complete`).

The machine returns effects; the model applies what `run_effects` makes of them
in the same step, for nothing comes between (there is no await): a `StartTimer`
is an id in `timers`, `Play` a send in `sends`, `StopAudio` moves the sends to
`stopped`, where they are until they have said so, and `ReleaseAudio` ends the
lease, with it every timer, which wakes to `Err`. Timers are only ever compared
for being the same, so the smallest id not in use stands for `next_timer_id`.

What an answer says is kept as far as the machine looks: `"none"`, `"uneven"`
(not of the group's length), or one of the answers `Whole`. Times are left out
but for three facts they decide: a group has just begun (`fresh`), the first
character of a send has sounded (`sending`), and whether a group's characters
can be timed at all (`untimed`). Left out with them: how long an answer took,
speeds, the marks that say `again` on the screen, scoring, the results.

### SessionRuntime

The app is single threaded, so an action is what runs between two awaits, and
nearly all of it is `Dispatch`, which is `dispatch` in the code's order: pause if
the app was held back; put a timer off over a letter under way, or finish what is
keyed in full where the event is a deadline; take what waits in the outbox; the
event; and, once a group is answered, the view empties the box (`Settle`).

| in the model | in the code |
|---|---|
| `session.text`, `session.waiting` | the answer box, and whether `AnswerOutbox` holds its text |
| `session.letter` | a letter of the paddles: begun, or keyed in full with its letter space running |
| `session.timers`, `sends`, `stopped`, `held` | the tasks spawned under the lease: sleeps and sends, and whether the lease is current |
| `session.away` | no heartbeat for longer than `HEARTBEAT_GAP_MS` |
| `Types`, `HandsOver`, `Keys`, `LetterLands` | keys, the debounce, the paddles, the end of a letter |
| `Confirms`, `Finishes`, `Discards`, `Pauses`, `Resumes` | Enter; End session or Exit; Discard; Back or the page hidden; Resume |
| `TimerFires`, `TimePasses`, `HeldBack`, `Beats` | time |
| `SendStarts` ... `SendFails`, `StoppedReports` | `Lease::send`: each attempt, what it says of itself, and its end |

A letter keyed may spell nothing, and then leaves the box as it was (`LetterLands`);
one that is finished as an answer closes is one that has landed just before. What a
pause counts as heard goes by the moment the first character was planned to sound,
which may come while a failed attempt waits to be tried again (`FirstSounds`).

Three simplifications, and why they change nothing: a send's task starts with
its `Play`, as nothing may ask for another send before it (`Lease::send`);
what a send stopped by a pause still says is dropped when the session resumes
under a new lease, as `hears` compares leases; a claim that fails leaves the
session as it was.

### SyncSettings

A key is anything a device uses beside its history: a setting (`AppKeys`), which
the app holds, or a run of counters, the theme or a mark (`StoreKeys`), which the
store does. `Away` is the value of a key taken away; a *stamped* key is a value
and when it was changed.

| in the model | in the code |
|---|---|
| `using[d]` | the app's settings, and what the store has of the rest (`Using`) |
| `file[d]`, `file["left"]` | the settings file of each device in the drive; those left by devices that turned sync off |
| `saved[d]` | `SyncState`'s `base` and `stamps`, and whether it ever joined |
| `run[d]` | the locals of `sync_settings` over its awaits |
| `Skew[d]`, `Clock(d)` | how far device `d`'s clock is ahead of the time; `now_ms` on that device |
| `sole`, `touched` | history: who changed a key by hand, and what was since it was stamped |
| `forgot` | history: the keys taken away that a sync noted so and could not write |

`Start` copies the settings and reads the device's own clock (`sync_now`), `List` and `Read` are a request each,
`TakeUp` stamps, merges, takes the store's keys up and notes all of it, `Write`
writes the file and lets the app take the settings up. `Stamp`, `Merge`, `Newer`
are the code's functions of those names. Faults: a request that fails, a file that
cannot be written, an answer to the write that is lost, a crash in any step, turning off and on again.

Left out: a settings file that does not read, clamping of values, `save_sync`
failing, and the history's part of the same sync, with which it shares nothing
but its end.

### SyncTurning

| in the model | in the code |
|---|---|
| `rings`, `made` | the keyrings in the drive, in the order they were made, and the passphrase of each |
| `card[d]` | `SyncStatus` |
| `state[d]`, `disk[d]` | the keyring of `SyncCtx.state`, and of what the store has |
| `token[d]`, `found[d]` | whether it is signed in; `SyncCtx.found` |
| `task[d]` | the task of signing in, joining or deleting, and its locals |
| `sync[d]`, `again[d]`, `soon[d]` | the sync under way with the state it copied, and the flags beside it |

Each request is a step: `SignIn`, `SignedIn`, `Looked` (`look`), `Enter`
(`sync_passphrase`), `Open`, `Create`, `Check`, `Remove` (`join`); `Soon`,
`SoonOver`, `ListDrive`, `SyncEnds`, `SyncSignedOut` (`sync_now`); `TurnOffHere`,
`TurnOffEverywhere`, `ListCopy`, `DeleteNext`, `CopyDeleted` (`delete_copy`);
`Crash` stops the app and opens it again. What a sync does to the history and the
settings is one step (`SyncEnds`).

Simplifications: one of signing in, joining and deleting runs at a time on a
device; `save_sync` never fails; the card does not say whether a sync is under
way; a keyring that does not read is left out. A look that was cancelled still
brings the passphrase up, as in the code.

### HistoryStore

| in the model | in the code |
|---|---|
| `disk` | the folders `records` and `forgotten`, and what of each is synced to the disk |
| `changed[c]` | the folders' stamps against those the copy last noted |
| `app[c]` | `AppState`: sessions shown, unsaved, the trash for Undo, the mark, a look or a retry under way |
| `queue[c]`, `work[c]` | the jobs of the store's thread, and how far the first is |
| `answers[c]` | jobs done whose task in the app has not gone on |
| `left` | marks of copies that stopped, with what they carry |
| `loading[c]` | what a copy that opens has listed: the records it will take away, and those it will read |
| `sure`, `gone`, `rolled`, `swept`, `lost` | history: what the app was told of, and the exceptions below |

A change is `HistoryFiles::make` a file at a time: `Begin`, `Unforget`, `Put`,
`Forget`, `Remove`, with each folder synced where the code syncs it, `Fail` and
`RollBack` where a step fails. `List`, `Find` are the reads. `Open`, `Unlink` and
`Loaded` are `load`: the folders are listed, each record listed beside its tombstone
is taken away, a deletion cut short finished, whatever has become of the tombstone
since, and the rest are read. In the app, `Finish`, `Delete`, `Undo`,
`Retry`, `Look` and `TakeCutOff` ask, and `Settle` takes up one answer, any.
`Crash` stops a copy anywhere, one that opens too; `PowerCut` stops them all, and of each folder leaves
any mix of what was synced and what was there.

Simplifications: a failed change may be tried again any number of times; a copy
has one look under way at a time, a bound the code does not have
(`sync_with_store`, `take_up_store`); a record is checked for its tombstone and
placed, or found and its tombstone placed, in one step (`Put`, `Forget`), and
records are listed with the tombstones, as they are in the folders at one moment;
a record that cannot be unlinked as a copy opens stays as one does where the copy
stops there; a session is stored under its own name
only; the gate between copies that move an older layout, the journals of
restores, packs and the browser's stores are left out; a mark is written as the
session ends and lost in a power cut. The properties make four exceptions, each
a place the code leaves open: `swept`, records a copy that was opening had listed
as deleted and took away after another copy undid the deletion (below); `lost`, sessions of marks just taken by a copy that
stops before its own mark holds them; `rolled`, a tombstone another copy's failed
deletion takes back (below); and a session put back whose undo was cut short
before the tombstone's going was synced.

### ContestRun

Stations are a small set, each with its state as `caller.rs` has it (`NeedQso`,
`NeedNr`, ...). A call you send is how it fits each station (`Fits`), a message a
sequence of parts. `Hears` is `Caller::hear`: the ways a station may take a
message, as a set where the code draws lots, or goes by a trait of the station (a
caller still calling may answer your TU or not, `tu_calls`). `Send` is `send_message` and what
follows it: those deaf to it, the answers, the log, who comes, what Esc may take
back (`Unheard`). `Log`, `CloseFinished`, `LoseAll`, `LetGo` are the code's by
those names or near them. Most of them make one *side* another: the stations, whom
you work, the QSO your TU closed and the log. `AllHear` is `hear`: each of `Ways` is
what every hearer makes of a message, `WorksNext` whom you may work after it and
`Outcome` the side that leaves. `Undone` is the side with the message keyed last
taken back, before what went out of it is heard again.

| in the model | in the code |
|---|---|
| `stations`, `working`, `thanked` | the callers; `working`; the QSO your TU closed, not logged yet |
| `entries`, `taught` | the log, and how much of it the callers to come are drawn from |
| `air` | the turn: your parts and how many are out, who is yet to send, sending, done; checks that wait on it; `Unheard` |
| `timers`, `run`, `cutShort` | timers set; phase and countdown; those to send again after Resume |

Time is left out: a part, a send or a timer comes whenever the machine would heed
it, so patience may run out as a turn ends, and a run end anywhere. Odds, speeds,
delays and lids are whatever may be drawn. Left out: what you copied and typed of
each station, QRM, signing off, greetings, `TurnMissed`, the held-up and started
reports, the results. Which message Enter sends is left open: any message may be
sent at any time, so that the properties hold of every choice `esm.rs` makes.
`TU` always may bring callers.

## Runs

Every run of `SyncHistory` has one or two devices and one or two records. The faults are bounded
in number (`MaxFaults`), puttings back and time by `LastBack` and `MaxTime`.

| run | asks | instance |
|---|---|---|
| `safety` | the invariants, `NoteKept`, `OnlyByHand`, `KeepsPromise` | 2 devices (symmetric), 1 record, one fault of any kind |
| `converges` | `Converges` | 2 devices, 1 record, one lost answer or crash (the faults that leave a sync half done; a call that fails outright is among those of `safety`) |
| `skewed` | `Converges` | one clock ahead by 2, no faults, time up to 6 |
| `pairs` | `MissingIsNeverDeleted` | 1 device, a record and the fuller one a restore fills it in with, two faults |
| `settings_agree` | types, `NewestKept`, `CountsComeThrough`, `Agree` | 2 devices that use unlike settings, one clock ahead by 2, a setting and a count, two changes or faults of which one fault, of any kind |
| `turning_together` | types, `OneKey`, `AskedIsOnItsWay`, `Together` | 2 devices, 2 passphrases (one device may enter either), 2 keyrings, one change, one turning off, one fault |
| `off_midsync` | `KeyForgotten`, violated | 1 keyring, one turning off, no fault |
| `store` | types, `SureStays`, `GoneStays`, `FinishedIsKept`, `NoneWaits` | 2 copies (symmetric) that open step by step, a session stored and one to finish, two of finishing, deleting and undoing, one failed step, crash or power cut |
| `contest` | consistency, `OneCopy`, `NoneHidden`, `ChecksComeOut`, `NobodyStands`, `LoggedIsFinal`, `TaughtStands` | 2 stations (symmetric), both run styles, 3 keys, one thing that breaks into a turn |
| `session_order` | the order of answers, what is on its way, and the promises of the answer box | 2 groups, two full answers (symmetric), count down 1, window, lock on and off, paddles, one resume |
| `session_sound` | `OnItsWay`, `Quiet`, `HeardIsRight`, `TimedFairly` | 1 group, a window, skips, failed attempts and gaps, one resume |
| `session_gets_out` | `GetsOut` | 1 group sent twice over, count down 1, lock on and off, skips, timers and sends fair |

`SessionRuntime_types.cfg` checks the types of the session, and `Quiet` where two
groups follow each other.

For the session: two groups have a first, a next and a last; one resume has a
pause before it and another after, which ends the run of interest, since a
session paused again can only end. `MaxTimers` bounds the timers in flight when
the learner acts: without it a learner who types and corrects for ever would
have any number of forgotten timers running. One such timer beside the current
one meets every way a forgotten timer can come in late. A session ends, so these
runs do not check for deadlock: `OnItsWay` is what says a session never hangs.

`session_gets_out` assumes of the code that a timer wakes, that a send started
comes to its end, and that the heartbeat beats: each is a task of the app's own
(`spawn_forever`), and a send that would not end has failed by the player's own
reckoning (`PlaybackOutcome::Failed`), which `session_sound` covers. The learner
is under no obligation.

Why the bounds are enough for the sync. The plan treats each record apart
from the others, so one record with two devices meets every interleaving of syncs
over it; the second record is there for what records share: a pack of several, a
sync of several packs, `ReadAgain` wanted by one and done for all, a restore that
deletes one and puts another. With `LastBack` 4 a session is put back once, with
room for a deletion before and after it: each device may delete, have it let go,
see it come back and delete it again. Stores start in every state, so histories
from before sync was turned on are met with no time spent on them. Time stands at
`MaxTime` for good, which the runs of `Converges` need late enough for a deletion
made then to be later than any putting back (`skewed` allows for the clock ahead).

Times of deletions are even and of puttings back odd: a session deleted and put
back in the same millisecond, by which `plan` would hold it both put back and
still to be let go, is left out (a hazard of its own in `PROJECT.json`).

Fairness (`FairSpec`, the runs of `Converges`): time goes on, and each device
goes on with the sync it is in and starts another. The code syncs as the app
opens, a moment after every change, when it comes back into sight and when
asked, and a failed sync is tried again by the next of these, so a device in use
goes on syncing. The learner and the faults are under no obligation, and both
come to an end through the bounds.

`NobodyStands` speaks of stations whose patience may run out. One that waits in a
pile-up for your QSO with another to end has no wait of its own: it is your next
message that moves it, so a learner who sends nothing leaves it there.

`OnlyByHand` speaks of deletions made here. `applied` is saved at the end of a
sync, the store changed in the middle, and an app that stops in between tells the
drive, at its next sync, of a deletion it took from it as of one made by hand; so
it does where sync was turned off and on. That is what the code means by it ("a
deletion by hand" is a tombstone not noted as taken), and the history variable
`mine` follows it: a tombstone whose note is lost counts from then on as made
here (`Unnoted`). So the case itself, told of though taken from the drive, is
no violation of it; that nothing is deleted by it but what someone deleted by hand
is `MissingIsNeverDeleted`.

For the settings: of two devices one may find the drive empty, or both, or join
what the other has; `Choices` gives each key two values, so that two changes may
be alike in time and unlike in value. `sole` is what makes `CountsComeThrough` hard: it
says a count changed on one device only is never changed back by any sync,
however the change and the syncs of both interleave, and it does not hold of the
settings (below). A change is stamped by the clock of the device it is made on, so
it is said of a device whose clock is behind no other's (`InTime`): on one that is
behind, the newest by the stamps need not be the change made last. A key taken
away by a sync whose file could not be written is excepted too (`forgot`). Each
exception has a `.cfg` that shows what comes of it (below), against
`ChangesComeThrough`, which is what the docs say. A clock ahead by 2 with two
changes meets a stamp of either device before, with and after the other's. Fairness: each device goes on syncing, as for `Converges`.

For turning on: two keyrings are what two devices make at once, or one makes
twice with an answer lost; a third adds another of the same. The fairness of
`Together` is that requests are answered, a sync asked for begins, and the app
comes into sight now and then, or is opened; the learner, who may leave a
passphrase unentered for ever, is under no obligation.

For the store: two copies and two sessions meet every pair of steps of two
changes, or of a change and an opening, and one trouble splits a change once, or
stops a copy that opens again. `Alike` swaps the copies; `Seen`
leaves `changed` out of a state's identity, since looks come whatever it says
and none of the properties of the run reads it. Of the steps of a change that may
fail, an undo's first one is left out (`FaultsAt`): failing there is failing as
nothing was done.

For the contest: two stations are one you work and one that waits, is deaf, calls
over it or comes anew; three keys are a call, an exchange or a TU, and one more,
and a run of the interest goes on to its end, which any state may come to.
`DupesAfter` 1 lets the first station worked call again. A pause, a failed sound,
an Esc or a message into a turn comes once (`MaxBreaks`). `Seen` forgets what can
no longer matter: what Esc would put back once nothing of yours is to go, and all
of a run that was aborted.

## What the code does otherwise

Met while modelling: sentences of the docs or comments the code does not keep.
Each is a property with a `.cfg` that shows it violated; run it with
`tlc -config <cfg> <module>`. `off_midsync` is among the runs, with its finding in
`PROJECT.json`.

| property, `.cfg` | what the code does |
|---|---|
| `KeyForgotten`, `SyncTurning_off_midsync` | Sync turned off here while a sync runs: its end puts back the copy of the state it had (`ctx.rs:384`, `395`), key and sign-in with it; opened again, the app syncs on. `ui/sync.rs:36`: "Turning sync off here forgets the key and the sign-in on this device". |
| `KeyWhileOn`, `SyncTurning_deleted` | Deleting the copy while sync ended here by another device's doing shows the card of before again if it fails (`ctx.rs:527`): on, with no key. `ctx.rs:105`: "what sync keeps, while it is on". |
| `ToldOnce`, `SyncHistory_told_once` | `send_deleted` is every record alive in the drive that this device deleted by hand. Told once and put back by another device since, it is told of again, later, and goes everywhere. |
| `PutBackIsNotTakenAgain`, `SyncHistory_undo_race` | A session put back during a sync is noted beside the state the sync has, whose plan lets it go again. |
| `PutBackIsNoted`, `SyncHistory_undo_restore` | Undoing a restore puts back a session and notes nothing. |
| `NothingOvertaken` with gaps, `SessionRuntime_gap` | `hand_over` takes the waiting text out of the outbox and then tells the session, which finds that the app was held back, pauses, and refuses the text. The box still shows it, and what the session answers with is older. |
| `SettingsComeThrough`, `SyncSettings_lost` | A setting changed while a sync runs that took another setting is written over by what the sync started with (`ctx.rs:371`, `403`). `docs/sync.md:83-84`: changes to two settings both come through. |
| `StampedByHand`, `SyncSettings_reverted` | The settings and stamps are noted before the file is written (`run.rs:531`). Where that fails, the app never takes them up, and the next sync stamps what it still uses as changed here: another device's change goes back. |
| `ChangesComeThrough`, `SyncSettings_behind` | A change is stamped by the clock of its own device (`ctx.rs:373`, `settings.rs:188-221`) and merging takes the newest stamp (`settings.rs:226-239`). A count changed on a device whose clock is behind is changed back by its own sync to what another stamped before. `docs/sync.md:83-85`: "a change made on one device and another made on another both come through". |
| `ChangesComeThrough`, `SyncSettings_cleared` | Counts cleared are noted as cleared before the file is written. Where that fails, nothing is stamped as taken away, here or in the drive, and the next sync takes the older counts up again. `docs/sync.md:83-84`. |
| `NeverLost`, `HistoryStore_swept` | A copy that opens lists the folders (`files.rs:274`) and then takes away each record it listed beside its tombstone (`files.rs:288`). Another copy that undoes the deletion in between, and is told the record is stored, loses it. `files.rs:329-331`: "a change cut short never loses a session". |
| `UpToDate`, `HistoryStore_unseen` | What another copy did while this one made a change or read a listing counts as its own doing once the folders are stamped (`files.rs:363`, `555`): no look for changes finds it. `files.rs:968`, `975`. |
| `KeptForGood`, `HistoryStore_comes_back` | Two copies delete a session at once, one fails and takes its tombstone back, which the other found and relied on (`files.rs:416-421`): the deletion the other told of is undone. `docs/platforms.md:768-771`. |

## Proofs

`SyncHistory_proofs` proves, for any sets of devices and records, any restores,
clocks and bounds, from the assumptions the module names:

* `TypeCorrect`: `TypeOK`;
* `DriveViewCorrect`: `DriveView`;
* `MissingIsNeverDeletedEver`: `MissingIsNeverDeleted`;
* `PromiseIsKept`: `KeepsPromise`, the refinement.

The invariant they rest on, `IInv`, has four parts, each needed for the next.
`TypeInv` is the types and that the drive holds finitely many packs, without which
the word of a set of packs is no word (a latest time need not exist). `DriveView`
says that each word a device goes by is the word of packs in the drive; it is
inductive with the lemma `WordOfUnion`, that taking the word of some packs into
the word of others gives the word of them all. `DeletedByHand` strengthens
`MissingIsNeverDeleted` by what is under way: what a running sync plans to delete,
here or in the drive, someone deleted by hand. `FollowsDrive` says a running sync
goes by what the drive says: it has read all the device noted as read, the bytes
it holds are of records the drive holds, what it will let go the drive deleted.
From these each action maps to one step of `SharedHistory`: a change to `Follow`,
a pack sent to `Tell`, the end of a sync to `Learn`, and everything else to a
change by hand, a loss or a stutter.

The same module goes on from there, of what a device notes of the drive:

* `ReadIsStoredEver`: `ReadIsStored`, from `NotedIsStored`: of every pack a device
  has read, what the pack holds is in its store, was deleted after it came, or is
  among what the running sync still has to put there (`Stored`), and what a sync has
  not read it does not note (`Unknown`).
* `NoneIsStuckEver`: `NoneIsStuck`, under `SkewIsEven`. The model gives deletions
  even times and what is put back odd ones, which says that no session is deleted
  and put back in the same millisecond; clocks that are off by an even number keep
  it so. The argument is that parity (`Apart`): two times that differ cannot leave a
  session deleted for one device and not for another. With a tie it can
  (`plan.rs:173`, among the hazards), so the theorem says what it needs and no more.
* `OnlyByHandEver`: `OnlyByHand`, from `DeletionsNoted` and `OwnDeletions`: a
  deletion a device notes or is about to tell of was read in the drive or made
  there by hand.
* `NoteKeptEver`: `NoteKept`, where `Fills = {}`: no restore is undone. The
  invariant `NotesStand` says that no note is of the time to come, and each of what
  was in the store (`Dated`), that notes set beside a running sync are of later than
  it began (`Beside`), and that a note the sync will let go is of no use (`Kept`).
  The hypothesis is needed: undoing a restore
  puts a session back with no note of it (`PutBackIsNoted`, in the table above), and
  an older note of the same session may then be dropped while it is still listed as
  alive; TLC finds it with one device and no fault. The runs that check `NoteKept`
  have `Fills = {}` too.

`SharedHistory_proofs` shows that the abstract specification says something:
nothing leaves a history unasked (`NothingGoesUnaskedEver`).

`SyncSettings_proofs` proves, for any devices, clocks, keys, choices and bounds, from
`ChoicesAssumption` (values are numbers, so that any two stamped keys compare)
and `DevicesAssumption` (with `SkewAssumption`, that clocks are ahead by some time):

* `MergeIsJoin`: merging is associative, commutative and idempotent, so the order
  in which files are read, and how often, makes no difference;
* `TypeCorrect`: `TypeOK`;
* `NewestStays`: `NewestKept`, an action property, from `Inv`: the types, and
  `HeldIsFile`, that what a sync read of its own file is what the file still is
  and what it is to write holds all of it;
* `CountsStand`: `CountsComeThrough`, an action property, for any clocks and faults.

`CountsComeThrough` needs to know of every stamp of a count there is, in the
drive, in a sync or on a device (`Known`). While one device at most has changed it
(`sole`): every stamp is of the past by the clock of a device in time (`Past`) and
before what that device's sync under way stamps (`Ahead`), which takes that a device
that stamps anything moves the time on; no other device uses what it has not synced (`Still`); and the device
has the change yet to stamp, and knows so (`touched`), or its own file has it
later than anything else there is (`Stands`, `Foremost`). `TakeUp` turns the one
into the other; a second device that finds the drive empty, and stamps all it
uses, is what `BeginsTwice` sets apart, as a crash and turning on anew are. TLC
checked it of two devices to the end and of three at random.

`SyncTurning_proofs` proves, for any devices, passphrases and bounds, from
`TriedAssumption`:

* `TypeCorrect`: `TypeOK`;
* `OneKeyStands`: `OneKey`.

`OneKey` is not inductive: a device may go by a keyring it found, made or began to
sync with long before. `HeldAreSound` says of every keyring a device holds, in
whatever variable, that it is the first in the drive or not there at all; it is
kept because keyrings are numbered as they are made and never come back.
`HaveFirst` says any keyrings in the drive have a first: a set of numbers has a
least, said of the drive as it is so that no induction is needed.

* `AskedIsOnItsWayEver`: `AskedIsOnItsWay`, from `Waits`: with the types, a device
  that runs no sync holds nothing of one.

`HistoryStore_proofs` proves, for any copies, sessions and bounds, from the
assumptions `HistoryStore` names:

* `TypeCorrect`: `TypeOK`;
* `SureStaysEver`: `SureStays`;
* `GoneStaysEver`: `GoneStays`;
* `FinishedIsKeptEver`: `FinishedIsKept`;
* `NoneWaitsEver`: `NoneWaits`.

They are parts of one invariant, `Inv`, for what is on disk, what survives a power
cut, what a thread is in the middle of and what the app was told are bound up with
each other. `Shape` says which fields a piece of work has at which step and that
an app that is down does nothing. `Aware` says that a change under way knows of the deletions, and the undoing of
deletions, of the other copies; `StoredSoFar` and `DeletedSoFar` how much of a
change is on disk, and how much of it would survive, at each step a thread takes;
`ByHand` that nothing goes but what was deleted; `Holds` that what a copy shows is
on disk or in its mark, and what it was told is so.
The proof goes by who moves. What the app does leaves the disk alone (`AppStep`). A
thread's step is shown to spoil nothing of the other copies (`Steady`), to do its
own as the step before promised (`Careful`, `Own`) and to tell its app the truth
(`Truthful`). A crash, a power cut and opening again are proved by themselves
(`CrashInv`, `PowerCutInv`, `OpenInv`, `UnlinkInv`, `LoadedInv`): what a copy has
listed is of sessions that finished (`Opening`), and a record it takes away without
its tombstone is noted in `swept`, until a sync of the folder has one again.

`SessionRuntime_proofs` proves, for any number of groups, answers, settings and
bounds, and whatever else may happen, from the assumptions `SessionMachine` and
`SessionRuntime` name:

* `TypeCorrect`: `TypeOK`;
* `InOrderEver`, `OnItsWayEver`, `QuietEver`, `TimedFairlyEver`, `HeardIsRightEver`:
  the five safety invariants of the session's runs;
* `NothingOvertakenEver`, `TimersWaitEver`: the action properties `NothingOvertaken`
  and `TimersWait`, where `"gaps" \notin Happens`. Held back for longer than a
  heartbeat, a session pauses before it hears the box, and what waits there is lost
  to it: the finding of `SessionRuntime_gap`, so neither holds without the hypothesis (TLC
  finds a timer that closes an answer being entered in eight states, with two
  groups). The run that checks them has `Happens = {"paddles"}`.

The session is one record that operators make another of, several in one step, so
the proof goes by operators and not by actions: a lemma for each says it leaves a
session that fits (`Fits`) where it was handed one. Half-way through a step a session
need not fit: a timer has run out that the machine still waits for, a send is gone,
is tried again or has failed and the machine is yet to hear of it, or the audio is
claimed for a session that is paused. `Fits` is told what is amiss (`due` and
`amiss`), `Finds` which event goes with it, and `DispatchFits` says that the event
puts it right. The parts of `Fits` go with one another: `OnItsWay` needs `TimersFit`
and `Waits` (each phase waits for a timer of its own, in flight) and `Confirmed` (the
timer of an answer of full length is of that answer); `InOrder` needs `Learned` and
`AboutNext`; `TimedFairly` needs `TimedRight`, which knows what is noted of keys
before a pause; `HeardIsRight` needs `HeardSo`, which counts the send that sounds
now, and `OutRight`. `Inv` adds that what waits in the box is short of its group's
length, and that a timer id is always free (`Room`): a timer that started with the
id of one in flight would be lost.

`BoxHeard` is what `NothingOvertaken` rests on: the answer the session has is what its
box holds, but for what waits there and can still be taken. `Hears` says that an event
of the session's keeps it, and closes an answer only with what the box holds, a letter
keyed in full with it; `TimerWaits` that a timer does so only where nothing is being
entered.

`ContestRun_proofs` proves, for any finite set of callers, any calls and phrases, both
run styles and any bounds, from the assumptions `ContestRun` names:

* `TypeCorrect`: `TypeOK`;
* `OneCopyEver`, `NoneHiddenEver`, `ChecksComeOutEver`, `NobodyStandsEver`: the four
  safety invariants of the run;
* `LoggedIsFinalEver`, `TaughtStandsEver`: the action properties.

`CallersAssumption` (the callers are finitely many) is there because the stations lost
are logged in some order, each once, `PhrasesAssumption` because a message is a sequence
of parts.

What can happen to a side is heard, lost, logged or joined, and each is shown to
leave it `Whole`: a station's copy is in the log where it is noted as kept and there
once (`CopiesFit`), a station that never came has neither copy nor QSO, and those you
work and thanked came. This is what `OneCopy` needs to be inductive. `NoneLeft` is the
same for `NoneHidden`: a station with a QSO that has left the frequency is in the log,
or thanked. It does not hold half-way through a step, when stations have heard a
message and those finished are yet to be lost (`CloseFinished`), so it is proved of
what a step ends with.

Neither would survive Esc by itself, which puts back what the stations were before a
message. `Backed` says of a message that may still be taken back, before anything of
it is logged, that the side it would leave (`Undone`) is whole too, that what came to
the log after it is only what was lost over it, and that no more was taught than was
in the log before it. `LoggedIsFinal` and `TaughtStands` are then of the step from
one side to the other: rows of a side stay where they are (`KeptRows`), and what Esc
cuts off is neither logged nor taught. `Again` is what `NobodyStands` needs: those
cut short by a pause wait for the timer Resume sets, and nothing is on the air then.

A message is any sequence of parts, and a station hears them one after the other,
through a recursive function (`heard` in `Hears`). The library's induction takes an operator as a parameter,
out of the provers' reach, but these proofs only need sets of numbers: `LeastOf` says
that a set of numbers has a least, and `InductOn` that a set with 0 in it, and with
n + 1 where n is in it, holds all. With these, what each part preserves
(`HearPart`) is what a whole message preserves, whatever its length.

Every safety invariant and action property the runs check is proved, but for the
hypotheses given above (`NoneIsStuck`, `NoteKept`, `NothingOvertaken`
and `TimersWait`, each refuted without it). Only model-checked
are the liveness properties, `Converges`, `Agree`, `Together` and `GetsOut`, as
liveness under fairness is out of the prover's reach, and `KeyForgotten`, which fails.

## Plan

In this order:

1. `ContestRun`: Enter's choice (`esm.rs`) as a module of its own that implements
   "any message".
2. `SyncHistory`: split a session put back from its note; ties in time.
3. `HistoryStore`: an abstract specification of one atomic change
   (`SyncHistory!Made`) that `make` implements.
4. The journals of restores and the packs of the store; the browser's stores.
5. `AutoLevel`, `Keyer`: small sequential machines.

## Not modelled

The contest's runtime and view, the browser's stores, backups' merging, auto
level, the keyer: within reach, and in the plan or small. Signing in and the
drive's requests: modelled by what they do for a sync, a request that succeeds,
fails or loses its answer.

Out of reach or pure: sealing (cryptography), audio, band noise and statistics (floating
point), the contest's rules (tables and text), the UI (rendering), the vendored
windowing library.
