---------------------------- MODULE SyncSettings ----------------------------
(***************************************************************************)
(* Everything a device uses beside its history, as synced devices keep it  *)
(* the same: the settings, the counts auto level keeps, the theme and the  *)
(* marks (src/sync/settings.rs, sync_settings of src/sync/run.rs, and what *)
(* sync_now of src/sync/ctx.rs does with what a sync took).                *)
(*                                                                         *)
(* Each device writes a file of its own, every key with when it was last   *)
(* changed, and takes the newest of each key of every file.  The settings  *)
(* are the app's: a sync has a copy of them from its start, and the app    *)
(* takes up what the sync took at its end, where it ends well.  The rest   *)
(* is the store's, read and written by the sync as it goes.                *)
(***************************************************************************)
EXTENDS Integers, FiniteSets

CONSTANTS Devices,
          AppKeys,      \* the settings, by key
          StoreKeys,    \* runs of counters, the theme and the marks
          Choices,        \* what each key may be
          Away,         \* the value of a key taken away, or never set
          Removable,    \* the keys that may be taken away again
          MaxChanges,   \* bound: changes by the learner, and faults, in all
          MaxFaults,    \* bound: faults, in all
          FaultKinds,   \* the faults that may come
          Skew          \* how far ahead of the time each device's clock is

Keys == AppKeys \cup StoreKeys

Values == {Away} \cup UNION {Choices[k] : k \in Keys}

ASSUME KeysAssumption == AppKeys \cap StoreKeys = {} /\ Removable \subseteq Keys
ASSUME ChoicesAssumption == Choices \in [Keys -> SUBSET Nat] /\ Away \in Nat
\* A settings file always holds some key: most settings are never away.
ASSUME PlainAssumption == \E k \in AppKeys : Away \notin Choices[k]
ASSUME BoundsAssumption == MaxChanges \in Nat /\ MaxFaults \in Nat
ASSUME SkewAssumption == Skew \in [Devices -> Nat]
ASSUME DevicesAssumption == {"left", "none", "many"} \cap Devices = {}

VARIABLES
  using,      \* what each device uses
  file,       \* the settings files in the drive: each device's, and "left",
              \* what is left of those of devices that turned sync off
  saved,      \* what each device's SyncState keeps of the settings
  run,        \* the sync under way on each device, if any
  now,        \* the time
  sole,       \* history: the device each key was changed on by hand, if on one
  touched,    \* history: the keys changed by hand on each device since they
              \* were last stamped there
  forgot,     \* history: the keys taken away on each device that its sync noted
              \* so and could not write
  changes,    \* how many changes the learner has made
  faults      \* how many faults there have been

vars == <<using, file, saved, run, now, sole, touched, forgot, changes, faults>>

-----------------------------------------------------------------------------
(***************************************************************************)
(* Stamped keys.                                                           *)
(***************************************************************************)
Stamped == [v : Values, at : Nat \cup {-1}]
Absent  == [v |-> Away, at |-> -1]      \* a key the map does not hold
File    == [Keys -> Stamped]
NoFile  == [k \in Keys |-> Absent]
Files   == Devices \cup {"left"}

\* Mutant of Beats: of two stamped alike, the first stands, whichever it is.
BeatsStrictly(b, a) == b.at > a.at

\* Stamped later, or alike and told apart by what they hold.
Beats(b, a) == b.at > a.at \/ (b.at = a.at /\ b.v > a.v)

Newer(a, b) == IF Beats(b, a) THEN b ELSE a

\* The newest of each key (merge).
Merge(a, b) == [k \in Keys |-> Newer(a[k], b[k])]

\* A file holds all another does, or newer.
Holds(a, b) == \A k \in Keys : ~Beats(b[k], a[k])

\* The keys of a device stamped: what changed since the last sync, from
\* "base", as of now, one taken away among them; the rest as it was then.
Stamp(here, base, stamps, at) ==
  [k \in Keys |-> CASE here[k] = Away /\ base[k] = Away -> Absent
                    [] here[k] = base[k] -> [v |-> here[k], at |-> stamps[k]]
                    [] OTHER             -> [v |-> here[k], at |-> at]]

\* What a device uses once it has taken "merged": the settings are what it
\* holds of them, and what it holds of the rest is taken up (taken, with).
With(merged, here) ==
  [k \in Keys |-> IF k \in AppKeys \/ merged[k].at >= 0 THEN merged[k].v ELSE here[k]]

-----------------------------------------------------------------------------
(***************************************************************************)
(* The state.                                                              *)
(***************************************************************************)
Uses     == [Keys -> Values]
NoUse    == [k \in Keys |-> Away]
State    == [joined : BOOLEAN, base : Uses, stamps : [Keys -> Nat]]
NewState == [joined |-> FALSE, base |-> NoUse, stamps |-> [k \in Keys |-> 0]]

Steps == {"idle", "started", "reading", "writing"}
RunOf == [step : Steps, at : Nat, here : Uses, unread : SUBSET Files,
          others : File, held : File, state : State, merged : File]
NoRun == [step |-> "idle", at |-> 0, here |-> NoUse, unread |-> {}, others |-> NoFile,
          held |-> NoFile, state |-> NewState, merged |-> NoFile]

Many == "many"

TypeOK ==
  /\ using \in [Devices -> Uses]
  /\ file \in [Files -> File]
  /\ saved \in [Devices -> State]
  /\ run \in [Devices -> RunOf]
  /\ now \in Nat
  /\ sole \in [Keys -> Devices \cup {"none", Many}]
  /\ touched \in [Devices -> SUBSET Keys]
  /\ forgot \in [Devices -> SUBSET Keys]
  /\ changes \in Nat
  /\ faults \in Nat

\* The time as a device's clock has it (now_ms).
Clock(d) == now + Skew[d]

Running(d) == run[d].step # "idle"

\* What a device may use.
MayUse == {u \in Uses : \A k \in Keys : u[k] \in Choices[k]}

\* Devices turn sync on used in any way.
Init ==
  /\ using \in [Devices -> MayUse]
  /\ file = [f \in Files |-> NoFile]
  /\ saved = [d \in Devices |-> NewState]
  /\ run = [d \in Devices |-> NoRun]
  /\ now = 1
  /\ sole = [k \in Keys |-> "none"]
  /\ touched = [d \in Devices |-> {}]
  /\ forgot = [d \in Devices |-> {}]
  /\ changes = 0
  /\ faults = 0

MayFault(kind) == /\ kind \in FaultKinds
                  /\ faults < MaxFaults /\ changes + faults < MaxChanges
                  /\ faults' = faults + 1

-----------------------------------------------------------------------------
(***************************************************************************)
(* The learner.                                                            *)
(***************************************************************************)

\* What a device goes by as synced: what its sync has noted, from when it has.
Kept(d) == IF run[d].step = "writing" THEN run[d].state ELSE saved[d]

\* A setting, a count or the theme is changed here, or taken away.  Before a
\* device first syncs a change is only what it comes with, and one changed
\* back before it was synced is no change.
Change(d, k, v) ==
  /\ changes + faults < MaxChanges
  /\ v \in Choices[k] /\ v # using[d][k]
  /\ v = Away => k \in Removable
  /\ saved[d].joined
  /\ using' = [using EXCEPT ![d][k] = v]
  /\ sole' = [sole EXCEPT ![k] =
                IF @ \in {"none", d} /\ ~(k \in touched[d] /\ v = Kept(d).base[k])
                  THEN d ELSE Many]
  /\ touched' = [touched EXCEPT ![d] = @ \cup {k}]
  /\ changes' = changes + 1
  /\ UNCHANGED <<file, saved, run, now, forgot, faults>>

\* Sync is turned off and on again: a device anew, with nothing kept and no
\* file, beside the one it leaves.  What it changed and had not sent is not
\* wanted any more.
Rejoin(d) ==
  /\ MayFault("rejoin")
  /\ ~Running(d) /\ saved[d].joined
  /\ saved' = [saved EXCEPT ![d] = NewState]
  /\ file' = [file EXCEPT !["left"] = Merge(@, file[d]), ![d] = NoFile]
  /\ touched' = [touched EXCEPT ![d] = {}]
  /\ sole' = [k \in Keys |-> Many]
  /\ UNCHANGED <<using, run, now, forgot, changes>>

-----------------------------------------------------------------------------
(***************************************************************************)
(* The sync of one device.                                                 *)
(***************************************************************************)

\* A sync starts with a copy of the state and of the settings as the app has
\* them, as of this device's own clock (sync_now).
Start(d) ==
  /\ ~Running(d)
  /\ run' = [run EXCEPT ![d] = [NoRun EXCEPT !.step = "started", !.at = Clock(d),
                                            !.here = using[d], !.state = saved[d]]]
  /\ UNCHANGED <<using, file, saved, now, sole, touched, forgot, changes, faults>>

\* The drive is listed, and this device's own file read, which nothing else
\* writes.
List(d) ==
  /\ run[d].step = "started"
  /\ run' = [run EXCEPT ![d].step = "reading",
                        ![d].held = file[d],
                        ![d].unread = {f \in Files \ {d} : file[f] # NoFile}]
  /\ UNCHANGED <<using, file, saved, now, sole, touched, forgot, changes, faults>>

\* Another's settings file is read.
Read(d, f) ==
  /\ run[d].step = "reading" /\ f \in run[d].unread
  /\ run' = [run EXCEPT ![d].unread = @ \ {f}, ![d].others = Merge(@, file[f])]
  /\ UNCHANGED <<using, file, saved, now, sole, touched, forgot, changes, faults>>

\* What the device uses as its sync sees it: the settings as it started, the
\* rest as the store has it now (Using::of).
Seen(d) == [k \in Keys |-> IF k \in AppKeys THEN run[d].here[k] ELSE using[d][k]]

\* Mutant of Mine: a device that joins stamps what it uses, as any other.
MineAlways(d) == Stamp(Seen(d), run[d].state.base, run[d].state.stamps, run[d].at)

\* What a device adds of its own: nothing as it joins what others sync.
Mine(d) ==
  IF ~run[d].state.joined /\ run[d].others # NoFile THEN NoFile
  ELSE Stamp(Seen(d), run[d].state.base, run[d].state.stamps, run[d].at)

\* Mutant of Merged: what this device's file held goes.
MergedWithoutHeld(d) == Merge(run[d].others, Mine(d))

\* What the drive's files and this device come to.
Merged(d) == Merge(Merge(run[d].others, run[d].held), Mine(d))

\* The keys a sync stamps as changed here since the last.
Anew(d) == {k \in Keys : Seen(d)[k] # run[d].state.base[k] /\ Mine(d)[k].at = run[d].at}

\* Two devices turned sync on at once, each finding the drive empty, and each
\* stamps all it uses as changed.
BeginsTwice(d) ==
  /\ ~run[d].state.joined /\ run[d].others = NoFile
  /\ \E e \in Devices \ {d} : saved[e].joined \/ run[e].state.joined

\* Mutant of Noted: a key no file holds is noted as never stamped.
NotedUnstamped(d, merged, takes) ==
  [joined |-> TRUE, base |-> takes, stamps |-> [k \in Keys |-> merged[k].at]]

\* What is noted as synced: all of it, and when each key was changed.
Noted(d, merged, takes) ==
  [joined |-> TRUE, base |-> takes,
   stamps |-> [k \in Keys |-> IF merged[k].at < 0 THEN 0 ELSE merged[k].at]]

\* The settings as the app shows them once a sync ends well: those the sync
\* took, all of them, where they are other than it started with.
Shown(d, takes, from) ==
  [k \in Keys |-> IF k \in AppKeys /\ (\E a \in AppKeys : takes[a] # from[a])
                    THEN takes[k] ELSE using[d][k]]

\* The sync ends, and the state as it left it is kept, however it ended.
End(d, state) == /\ saved' = [saved EXCEPT ![d] = state]
                 /\ run' = [run EXCEPT ![d] = NoRun]

\* With every file read, what they come to is taken: into the store at once,
\* what of it is the store's, and noted as synced, all of it (sync_settings).
\* Where this device's file holds it already the sync ends, well.  A later
\* sync of the device has a later time.
TakeUp(d) ==
  /\ run[d].step = "reading" /\ run[d].unread = {}
  /\ LET merged == Merged(d)
         takes  == With(merged, Seen(d))
         noted  == Noted(d, merged, takes)
         stored == [k \in Keys |-> IF k \in StoreKeys THEN takes[k] ELSE using[d][k]]
         shown  == Shown(d, takes, run[d].here)
     IN  IF merged = run[d].held
           THEN /\ End(d, noted)
                /\ using' = [using EXCEPT ![d] = [k \in Keys |->
                               IF k \in StoreKeys THEN stored[k] ELSE shown[k]]]
           ELSE /\ using' = [using EXCEPT ![d] = stored]
                /\ run' = [run EXCEPT ![d] = [NoRun EXCEPT
                             !.step = "writing", !.here = run[d].here,
                             !.state = noted, !.merged = merged]]
                /\ UNCHANGED saved
  /\ touched' = [touched EXCEPT ![d] = @ \ {k \in Anew(d) : using[d][k] = Seen(d)[k]}]
  /\ now' = IF Anew(d) # {} /\ Clock(d) = run[d].at THEN now + 1 ELSE now
  /\ sole' = [k \in Keys |-> IF BeginsTwice(d) THEN Many ELSE sole[k]]
  /\ forgot' = [forgot EXCEPT ![d] = @ \ Anew(d)]
  /\ UNCHANGED <<file, changes, faults>>

\* The device's own file is written, and the sync ends well: the app takes up
\* the settings.
Write(d) ==
  /\ run[d].step = "writing"
  /\ file' = [file EXCEPT ![d] = run[d].merged]
  /\ using' = [using EXCEPT ![d] = Shown(d, run[d].state.base, run[d].here)]
  /\ End(d, run[d].state)
  /\ UNCHANGED <<now, sole, touched, forgot, changes, faults>>

\* It is written, and the answer lost: an error to this device.
AnswerLost(d) ==
  /\ MayFault("answer")
  /\ run[d].step = "writing"
  /\ file' = [file EXCEPT ![d] = run[d].merged]
  /\ End(d, run[d].state)
  /\ UNCHANGED <<using, now, sole, touched, forgot, changes>>

\* What a sync has noted as taken away, and its device's file does not say so.
Unsaid(d) == {k \in Keys : run[d].merged[k].v = Away /\ run[d].merged[k] # file[d][k]}

\* A request fails, before all is read, or the writing of the file: the app
\* takes up no settings.
Fail(d) ==
  /\ \/ /\ run[d].step \in {"started", "reading"} /\ MayFault("fail")
        /\ UNCHANGED forgot
     \/ /\ run[d].step = "writing" /\ MayFault("unwritten")
        /\ forgot' = [forgot EXCEPT ![d] = @ \cup Unsaid(d)]
  /\ End(d, run[d].state)
  /\ UNCHANGED <<using, file, now, sole, touched, changes>>

\* The app stops, the writing of its file done or not, and is started again
\* with what its store has.  What was taken into the store and not noted is
\* stamped here by the next sync.
Crash(d) ==
  /\ MayFault("crash")
  /\ Running(d)
  /\ run' = [run EXCEPT ![d] = NoRun]
  /\ \/ UNCHANGED file
     \/ /\ run[d].step = "writing"
        /\ file' = [file EXCEPT ![d] = run[d].merged]
  /\ sole' = [k \in Keys |-> Many]
  /\ touched' = [touched EXCEPT ![d] = @ \cup {k \in Keys : using[d][k] # saved[d].base[k]}]
  /\ UNCHANGED <<using, saved, now, forgot, changes>>

-----------------------------------------------------------------------------
Sync(d) == \/ Start(d)
           \/ List(d)
           \/ \E f \in Files : Read(d, f)
           \/ TakeUp(d)
           \/ Write(d)

Learner(d) == \E k \in Keys, v \in Values : Change(d, k, v)

Fault(d) == Fail(d) \/ AnswerLost(d) \/ Crash(d) \/ Rejoin(d)

Next == \E d \in Devices : Sync(d) \/ Learner(d) \/ Fault(d)

Spec == Init /\ [][Next]_vars

\* Each device goes on syncing; the learner and the faults are under no
\* obligation.
Fairness == \A d \in Devices : WF_vars(Sync(d))

FairSpec == Spec /\ Fairness

-----------------------------------------------------------------------------
(***************************************************************************)
(* What makes it correct.                                                  *)
(***************************************************************************)

\* What is in the drive is never older than it was: the newest the files hold
\* of a key never goes back to an earlier change of it, whatever syncs read
\* while others wrote, failed, or were cut short (settings.rs, "two that sync
\* at once never write over each other").
NewestKept ==
  [][\A f \in Files, k \in Keys : \E g \in Files : ~Beats(file[f][k], file'[g][k])]_vars

\* A sync of d changes the value of k there.
Turns(d, k) == using'[d][k] # using[d][k] /\ run'[d] # run[d]

\* A device whose clock is behind no other's.
InTime(d) == \A e \in Devices : Skew[e] <= Skew[d]

\* A count or the theme changed by hand on one device only, whose clock is
\* behind no other's, stands there: no sync changes it back, the one it was
\* taken away by and could not say so apart (docs/sync.md, "a change made on
\* one device and another made on another both come through").
CountsComeThrough ==
  [][\A d \in Devices, k \in StoreKeys :
       InTime(d) /\ Turns(d, k) => sole[k] # d \/ k \in forgot[d]]_vars

\* The same as docs/sync.md has it, of any device, whatever fails.
ChangesComeThrough ==
  [][\A d \in Devices, k \in StoreKeys : Turns(d, k) => sole[k] # d]_vars

\* A setting changed by hand on one device only stands there too
\* (docs/sync.md, as above).
SettingsComeThrough ==
  [][\A d \in Devices, k \in AppKeys : Turns(d, k) => sole[k] # d]_vars

\* A device stamps as changed now only what was changed on it by hand
\* (settings.rs, "each that changed since the last sync").
StampedByHand ==
  \A d \in Devices :
    run[d].step = "reading" /\ run[d].unread = {} /\ run[d].state.joined =>
      Anew(d) \subseteq touched[d]

\* Once the learner rests, every device uses the same, and it is what the
\* files come to (docs/sync.md, "set up as every other").
Agreed ==
  \A d, e \in Devices : using[d] = using[e] /\ file[d] = file[e]

Agree == <>[]Agreed
=============================================================================
