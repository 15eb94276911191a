------------------------- MODULE SyncSettings_proofs -------------------------
(***************************************************************************)
(* What devices keep the same beside their history, for any devices, keys, *)
(* values and bounds: what the files come to does not hang on the order    *)
(* they are read in; nothing in the drive goes back to an earlier change,  *)
(* though each device writes over its own file what it worked out from     *)
(* what it read some time before; and a count changed on one device alone  *)
(* is changed back by no sync.                                             *)
(*                                                                         *)
(* A device's file changes by its own syncs alone, so what a sync read of  *)
(* it stands until it writes; that, and that a merge is never older than   *)
(* what it is made of, is the invariant of the drive.  Of a count changed  *)
(* on one device alone, whose clock is behind no other's, it is that the   *)
(* device stamps it later than all there is of it anywhere, and sends it   *)
(* so from then on; one taken away it has in its own file.                 *)
(***************************************************************************)
EXTENDS SyncSettings, TLAPS

-----------------------------------------------------------------------------
(***************************************************************************)
(* Stamped keys.                                                           *)
(***************************************************************************)
LEMMA StampedNumbers ==
  ASSUME NEW a \in Stamped
  PROVE  a.at \in Int /\ a.v \in Int /\ a = [v |-> a.v, at |-> a.at]
<1>1. ASSUME NEW v \in Values PROVE v \in Nat
  <2>1. v = Away \/ \E k \in Keys : v \in Choices[k]
    BY DEF Values
  <2>2. \A k \in Keys : Choices[k] \in SUBSET Nat
    BY ChoicesAssumption
  <2>. QED BY <2>1, <2>2, ChoicesAssumption
<1>2. a.v \in Values /\ a.at \in Nat \cup {-1}
  BY DEF Stamped
<1>3. a = [v |-> a.v, at |-> a.at]
  BY DEF Stamped
<1>4. a.v \in Int /\ a.at \in Int
  BY <1>1, <1>2
<1>. QED BY <1>3, <1>4

\* Of any two, one beats the other, or they are the same.
LEMMA BeatsTotal ==
  ASSUME NEW a \in Stamped, NEW b \in Stamped
  PROVE  /\ ~Beats(a, a)
         /\ Beats(a, b) => ~Beats(b, a)
         /\ Beats(a, b) \/ Beats(b, a) \/ a = b
<1>1. /\ a.at \in Int /\ a.v \in Int /\ b.at \in Int /\ b.v \in Int
      /\ a = [v |-> a.v, at |-> a.at] /\ b = [v |-> b.v, at |-> b.at]
  BY StampedNumbers
<1>2. a.at = b.at /\ a.v = b.v => a = b
  BY <1>1
<1>. QED BY <1>1, <1>2 DEF Beats

LEMMA BeatsOn ==
  ASSUME NEW a \in Stamped, NEW b \in Stamped, NEW c \in Stamped,
         ~Beats(a, b), ~Beats(b, c)
  PROVE  ~Beats(a, c)
BY StampedNumbers DEF Beats

LEMMA NewerIsNewest ==
  ASSUME NEW a \in Stamped, NEW b \in Stamped
  PROVE  /\ Newer(a, b) \in Stamped
         /\ ~Beats(a, Newer(a, b)) /\ ~Beats(b, Newer(a, b))
BY BeatsTotal DEF Newer

\* Neither the order two are read in, nor how three are put together, nor
\* reading one twice is told from what they come to.
LEMMA NewerIsJoin ==
  ASSUME NEW a \in Stamped, NEW b \in Stamped, NEW c \in Stamped
  PROVE  /\ Newer(a, a) = a
         /\ Newer(a, b) = Newer(b, a)
         /\ Newer(Newer(a, b), c) = Newer(a, Newer(b, c))
<1>1. Newer(a, a) = a /\ Newer(a, b) = Newer(b, a)
  BY BeatsTotal DEF Newer
<1>2. /\ Beats(b, a) /\ Beats(c, b) => Beats(c, a)
      /\ ~Beats(b, a) /\ ~Beats(c, b) => ~Beats(c, a)
  BY StampedNumbers DEF Beats
<1>3. Newer(Newer(a, b), c) = Newer(a, Newer(b, c))
  BY <1>2 DEF Newer
<1>. QED BY <1>1, <1>3

-----------------------------------------------------------------------------
(***************************************************************************)
(* Types.                                                                  *)
(***************************************************************************)
LEMMA AwayTypes ==
  /\ Away \in Values /\ Absent \in Stamped
  /\ NoFile \in File /\ NoUse \in Uses /\ NewState \in State /\ NoRun \in RunOf
<1>1. Away \in Values /\ Absent \in Stamped
  <2>1. Away \in Values
    BY DEF Values
  <2>. QED BY <2>1 DEF Absent, Stamped
<1>2. NoFile \in File /\ NoUse \in Uses
  BY <1>1 DEF NoFile, File, NoUse, Uses
<1>3. NewState \in State
  BY <1>2 DEF NewState, State
<1>4. NoRun \in RunOf
  BY <1>2, <1>3 DEF NoRun, RunOf, Steps
<1>. QED BY <1>1, <1>2, <1>3, <1>4

LEMMA MergeType ==
  ASSUME NEW a \in File, NEW b \in File
  PROVE  Merge(a, b) \in File /\ Holds(Merge(a, b), a) /\ Holds(Merge(a, b), b)
<1>1. \A k \in Keys : a[k] \in Stamped /\ b[k] \in Stamped
  BY DEF File
<1>. QED BY <1>1, NewerIsNewest DEF Merge, File, Holds

\* The files come to the same in whatever order they are read (merge).
THEOREM MergeIsJoin ==
  ASSUME NEW a \in File, NEW b \in File, NEW c \in File
  PROVE  /\ Merge(a, a) = a
         /\ Merge(a, b) = Merge(b, a)
         /\ Merge(Merge(a, b), c) = Merge(a, Merge(b, c))
<1>1. \A k \in Keys : a[k] \in Stamped /\ b[k] \in Stamped /\ c[k] \in Stamped
  BY DEF File
<1>2. Merge(a, a) = a
  BY <1>1, NewerIsJoin DEF Merge, File
<1>3. Merge(a, b) = Merge(b, a)
  BY <1>1, NewerIsJoin DEF Merge
<1>4. \A k \in Keys : Merge(Merge(a, b), c)[k] = Merge(a, Merge(b, c))[k]
  BY <1>1, NewerIsJoin DEF Merge
<1>5. Merge(Merge(a, b), c) \in File /\ Merge(a, Merge(b, c)) \in File
  BY MergeType
<1>. QED BY <1>2, <1>3, <1>4, <1>5 DEF File

LEMMA StampType ==
  ASSUME NEW here \in Uses, NEW base \in Uses, NEW stamps \in [Keys -> Nat], NEW at \in Nat
  PROVE  Stamp(here, base, stamps, at) \in File
<1>. SUFFICES ASSUME NEW k \in Keys PROVE Stamp(here, base, stamps, at)[k] \in Stamped
  BY DEF Stamp, File
<1>1. here[k] \in Values /\ stamps[k] \in Nat
  BY DEF Uses
<1>. QED BY <1>1, AwayTypes DEF Stamp, Stamped

LEMMA RunTypes ==
  ASSUME NEW r \in RunOf
  PROVE  /\ r.step \in Steps /\ r.at \in Nat /\ r.here \in Uses /\ r.unread \in SUBSET Files
         /\ r.others \in File /\ r.held \in File /\ r.state \in State /\ r.merged \in File
         /\ r.state.base \in Uses /\ r.state.stamps \in [Keys -> Nat]
BY DEF RunOf, State

LEMMA SeenType ==
  ASSUME TypeOK, NEW d \in Devices
  PROVE  Seen(d) \in Uses
<1>1. run[d].here \in Uses /\ using[d] \in Uses
  BY RunTypes DEF TypeOK
<1>. QED BY <1>1 DEF Seen, Uses

LEMMA MergedType ==
  ASSUME TypeOK, NEW d \in Devices
  PROVE  Mine(d) \in File /\ Merged(d) \in File /\ Holds(Merged(d), run[d].held)
<1>1. run[d] \in RunOf
  BY DEF TypeOK
<1>2. Mine(d) \in File
  BY <1>1, RunTypes, SeenType, StampType, AwayTypes DEF Mine
<1>3. Merge(run[d].others, run[d].held) \in File
  BY <1>1, RunTypes, MergeType
<1>4. Merged(d) \in File
  BY <1>2, <1>3, MergeType DEF Merged
<1>5. /\ Holds(Merge(run[d].others, run[d].held), run[d].held)
      /\ Holds(Merged(d), Merge(run[d].others, run[d].held))
  BY <1>1, <1>2, <1>3, RunTypes, MergeType DEF Merged
<1>6. ASSUME NEW k \in Keys PROVE ~Beats(run[d].held[k], Merged(d)[k])
  <2>1. /\ run[d].held[k] \in Stamped /\ Merged(d)[k] \in Stamped
        /\ Merge(run[d].others, run[d].held)[k] \in Stamped
    BY <1>1, <1>3, <1>4, RunTypes DEF File
  <2>. QED BY <1>5, <2>1, BeatsOn DEF Holds
<1>. QED BY <1>2, <1>4, <1>6 DEF Holds

\* What a sync that takes up works out.
LEMMA TakenTypes ==
  ASSUME TypeOK, NEW d \in Devices
  PROVE  /\ With(Merged(d), Seen(d)) \in Uses
         /\ Noted(d, Merged(d), With(Merged(d), Seen(d))) \in State
         /\ \A takes \in Uses, from \in Uses : Shown(d, takes, from) \in Uses
<1>1. Merged(d) \in File /\ Seen(d) \in Uses
  BY MergedType, SeenType
<1>2. \A k \in Keys : Merged(d)[k].v \in Values /\ Merged(d)[k].at \in Nat \cup {-1}
  BY <1>1 DEF File, Stamped
<1>3. With(Merged(d), Seen(d)) \in Uses
  BY <1>1, <1>2 DEF With, Uses
<1>4. [k \in Keys |-> IF Merged(d)[k].at < 0 THEN 0 ELSE Merged(d)[k].at] \in [Keys -> Nat]
  BY <1>2
<1>5. Noted(d, Merged(d), With(Merged(d), Seen(d))) \in State
  BY <1>3, <1>4 DEF Noted, State
<1>6. \A takes \in Uses, from \in Uses : Shown(d, takes, from) \in Uses
  BY DEF Shown, Uses, TypeOK
<1>. QED BY <1>3, <1>5, <1>6

LEMMA RunSteps ==
  ASSUME NEW r \in RunOf
  PROVE  /\ \A held \in File, unread \in SUBSET Files :
              [r EXCEPT !.step = "reading", !.held = held, !.unread = unread] \in RunOf
         /\ \A others \in File, unread \in SUBSET Files :
              [r EXCEPT !.unread = unread, !.others = others] \in RunOf
         /\ \A at \in Nat, here \in Uses, state \in State :
              [r EXCEPT !.step = "started", !.at = at, !.here = here, !.state = state] \in RunOf
         /\ \A here \in Uses, state \in State, merged \in File :
              [r EXCEPT !.step = "writing", !.here = here, !.state = state, !.merged = merged] \in RunOf
BY DEF RunOf, Steps

\* Time goes on alike on every device's clock.
LEMMA ClockType ==
  ASSUME TypeOK, NEW d \in Devices
  PROVE  /\ Clock(d) \in Nat /\ Clock(d) >= now
         /\ Clock(d)' = now' + Skew[d] /\ Clock(d) = now + Skew[d] /\ Skew[d] \in Nat
BY SkewAssumption DEF Clock, TypeOK

-----------------------------------------------------------------------------
(***************************************************************************)
(* The invariant.                                                          *)
(***************************************************************************)

\* What a sync read of its own device's file is what the file is, and what it
\* writes over it is no older.
HeldIsFile ==
  \A d \in Devices :
    /\ run[d].step = "reading" => run[d].held = file[d]
    /\ run[d].step = "writing" => Holds(run[d].merged, file[d])

Inv == TypeOK /\ HeldIsFile

LEMMA TypeInit == Init => TypeOK
<1>. SUFFICES ASSUME Init PROVE TypeOK
  OBVIOUS
<1>1. using \in [Devices -> Uses]
  BY DEF Init, MayUse
<1>. QED BY <1>1, AwayTypes DEF Init, TypeOK

LEMMA TypeNext == TypeOK /\ [Next]_vars => TypeOK'
<1>. SUFFICES ASSUME TypeOK, [Next]_vars PROVE TypeOK'
  OBVIOUS
<1>1. ASSUME NEW d \in Devices, NEW k \in Keys, NEW v \in Values, Change(d, k, v) PROVE TypeOK'
  <2>1. using' \in [Devices -> Uses]
    BY <1>1 DEF Change, TypeOK, Uses
  <2>2. sole' \in [Keys -> Devices \cup {"none", Many}]
    BY <1>1 DEF Change, TypeOK
  <2>3. touched' \in [Devices -> SUBSET Keys] /\ changes' \in Nat
    BY <1>1 DEF Change, TypeOK
  <2>. QED BY <1>1, <2>1, <2>2, <2>3 DEF Change, TypeOK
<1>2. ASSUME NEW d \in Devices, Start(d) PROVE TypeOK'
  <2>1. [NoRun EXCEPT !.step = "started", !.at = Clock(d), !.here = using[d], !.state = saved[d]] \in RunOf
    BY ClockType, AwayTypes, RunSteps DEF TypeOK
  <2>. QED BY <1>2, <2>1 DEF Start, TypeOK
<1>3. ASSUME NEW d \in Devices, List(d) PROVE TypeOK'
  <2>1. d \in Files /\ file[d] \in File
    BY DEF TypeOK, Files
  <2>2. [run[d] EXCEPT !.step = "reading", !.held = file[d],
                       !.unread = {f \in Files \ {d} : file[f] # NoFile}] \in RunOf
    BY <2>1, RunSteps DEF TypeOK
  <2>3. run' = [run EXCEPT ![d] = [run[d] EXCEPT !.step = "reading", !.held = file[d],
                                       !.unread = {f \in Files \ {d} : file[f] # NoFile}]]
    BY <1>3 DEF List, TypeOK
  <2>. QED BY <1>3, <2>2, <2>3 DEF List, TypeOK
<1>4. ASSUME NEW d \in Devices, NEW f \in Files, Read(d, f) PROVE TypeOK'
  <2>1. Merge(run[d].others, file[f]) \in File /\ run[d].unread \ {f} \in SUBSET Files
    BY RunTypes, MergeType DEF TypeOK
  <2>2. [run[d] EXCEPT !.unread = run[d].unread \ {f}, !.others = Merge(run[d].others, file[f])] \in RunOf
    BY <2>1, RunSteps DEF TypeOK
  <2>3. run' = [run EXCEPT ![d] = [run[d] EXCEPT !.unread = run[d].unread \ {f},
                                                 !.others = Merge(run[d].others, file[f])]]
    BY <1>4 DEF Read, TypeOK
  <2>. QED BY <1>4, <2>2, <2>3 DEF Read, TypeOK
<1>5. ASSUME NEW d \in Devices, TakeUp(d) PROVE TypeOK'
  <2>. DEFINE merged == Merged(d)
              takes  == With(merged, Seen(d))
              noted  == Noted(d, merged, takes)
              stored == [k \in Keys |-> IF k \in StoreKeys THEN takes[k] ELSE using[d][k]]
              shown  == Shown(d, takes, run[d].here)
              both   == [k \in Keys |-> IF k \in StoreKeys THEN stored[k] ELSE shown[k]]
              goes   == [NoRun EXCEPT !.step = "writing", !.here = run[d].here,
                                      !.state = noted, !.merged = merged]
  <2>1. merged \in File /\ takes \in Uses /\ noted \in State /\ shown \in Uses
    BY MergedType, TakenTypes, RunTypes DEF TypeOK
  <2>2. stored \in Uses /\ both \in Uses
    <3>1. using[d] \in Uses
      BY DEF TypeOK
    <3>. QED BY <2>1, <3>1 DEF Uses
  <2>3. goes \in RunOf
    BY <2>1, AwayTypes, RunSteps, RunTypes DEF TypeOK
  <2>4. \/ /\ saved' = [saved EXCEPT ![d] = noted] /\ run' = [run EXCEPT ![d] = NoRun]
           /\ using' = [using EXCEPT ![d] = both]
        \/ /\ using' = [using EXCEPT ![d] = stored] /\ run' = [run EXCEPT ![d] = goes]
           /\ UNCHANGED saved
    BY <1>5 DEF TakeUp, End
  <2>5. saved' \in [Devices -> State] /\ run' \in [Devices -> RunOf] /\ using' \in [Devices -> Uses]
    <3>. HIDE DEF merged, takes, noted, stored, shown, both, goes
    <3>. QED BY <2>1, <2>2, <2>3, <2>4, AwayTypes DEF TypeOK
  <2>6. /\ touched' \in [Devices -> SUBSET Keys] /\ forgot' \in [Devices -> SUBSET Keys]
        /\ now' \in Nat
    BY <1>5 DEF TakeUp, TypeOK
  <2>7. sole' \in [Keys -> Devices \cup {"none", Many}]
    BY <1>5 DEF TakeUp, TypeOK
  <2>. QED BY <1>5, <2>5, <2>6, <2>7 DEF TakeUp, TypeOK
<1>6. ASSUME NEW d \in Devices, Write(d) \/ AnswerLost(d) \/ Fail(d) PROVE TypeOK'
  <2>1. /\ run[d].merged \in File /\ run[d].state \in State /\ NoRun \in RunOf
        /\ Shown(d, run[d].state.base, run[d].here) \in Uses
    BY AwayTypes, RunTypes, TakenTypes DEF TypeOK
  <2>2. /\ saved' = [saved EXCEPT ![d] = run[d].state] /\ run' = [run EXCEPT ![d] = NoRun]
        /\ UNCHANGED file \/ file' = [file EXCEPT ![d] = run[d].merged]
        /\ \/ UNCHANGED using
           \/ using' = [using EXCEPT ![d] = Shown(d, run[d].state.base, run[d].here)]
        /\ UNCHANGED <<now, sole, touched, changes>> /\ faults' \in {faults, faults + 1}
        /\ UNCHANGED forgot \/ forgot' = [forgot EXCEPT ![d] = @ \cup Unsaid(d)]
    BY <1>6 DEF Write, AnswerLost, Fail, End, MayFault
  <2>3. forgot' \in [Devices -> SUBSET Keys]
    BY <2>2 DEF TypeOK, Unsaid
  <2>4. saved' \in [Devices -> State] /\ run' \in [Devices -> RunOf] /\ using' \in [Devices -> Uses]
    BY <2>1, <2>2 DEF TypeOK
  <2>5. file' \in [Files -> File]
    BY <2>1, <2>2 DEF TypeOK
  <2>6. faults' \in Nat
    BY <2>2 DEF TypeOK
  <2>. QED BY <2>2, <2>3, <2>4, <2>5, <2>6 DEF TypeOK
<1>7. ASSUME NEW d \in Devices, Crash(d) PROVE TypeOK'
  <2>1. run[d].merged \in File /\ NoRun \in RunOf
    BY AwayTypes, RunTypes DEF TypeOK
  <2>2. /\ run' = [run EXCEPT ![d] = NoRun]
        /\ UNCHANGED file \/ file' = [file EXCEPT ![d] = run[d].merged]
        /\ sole' = [k \in Keys |-> Many]
        /\ UNCHANGED <<using, saved, now, forgot, changes>> /\ faults' = faults + 1
    BY <1>7 DEF Crash, MayFault
  <2>3. touched' \in [Devices -> SUBSET Keys]
    BY <1>7 DEF Crash, TypeOK
  <2>4. file' \in [Files -> File] /\ run' \in [Devices -> RunOf]
    BY <2>1, <2>2 DEF TypeOK
  <2>5. sole' \in [Keys -> Devices \cup {"none", Many}] /\ faults' \in Nat
    BY <2>2 DEF TypeOK
  <2>. QED BY <2>2, <2>3, <2>4, <2>5 DEF TypeOK
<1>8. ASSUME NEW d \in Devices, Rejoin(d) PROVE TypeOK'
  <2>1. "left" \in Files /\ d \in Files
    BY DEF Files
  <2>2. Merge(file["left"], file[d]) \in File /\ NoFile \in File /\ NewState \in State
    BY <2>1, AwayTypes, MergeType DEF TypeOK
  <2>3. /\ saved' = [saved EXCEPT ![d] = NewState]
        /\ file' = [file EXCEPT !["left"] = Merge(file["left"], file[d]), ![d] = NoFile]
        /\ touched' = [touched EXCEPT ![d] = {}]
        /\ sole' = [k \in Keys |-> Many]
        /\ UNCHANGED <<using, run, now, forgot, changes>> /\ faults' = faults + 1
    BY <1>8, <2>1 DEF Rejoin, MayFault, TypeOK
  <2>4. file' \in [Files -> File] /\ saved' \in [Devices -> State]
    BY <2>2, <2>3 DEF TypeOK
  <2>5. touched' \in [Devices -> SUBSET Keys]
    BY <2>3 DEF TypeOK
  <2>6. sole' \in [Keys -> Devices \cup {"none", Many}] /\ faults' \in Nat
    BY <2>3 DEF TypeOK
  <2>. QED BY <2>3, <2>4, <2>5, <2>6 DEF TypeOK
<1>9. CASE UNCHANGED vars
  BY <1>9 DEF vars, TypeOK
<1>. QED BY <1>1, <1>2, <1>3, <1>4, <1>5, <1>6, <1>7, <1>8, <1>9 DEF Next, Sync, Learner, Fault

LEMMA HeldIsFileNext == Inv /\ [Next]_vars => HeldIsFile'
<1>. SUFFICES ASSUME Inv, [Next]_vars, NEW e \in Devices
              PROVE  /\ run'[e].step = "reading" => run'[e].held = file'[e]
                     /\ run'[e].step = "writing" => Holds(run'[e].merged, file'[e])
  BY DEF HeldIsFile, Holds
<1>1. /\ run[e].step = "reading" => run[e].held = file[e]
      /\ run[e].step = "writing" => Holds(run[e].merged, file[e])
  BY DEF Inv, HeldIsFile
<1>2. run \in [Devices -> RunOf] /\ DOMAIN file = Files /\ Devices \subseteq Files
  BY DEF Inv, TypeOK, Files
<1>3. NoRun.step = "idle"
  BY DEF NoRun
<1>4. ASSUME NEW d \in Devices, NEW k \in Keys, NEW v \in Values, Change(d, k, v)
      PROVE  UNCHANGED <<run, file>>
  BY <1>4 DEF Change
<1>5. ASSUME NEW d \in Devices, Start(d)
      PROVE  file' = file /\ (e # d => run'[e] = run[e]) /\ run'[d].step = "started"
  BY <1>2, <1>5 DEF Start, NoRun
<1>6. ASSUME NEW d \in Devices, List(d)
      PROVE  /\ file' = file /\ (e # d => run'[e] = run[e])
             /\ run'[d].step = "reading" /\ run'[d].held = file[d]
  <2>1. run[d] \in RunOf
    BY <1>2
  <2>. QED BY <1>2, <1>6, <2>1 DEF List, RunOf
<1>7. ASSUME NEW d \in Devices, NEW f \in Files, Read(d, f)
      PROVE  /\ file' = file
             /\ run'[e].step = run[e].step /\ run'[e].held = run[e].held
             /\ run'[e].merged = run[e].merged
  <2>1. run[d] \in RunOf
    BY <1>2
  <2>. QED BY <1>2, <1>7, <2>1 DEF Read, RunOf
<1>8. ASSUME NEW d \in Devices, TakeUp(d)
      PROVE  /\ file' = file /\ (e # d => run'[e] = run[e])
             /\ run'[d].step = "idle" \/ (run'[d].step = "writing" /\ Holds(run'[d].merged, file[d]))
  <2>1. Holds(Merged(d), file[d])
    BY <1>8, MergedType DEF TakeUp, Inv, HeldIsFile
  <2>2. PICK t : \/ run' = [run EXCEPT ![d] = NoRun]
                 \/ run' = [run EXCEPT ![d] = [NoRun EXCEPT !.step = "writing",
                              !.here = run[d].here, !.state = t, !.merged = Merged(d)]]
    BY <1>8 DEF TakeUp, End
  <2>3. file' = file
    BY <1>8 DEF TakeUp
  <2>. QED BY <1>2, <1>3, <2>1, <2>2, <2>3 DEF NoRun
<1>9. ASSUME NEW d \in Devices, Write(d) \/ AnswerLost(d) \/ Fail(d) \/ Crash(d)
      PROVE  (e # d => run'[e] = run[e] /\ file'[e] = file[e]) /\ run'[d].step = "idle"
  BY <1>2, <1>3, <1>9 DEF Write, AnswerLost, Fail, Crash, End
<1>10. ASSUME NEW d \in Devices, Rejoin(d)
       PROVE  run' = run /\ (e # d => file'[e] = file[e]) /\ run[d].step = "idle"
  BY <1>2, <1>10, DevicesAssumption DEF Rejoin, Running
<1>11. CASE UNCHANGED vars
  BY <1>1, <1>11 DEF vars
<1>. QED BY <1>1, <1>4, <1>5, <1>6, <1>7, <1>8, <1>9, <1>10, <1>11 DEF Next, Sync, Learner, Fault

LEMMA InvHolds == Spec => []Inv
<1>1. Init => Inv
  BY TypeInit, AwayTypes DEF Inv, HeldIsFile, Init, NoRun
<1>2. Inv /\ [Next]_vars => Inv'
  BY TypeNext, HeldIsFileNext DEF Inv
<1>. QED BY <1>1, <1>2, PTL DEF Spec

-----------------------------------------------------------------------------
(***************************************************************************)
(* The theorems.                                                           *)
(***************************************************************************)

\* Whatever is changed, synced and cut short, the state is of its types: no
\* key is noted as stamped before any was.
THEOREM TypeCorrect == Spec => []TypeOK
<1>1. Inv => TypeOK
  BY DEF Inv
<1>. QED BY InvHolds, <1>1, PTL

\* The newest the drive's files hold of a key never goes back to an earlier
\* change of it, whatever syncs read while others wrote, failed, or were cut
\* short (sync_settings).
THEOREM NewestStays == Spec => NewestKept
<1>1. ASSUME Inv, [Next]_vars, NEW f \in Files, NEW k \in Keys
      PROVE  \E g \in Files : ~Beats(file[f][k], file'[g][k])
  <2>1. \A g \in Files : file[g] \in File /\ file[g][k] \in Stamped
    BY <1>1 DEF Inv, TypeOK, File
  <2>2. CASE file'[f] = file[f]
    BY <2>1, <2>2, BeatsTotal
  <2>3. ASSUME NEW d \in Devices, Write(d) \/ AnswerLost(d) \/ Crash(d)
        PROVE  \E g \in Files : ~Beats(file[f][k], file'[g][k])
    <3>1. CASE run[d].step = "writing" /\ file' = [file EXCEPT ![d] = run[d].merged]
      <4>1. Holds(run[d].merged, file[d]) /\ d \in Files
        BY <1>1, <3>1 DEF Inv, HeldIsFile, Files
      <4>2. DOMAIN file = Files
        BY <1>1 DEF Inv, TypeOK
      <4>3. CASE f = d
        BY <3>1, <4>1, <4>2, <4>3 DEF Holds
      <4>4. CASE f # d
        BY <3>1, <4>2, <4>4, <2>2
      <4>. QED BY <4>3, <4>4
    <3>2. CASE file' = file
      BY <3>2, <2>2
    <3>. QED BY <2>3, <3>1, <3>2 DEF Write, AnswerLost, Crash
  <2>4. ASSUME NEW d \in Devices, Rejoin(d)
        PROVE  \E g \in Files : ~Beats(file[f][k], file'[g][k])
    <3>1. /\ "left" \in Files /\ d \in Files /\ d # "left" /\ DOMAIN file = Files
      BY <1>1, DevicesAssumption DEF Inv, TypeOK, Files
    <3>2. file' = [file EXCEPT !["left"] = Merge(file["left"], file[d]), ![d] = NoFile]
      BY <2>4, <3>1 DEF Rejoin
    <3>3. file'["left"] = Merge(file["left"], file[d])
      BY <3>1, <3>2
    <3>4. /\ ~Beats(file["left"][k], file'["left"][k])
          /\ ~Beats(file[d][k], file'["left"][k])
      BY <2>1, <3>1, <3>3, MergeType DEF Holds
    <3>5. CASE f \notin {d, "left"}
      BY <3>1, <3>2, <3>5, <2>2
    <3>. QED BY <3>1, <3>4, <3>5
  <2>5. CASE file' = file
    BY <2>5, <2>2
  <2>. QED BY <1>1, <2>3, <2>4, <2>5
       DEF Next, Sync, Learner, Fault, Change, Start, List, Read, TakeUp, Fail, vars
<1>2. Inv /\ [Next]_vars => [\A f \in Files, k \in Keys :
                               \E g \in Files : ~Beats(file[f][k], file'[g][k])]_vars
  BY <1>1
<1>. QED BY InvHolds, <1>2, PTL DEF NewestKept, Spec

-----------------------------------------------------------------------------
(***************************************************************************)
(* A count changed on one device alone.                                    *)
(***************************************************************************)

\* What a device's file holds of a key, or will once its sync has written it.
Own(d, k) == IF run[d].step = "writing" THEN run[d].merged[k] ELSE file[d][k]

\* What a device would send of a key not changed since it was synced.
Mark(d, k) == [v |-> using[d][k], at |-> Kept(d).stamps[k]]

\* What a key is stamped as, anywhere: in the drive, in a sync, on a device.
Known(k) ==
  {file[f][k] : f \in Files}
    \cup UNION {{run[e].others[k], run[e].held[k], run[e].merged[k], Mark(e, k)} : e \in Devices}

\* A stamp is of the past, as the clocks behind no other have it.
Past(k) == \A d \in Devices : InTime(d) => \A s \in Known(k) : s.at < Clock(d)

\* What the one device that may have changed a key stamps by its sync under
\* way is newer than all there is of it, if its clock is behind no other's.
Ahead(k) ==
  \A d \in Devices :
    /\ InTime(d) /\ sole[k] \in {"none", d}
    /\ run[d].step \in {"started", "reading"} /\ run[d].state.joined
    => \A s \in Known(k) : s.at < run[d].at

\* No other device uses what it has not synced.
Still(k) == \A d \in Devices : Kept(d).joined /\ sole[k] # d => using[d][k] = Kept(d).base[k]

\* What it would send of it is newer than anything else there is; of one taken
\* away it sends nothing, and its file holds that.
Foremost(d, k) ==
  /\ Mark(d, k).at > 0
  /\ \A s \in Known(k) : s.at < Mark(d, k).at \/ s = Mark(d, k)
  /\ using[d][k] = Away => Own(d, k) = Mark(d, k)

\* The device that changed it has it yet to stamp, or has it foremost: one
\* whose clock is behind no other's, and that has not noted as taken away
\* what its file does not say is.
Stands(k) ==
  \A d \in Devices : sole[k] = d =>
    /\ saved[d].joined
    /\ using[d][k] # Kept(d).base[k] => k \in touched[d]
    /\ InTime(d) /\ k \notin forgot[d] /\ using[d][k] = Kept(d).base[k] => Foremost(d, k)

Counted == \A k \in StoreKeys : sole[k] # Many => Past(k) /\ Ahead(k) /\ Still(k) /\ Stands(k)

\* A sync has the state as it was kept until it notes its own, and is of now
\* or of before.
RunsRight ==
  /\ now > 0
  /\ \A d \in Devices :
       /\ run[d].step \in {"started", "reading"} => run[d].state = saved[d] /\ run[d].at \in 1..Clock(d)
       /\ run[d].step = "writing" => run[d].state.joined

LEMMA KnownOf ==
  ASSUME NEW k, NEW s
  PROVE  s \in Known(k) <=> \/ \E f \in Files : s = file[f][k]
                            \/ \E e \in Devices : \/ s = run[e].others[k] \/ s = run[e].held[k]
                                                  \/ s = run[e].merged[k] \/ s = Mark(e, k)
BY DEF Known

LEMMA KnownStamped ==
  ASSUME TypeOK, NEW k \in Keys
  PROVE  /\ Known(k) \subseteq Stamped
         /\ \A s \in Known(k) : s.at \in Int
         /\ \A d \in Devices : Mark(d, k).at \in Nat /\ Own(d, k) \in Stamped
<1>1. \A f \in Files : file[f][k] \in Stamped
  BY DEF TypeOK, File
<1>2. ASSUME NEW e \in Devices
      PROVE  /\ run[e].others[k] \in Stamped /\ run[e].held[k] \in Stamped
             /\ run[e].merged[k] \in Stamped
             /\ Mark(e, k) \in Stamped /\ Mark(e, k).at \in Nat
             /\ Own(e, k) \in Stamped
  <2>1. run[e] \in RunOf /\ saved[e] \in State /\ using[e] \in Uses
    BY DEF TypeOK
  <2>2. run[e].others \in File /\ run[e].held \in File /\ run[e].merged \in File /\ run[e].state \in State
    BY <2>1, RunTypes
  <2>3. run[e].others[k] \in Stamped /\ run[e].held[k] \in Stamped /\ run[e].merged[k] \in Stamped
    BY <2>2 DEF File
  <2>4. Kept(e) \in State
    BY <2>1, <2>2 DEF Kept
  <2>5. Kept(e).stamps[k] \in Nat /\ using[e][k] \in Values
    BY <2>1, <2>4 DEF State, Uses
  <2>6. Mark(e, k) \in Stamped /\ Mark(e, k).at \in Nat
    BY <2>5 DEF Mark, Stamped
  <2>. QED BY <1>1, <2>3, <2>6 DEF Own, Files
<1>3. Known(k) \subseteq Stamped
  BY <1>1, <1>2, KnownOf
<1>. QED BY <1>2, <1>3, StampedNumbers

LEMMA NewestOfThree ==
  ASSUME NEW a \in Stamped, NEW b \in Stamped, NEW c \in Stamped
  PROVE  /\ Newer(Newer(a, b), c) \in {a, b, c}
         /\ \A s \in {a, b, c} :
              (\A t \in {a, b, c} : t.at < s.at \/ t = s) => Newer(Newer(a, b), c) = s
<1>1. a.at \in Int /\ b.at \in Int /\ c.at \in Int
  BY StampedNumbers
<1>2. Newer(Newer(a, b), c) \in {a, b, c}
  BY DEF Newer
<1>3. ASSUME NEW s \in {a, b, c}, \A t \in {a, b, c} : t.at < s.at \/ t = s
      PROVE  Newer(Newer(a, b), c) = s
  <2>1. a.at < s.at \/ a = s
    BY <1>3
  <2>2. b.at < s.at \/ b = s
    BY <1>3
  <2>3. c.at < s.at \/ c = s
    BY <1>3
  <2>4. s \in Stamped
    OBVIOUS
  <2>5. ~Beats(s, s)
    BY <2>4, BeatsTotal
  <2>6. \A t \in {a, b, c} : t.at < s.at => Beats(s, t) /\ ~Beats(t, s)
    BY <1>1 DEF Beats
  <2>. QED BY <2>1, <2>2, <2>3, <2>5, <2>6 DEF Newer
<1>. QED BY <1>2, <1>3

LEMMA KnownOfNext ==
  ASSUME NEW k, NEW s
  PROVE  s \in Known(k)' <=> \/ \E f \in Files : s = file'[f][k]
                             \/ \E e \in Devices : \/ s = run'[e].others[k] \/ s = run'[e].held[k]
                                                   \/ s = run'[e].merged[k] \/ s = Mark(e, k)'
BY DEF Known

LEMMA RunsRightNext == Inv /\ RunsRight /\ [Next]_vars => RunsRight'
<1>. SUFFICES ASSUME Inv, RunsRight, [Next]_vars
              PROVE  /\ now' > 0
                     /\ \A e \in Devices :
                          /\ run'[e].step \in {"started", "reading"} =>
                               run'[e].state = saved'[e] /\ run'[e].at \in 1..Clock(e)'
                          /\ run'[e].step = "writing" => run'[e].state.joined
  BY DEF RunsRight
<1>1. /\ run \in [Devices -> RunOf] /\ DOMAIN saved = Devices /\ now \in Nat
      /\ \A e \in Devices : /\ Clock(e) = now + Skew[e] /\ Clock(e)' = now' + Skew[e]
                             /\ Skew[e] \in Nat
  BY ClockType DEF Inv, TypeOK
<1>2. NoRun.step = "idle" /\ (\A r \in RunOf : DOMAIN r = {"step", "at", "here", "unread", "others",
                                                        "held", "state", "merged"})
  BY DEF NoRun, RunOf
<1>. DEFINE Good(e) ==
       /\ run'[e].step \in {"started", "reading"} =>
            run'[e].state = saved'[e] /\ run'[e].at \in 1..Clock(e)'
       /\ run'[e].step = "writing" => run'[e].state.joined
<1>3. ASSUME NEW e \in Devices, run'[e] = run[e], saved'[e] = saved[e], now' \in {now, now + 1}
      PROVE  Good(e)
  BY <1>1, <1>3 DEF RunsRight
<1>4. now > 0
  BY DEF RunsRight
<1>5. ASSUME NEW d \in Devices, NEW k \in Keys, NEW v \in Values, Change(d, k, v)
      PROVE  now' > 0 /\ \A e \in Devices : Good(e)
  BY <1>3, <1>4, <1>5 DEF Change
<1>6. ASSUME NEW d \in Devices, Start(d)
      PROVE  now' > 0 /\ \A e \in Devices : Good(e)
  <2>1. now' = now /\ saved' = saved /\ \A e \in Devices \ {d} : run'[e] = run[e]
    BY <1>1, <1>6 DEF Start
  <2>2. run'[d].step = "started" /\ run'[d].at = Clock(d) /\ run'[d].state = saved[d]
    BY <1>1, <1>6 DEF Start, NoRun
  <2>3. Good(d)
    BY <1>1, <1>4, <2>1, <2>2
  <2>. HIDE DEF Good
  <2>. QED BY <1>3, <1>4, <2>1, <2>3
<1>7. ASSUME NEW d \in Devices, List(d) \/ \E f \in Files : Read(d, f)
      PROVE  now' > 0 /\ \A e \in Devices : Good(e)
  <2>1. now' = now /\ saved' = saved /\ \A e \in Devices \ {d} : run'[e] = run[e]
    BY <1>1, <1>7 DEF List, Read
  <2>2. run[d] \in RunOf
    BY <1>1
  <2>3. /\ run'[d].step = "reading" /\ run'[d].at = run[d].at /\ run'[d].state = run[d].state
        /\ run[d].step \in {"started", "reading"}
    <3>1. CASE List(d)
      BY <1>1, <2>2, <3>1 DEF List, RunOf
    <3>2. ASSUME NEW f \in Files, Read(d, f)
          PROVE  /\ run'[d].step = "reading" /\ run'[d].at = run[d].at /\ run'[d].state = run[d].state
                 /\ run[d].step \in {"started", "reading"}
      BY <1>1, <2>2, <3>2 DEF Read, RunOf
    <3>. QED BY <1>7, <3>1, <3>2
  <2>4. Good(d)
    BY <1>1, <2>1, <2>3 DEF RunsRight
  <2>. HIDE DEF Good
  <2>. QED BY <1>3, <1>4, <2>1, <2>4
<1>8. ASSUME NEW d \in Devices, TakeUp(d)
      PROVE  now' > 0 /\ \A e \in Devices : Good(e)
  <2>1. now' \in {now, now + 1}
    BY <1>8 DEF TakeUp
  <2>2. PICK t : /\ t.joined
                 /\ \/ /\ saved' = [saved EXCEPT ![d] = t]
                       /\ run' = [run EXCEPT ![d] = NoRun]
                    \/ /\ saved' = saved
                       /\ run' = [run EXCEPT ![d] = [NoRun EXCEPT !.step = "writing",
                                    !.here = run[d].here, !.state = t, !.merged = Merged(d)]]
    BY <1>8 DEF TakeUp, End, Noted
  <2>3. \A e \in Devices \ {d} : run'[e] = run[e] /\ saved'[e] = saved[e]
    BY <1>1, <2>2
  <2>4. Good(d)
    <3>1. \/ run'[d].step = "idle"
          \/ run'[d].step = "writing" /\ run'[d].state = t
      <4>. DEFINE goes == [NoRun EXCEPT !.step = "writing", !.here = run[d].here,
                                        !.state = t, !.merged = Merged(d)]
      <4>1. goes.step = "writing" /\ goes.state = t
        BY DEF NoRun
      <4>2. run'[d] = NoRun \/ run'[d] = goes
        <5>. HIDE DEF goes
        <5>. QED BY <1>1, <2>2 DEF goes
      <4>. QED BY <1>2, <4>1, <4>2
    <3>. QED BY <2>2, <3>1
  <2>. HIDE DEF Good
  <2>. QED BY <1>1, <1>3, <1>4, <2>1, <2>3, <2>4
<1>9. ASSUME NEW d \in Devices, Write(d) \/ AnswerLost(d) \/ Fail(d) \/ Crash(d)
      PROVE  now' > 0 /\ \A e \in Devices : Good(e)
  <2>1. /\ now' = now /\ run' = [run EXCEPT ![d] = NoRun]
        /\ saved' = saved \/ saved' = [saved EXCEPT ![d] = run[d].state]
    BY <1>9 DEF Write, AnswerLost, Fail, Crash, End
  <2>2. \A e \in Devices \ {d} : run'[e] = run[e] /\ saved'[e] = saved[e]
    BY <1>1, <2>1
  <2>3. Good(d)
    BY <1>1, <1>2, <2>1
  <2>. HIDE DEF Good
  <2>. QED BY <1>3, <1>4, <2>1, <2>2, <2>3
<1>10. ASSUME NEW d \in Devices, Rejoin(d)
       PROVE  now' > 0 /\ \A e \in Devices : Good(e)
  <2>1. now' = now /\ run' = run /\ run[d].step = "idle" /\ saved' = [saved EXCEPT ![d] = NewState]
    BY <1>10 DEF Rejoin, Running
  <2>2. \A e \in Devices \ {d} : saved'[e] = saved[e]
    BY <1>1, <2>1
  <2>3. Good(d)
    BY <2>1
  <2>. HIDE DEF Good
  <2>. QED BY <1>3, <1>4, <2>1, <2>2, <2>3
<1>11. CASE UNCHANGED vars
  BY <1>3, <1>4, <1>11 DEF vars
<1>. QED BY <1>5, <1>6, <1>7, <1>8, <1>9, <1>10, <1>11 DEF Next, Sync, Learner, Fault

\* A step that changes nothing used, synced or held of a key, nor stamps one.
LEMMA CountedStill ==
  ASSUME TypeOK, RunsRight, Counted, NEW k \in StoreKeys,
         sole'[k] = sole[k], now' = now, touched' = touched,
         \A e \in Devices : /\ using'[e][k] = using[e][k] /\ Kept(e)' = Kept(e)
                            /\ \/ Own(e, k)' = Own(e, k) \/ k \in forgot'[e]
                               \/ using[e][k] # Away \/ Own(e, k) # Mark(e, k)
                            /\ k \in forgot[e] => k \in forgot'[e]
                            /\ saved[e].joined => saved'[e].joined,
         Known(k)' \subseteq Known(k) \cup {Absent},
         \A e \in Devices : run'[e].step \in {"started", "reading"} =>
           \/ run'[e].at = Clock(e)
           \/ /\ run[e].step \in {"started", "reading"}
              /\ run'[e].at = run[e].at /\ run'[e].state = run[e].state
  PROVE  sole'[k] # Many => Past(k)' /\ Ahead(k)' /\ Still(k)' /\ Stands(k)'
<1>. SUFFICES ASSUME sole[k] # Many PROVE Past(k)' /\ Ahead(k)' /\ Still(k)' /\ Stands(k)'
  OBVIOUS
<1>1. Past(k) /\ Ahead(k) /\ Still(k) /\ Stands(k)
  BY DEF Counted
<1>2. k \in Keys /\ Absent.at = -1 /\ now \in Nat /\ now > 0
  BY DEF Keys, Absent, TypeOK, RunsRight
<1>3. \A s \in Known(k) : s.at \in Int
  BY <1>2, KnownStamped
<1>0. \A e \in Devices : Clock(e) \in Nat /\ Clock(e) > 0 /\ Clock(e)' = Clock(e)
  BY <1>2, ClockType
<1>4. Past(k)'
  <2>. SUFFICES ASSUME NEW e \in Devices, InTime(e), NEW s \in Known(k)' PROVE s.at < Clock(e)'
    BY DEF Past, InTime
  <2>. QED BY <1>0, <1>1, <1>2 DEF Past
<1>5. Ahead(k)'
  <2>. SUFFICES ASSUME NEW e \in Devices, InTime(e), sole'[k] \in {"none", e},
                       run'[e].step \in {"started", "reading"}, run'[e].state.joined,
                       NEW s \in Known(k)'
                PROVE  s.at < run'[e].at
    BY DEF Ahead, InTime
  <2>1. s \in Known(k) \/ s.at = -1
    BY <1>2
  <2>2. CASE run'[e].at = Clock(e)
    BY <1>0, <1>1, <1>2, <2>1, <2>2 DEF Past
  <2>3. CASE run[e].step \in {"started", "reading"} /\ run'[e].at = run[e].at /\ run'[e].state = run[e].state
    BY <1>1, <2>1, <2>3 DEF Ahead, RunsRight
  <2>. QED BY <2>2, <2>3
<1>6. Still(k)'
  BY <1>1 DEF Still
<1>7. Stands(k)'
  <2>1. \A e \in Devices : Mark(e, k)' = Mark(e, k)
    BY DEF Mark
  <2>2. ASSUME NEW e \in Devices, Foremost(e, k), k \notin forgot'[e] PROVE Foremost(e, k)'
    <3>1. Mark(e, k).at > 0
      BY <2>2 DEF Foremost
    <3>2. Mark(e, k).at \in Nat
      BY <1>2, KnownStamped
    <3>3. ASSUME NEW s \in Known(k)' PROVE s.at < Mark(e, k).at \/ s = Mark(e, k)
      <4>1. CASE s \in Known(k)
        BY <2>2, <4>1 DEF Foremost
      <4>2. CASE s = Absent
        BY <1>2, <3>1, <3>2, <4>2
      <4>. QED BY <4>1, <4>2
    <3>4. Mark(e, k)'.at > 0 /\ (using'[e][k] = Away => Own(e, k)' = Mark(e, k)')
      BY <2>1, <2>2, <3>1 DEF Foremost
    <3>. QED BY <2>1, <3>3, <3>4 DEF Foremost
  <2>. QED BY <1>1, <2>2 DEF Stands, InTime
<1>. QED BY <1>4, <1>5, <1>6, <1>7

\* The same, of a step of one device's sync.
LEMMA CountedOne ==
  ASSUME TypeOK, RunsRight, Counted, NEW k \in StoreKeys, NEW d \in Devices,
         sole' = sole, now' = now, touched' = touched,
         \A e \in Devices : using'[e][k] = using[e][k],
         \A e \in Devices \ {d} : run'[e] = run[e] /\ saved'[e] = saved[e] /\ file'[e] = file[e],
         \A f \in Files : file'[f][k] \in Known(k) \cup {Absent},
         run'[d].others[k] \in Known(k) \cup {Absent},
         run'[d].held[k] \in Known(k) \cup {Absent},
         run'[d].merged[k] \in Known(k) \cup {Absent},
         Kept(d)' = Kept(d), saved[d].joined => saved'[d].joined,
         \/ Own(d, k)' = Own(d, k) \/ k \in forgot'[d]
         \/ using[d][k] # Away \/ Own(d, k) # Mark(d, k),
         \A e \in Devices : k \in forgot[e] => k \in forgot'[e],
         run'[d].step \in {"started", "reading"} =>
           \/ run'[d].at = Clock(d)
           \/ /\ run[d].step \in {"started", "reading"}
              /\ run'[d].at = run[d].at /\ run'[d].state = run[d].state
  PROVE  sole'[k] # Many => Past(k)' /\ Ahead(k)' /\ Still(k)' /\ Stands(k)'
<1>1. ASSUME NEW e \in Devices \ {d}
      PROVE  Kept(e)' = Kept(e) /\ Own(e, k)' = Own(e, k)
  BY DEF Kept, Own
<1>2. \A e \in Devices : /\ using'[e][k] = using[e][k] /\ Kept(e)' = Kept(e)
                         /\ \/ Own(e, k)' = Own(e, k) \/ k \in forgot'[e]
                            \/ using[e][k] # Away \/ Own(e, k) # Mark(e, k)
                         /\ k \in forgot[e] => k \in forgot'[e]
                         /\ saved[e].joined => saved'[e].joined
  BY <1>1
<1>3. \A e \in Devices : Mark(e, k)' = Mark(e, k)
  BY <1>2 DEF Mark
<1>4. ASSUME NEW e \in Devices
      PROVE  /\ run'[e].others[k] \in Known(k) \cup {Absent}
             /\ run'[e].held[k] \in Known(k) \cup {Absent}
             /\ run'[e].merged[k] \in Known(k) \cup {Absent}
             /\ Mark(e, k)' \in Known(k)
  BY <1>3, KnownOf
<1>5. Known(k)' \subseteq Known(k) \cup {Absent}
  BY <1>4, KnownOfNext
<1>6. \A e \in Devices : run'[e].step \in {"started", "reading"} =>
        \/ run'[e].at = Clock(e)
        \/ /\ run[e].step \in {"started", "reading"}
           /\ run'[e].at = run[e].at /\ run'[e].state = run[e].state
  OBVIOUS
<1>. QED BY <1>2, <1>5, <1>6, CountedStill

LEMMA CountedSteps ==
  ASSUME Inv, RunsRight, Counted, NEW k \in StoreKeys, NEW d \in Devices,
         \/ Start(d) \/ List(d) \/ (\E f \in Files : Read(d, f))
         \/ Write(d) \/ AnswerLost(d) \/ Fail(d)
  PROVE  sole'[k] # Many => Past(k)' /\ Ahead(k)' /\ Still(k)' /\ Stands(k)'
<1>1. /\ run \in [Devices -> RunOf] /\ DOMAIN saved = Devices /\ DOMAIN file = Files
      /\ DOMAIN using = Devices /\ d \in Files /\ k \in Keys /\ TypeOK
  BY DEF Inv, TypeOK, Files, Keys
<1>2. /\ NoRun.step = "idle" /\ NoRun.others[k] = Absent /\ NoRun.held[k] = Absent
      /\ NoRun.merged[k] = Absent
  BY <1>1 DEF NoRun, NoFile
<1>3. /\ \A f \in Files : file[f][k] \in Known(k)
      /\ run[d].others[k] \in Known(k) /\ run[d].held[k] \in Known(k) /\ run[d].merged[k] \in Known(k)
  BY KnownOf
<1>4. run[d].step \in {"started", "reading"} => run[d].state = saved[d]
  BY DEF RunsRight
<1>5. run[d].step = "writing" => run[d].state.joined
  BY DEF RunsRight
<1>6. CASE Start(d)
  <2>. DEFINE goes == [NoRun EXCEPT !.step = "started", !.at = Clock(d), !.here = using[d], !.state = saved[d]]
  <2>1. run' = [run EXCEPT ![d] = goes]
    BY <1>6 DEF Start
  <2>2. /\ goes.step = "started" /\ goes.at = Clock(d) /\ goes.others = NoRun.others
        /\ goes.held = NoRun.held /\ goes.merged = NoRun.merged
    BY DEF NoRun
  <2>. HIDE DEF goes
  <2>3. run'[d] = goes /\ \A e \in Devices \ {d} : run'[e] = run[e]
    BY <1>1, <2>1
  <2>4. /\ sole' = sole /\ now' = now /\ touched' = touched /\ using' = using /\ saved' = saved
        /\ file' = file /\ forgot' = forgot /\ run[d].step = "idle"
    BY <1>6 DEF Start, Running
  <2>5. Kept(d)' = Kept(d) /\ Own(d, k)' = Own(d, k)
    BY <2>2, <2>3, <2>4 DEF Kept, Own
  <2>. QED BY <1>1, <1>2, <1>3, <2>2, <2>3, <2>4, <2>5, CountedOne
<1>7. CASE List(d)
  <2>. DEFINE goes == [run[d] EXCEPT !.step = "reading", !.held = file[d],
                                     !.unread = {f \in Files \ {d} : file[f] # NoFile}]
  <2>1. run' = [run EXCEPT ![d] = goes]
    BY <1>1, <1>7 DEF List
  <2>2. /\ goes.step = "reading" /\ goes.at = run[d].at /\ goes.others = run[d].others
        /\ goes.held = file[d] /\ goes.merged = run[d].merged /\ goes.state = run[d].state
    BY <1>1 DEF RunOf
  <2>. HIDE DEF goes
  <2>3. run'[d] = goes /\ \A e \in Devices \ {d} : run'[e] = run[e]
    BY <1>1, <2>1
  <2>4. /\ sole' = sole /\ now' = now /\ touched' = touched /\ using' = using /\ saved' = saved
        /\ file' = file /\ forgot' = forgot /\ run[d].step = "started"
    BY <1>7 DEF List
  <2>5. Kept(d)' = Kept(d) /\ Own(d, k)' = Own(d, k)
    BY <2>2, <2>3, <2>4 DEF Kept, Own
  <2>. QED BY <1>1, <1>3, <2>2, <2>3, <2>4, <2>5, CountedOne
<1>8. ASSUME NEW f \in Files, Read(d, f)
      PROVE  sole'[k] # Many => Past(k)' /\ Ahead(k)' /\ Still(k)' /\ Stands(k)'
  <2>. DEFINE goes == [run[d] EXCEPT !.unread = run[d].unread \ {f},
                                     !.others = Merge(run[d].others, file[f])]
  <2>1. run' = [run EXCEPT ![d] = goes]
    BY <1>1, <1>8 DEF Read
  <2>2. /\ goes.step = run[d].step /\ goes.at = run[d].at
        /\ goes.others = Merge(run[d].others, file[f])
        /\ goes.held = run[d].held /\ goes.merged = run[d].merged /\ goes.state = run[d].state
    BY <1>1 DEF RunOf
  <2>. HIDE DEF goes
  <2>3. run'[d] = goes /\ \A e \in Devices \ {d} : run'[e] = run[e]
    BY <1>1, <2>1
  <2>4. /\ sole' = sole /\ now' = now /\ touched' = touched /\ using' = using /\ saved' = saved
        /\ file' = file /\ forgot' = forgot /\ run[d].step = "reading"
    BY <1>8 DEF Read
  <2>5. Kept(d)' = Kept(d) /\ Own(d, k)' = Own(d, k)
    BY <2>2, <2>3, <2>4 DEF Kept, Own
  <2>6. goes.others[k] \in {run[d].others[k], file[f][k]}
    BY <1>1, <2>2 DEF Merge, Newer
  <2>7. goes.others[k] \in Known(k)
    BY <1>3, <2>6
  <2>. QED BY <1>1, <1>3, <2>2, <2>3, <2>4, <2>5, <2>7, CountedOne
<1>9. CASE Write(d) \/ AnswerLost(d) \/ Fail(d)
  <2>1. /\ sole' = sole /\ now' = now /\ touched' = touched
        /\ saved' = [saved EXCEPT ![d] = run[d].state] /\ run' = [run EXCEPT ![d] = NoRun]
    BY <1>9 DEF Write, AnswerLost, Fail, End
  <2>2. /\ run'[d] = NoRun /\ saved'[d] = run[d].state
        /\ \A e \in Devices \ {d} : run'[e] = run[e] /\ saved'[e] = saved[e]
    BY <1>1, <2>1
  <2>3. \/ run[d].step = "writing" /\ file' = [file EXCEPT ![d] = run[d].merged] /\ forgot' = forgot
        \/ run[d].step \in {"started", "reading"} /\ file' = file /\ forgot' = forgot
        \/ /\ run[d].step = "writing" /\ file' = file
           /\ forgot' = [forgot EXCEPT ![d] = forgot[d] \cup Unsaid(d)]
    BY <1>9 DEF Write, AnswerLost, Fail, TypeOK, Inv
  <2>4. \A e \in Devices : using'[e][k] = using[e][k]
    <3>1. CASE Write(d)
      <4>1. using' = [using EXCEPT ![d] = Shown(d, run[d].state.base, run[d].here)]
        BY <3>1 DEF Write
      <4>2. Shown(d, run[d].state.base, run[d].here)[k] = using[d][k]
        BY <1>1, KeysAssumption DEF Shown
      <4>. QED BY <1>1, <4>1, <4>2
    <3>2. CASE AnswerLost(d) \/ Fail(d)
      BY <3>2 DEF AnswerLost, Fail
    <3>. QED BY <1>9, <3>1, <3>2
  <2>5. Kept(d)' = Kept(d)
    BY <1>2, <1>4, <2>2, <2>3 DEF Kept
  <2>6. /\ \/ Own(d, k)' = Own(d, k) \/ k \in forgot'[d]
           \/ using[d][k] # Away \/ Own(d, k) # Mark(d, k)
        /\ \A e \in Devices : k \in forgot[e] => k \in forgot'[e]
    <3>1. CASE /\ forgot' = forgot
               /\ \/ run[d].step = "writing" /\ file' = [file EXCEPT ![d] = run[d].merged]
                  \/ run[d].step \in {"started", "reading"} /\ file' = file
      BY <1>1, <1>2, <2>2, <2>3, <3>1 DEF Own
    <3>2. CASE /\ run[d].step = "writing" /\ file' = file
               /\ forgot' = [forgot EXCEPT ![d] = forgot[d] \cup Unsaid(d)]
      <4>1. Own(d, k) = run[d].merged[k] /\ Own(d, k)' = file[d][k]
        BY <1>2, <2>2, <3>2 DEF Own
      <4>2. Own(d, k) = Mark(d, k) /\ using[d][k] = Away => run[d].merged[k].v = Away
        BY <4>1 DEF Mark
      <4>3. forgot'[d] = forgot[d] \cup Unsaid(d) /\ \A e \in Devices \ {d} : forgot'[e] = forgot[e]
        BY <1>1, <3>2 DEF TypeOK
      <4>. QED BY <1>1, <4>1, <4>2, <4>3 DEF Unsaid
    <3>. QED BY <2>3, <3>1, <3>2
  <2>7. \A f \in Files : file'[f][k] \in Known(k)
    BY <1>1, <1>3, <2>3
  <2>8. \A e \in Devices \ {d} : file'[e] = file[e]
    BY <1>1, <2>3 DEF Files
  <2>9. saved[d].joined => saved'[d].joined
    BY <1>4, <1>5, <2>2, <2>3
  <2>. QED BY <1>1, <1>2, <2>1, <2>2, <2>4, <2>5, <2>6, <2>7, <2>8, <2>9, CountedOne
<1>. QED BY <1>6, <1>7, <1>8, <1>9

LEMMA CountedChange ==
  ASSUME Inv, RunsRight, Counted, NEW k \in StoreKeys,
         NEW d \in Devices, NEW c \in Keys, NEW v \in Values, Change(d, c, v)
  PROVE  sole'[k] # Many => Past(k)' /\ Ahead(k)' /\ Still(k)' /\ Stands(k)'
<1>. SUFFICES ASSUME sole'[k] # Many PROVE Past(k)' /\ Ahead(k)' /\ Still(k)' /\ Stands(k)'
  OBVIOUS
<1>1. /\ TypeOK /\ k \in Keys /\ DOMAIN using = Devices /\ DOMAIN sole = Keys /\ DOMAIN touched = Devices
      /\ using[d] \in Uses /\ DOMAIN using[d] = Keys
  BY DEF Inv, TypeOK, Keys, Uses
<1>2. /\ UNCHANGED <<file, saved, run, now, forgot>>
      /\ \A e \in Devices : Kept(e)' = Kept(e) /\ Own(e, k)' = Own(e, k) /\ Clock(e)' = Clock(e)
  <2>1. UNCHANGED <<file, saved, run, now, forgot>>
    BY DEF Change
  <2>. QED BY <2>1 DEF Kept, Own, Clock
<1>3. CASE c # k
  <2>1. /\ \A e \in Devices : using'[e][k] = using[e][k]
        /\ sole'[k] = sole[k]
        /\ \A e \in Devices : k \in touched[e] <=> k \in touched'[e]
    BY <1>1, <1>3 DEF Change
  <2>2. \A e \in Devices : Mark(e, k)' = Mark(e, k)
    BY <1>2, <2>1 DEF Mark
  <2>3. Known(k)' = Known(k)
    <3>1. ASSUME NEW s PROVE s \in Known(k)' <=> s \in Known(k)
      BY <1>2, <2>2, KnownOf, KnownOfNext
    <3>. QED BY <3>1
  <2>4. Past(k) /\ Ahead(k) /\ Still(k) /\ Stands(k)
    BY <2>1 DEF Counted
  <2>5. Past(k)' /\ Ahead(k)' /\ Still(k)'
    BY <1>2, <2>1, <2>3, <2>4 DEF Past, Ahead, Still, InTime
  <2>6. Stands(k)'
    BY <1>2, <2>1, <2>2, <2>3, <2>4 DEF Stands, Foremost, InTime
  <2>. QED BY <2>5, <2>6
<1>4. CASE c = k
  <2>1. /\ using'[d][k] = v /\ v # using[d][k]
        /\ \A e \in Devices \ {d} : using'[e][k] = using[e][k]
        /\ sole[k] \in {"none", d} /\ sole'[k] = d
        /\ ~(k \in touched[d] /\ v = Kept(d).base[k])
        /\ k \in touched'[d] /\ saved[d].joined
    <3>1. /\ using' = [using EXCEPT ![d] = [using[d] EXCEPT ![k] = v]]
          /\ v # using[d][k] /\ saved[d].joined
          /\ touched' = [touched EXCEPT ![d] = touched[d] \cup {k}]
      BY <1>1, <1>4 DEF Change
    <3>2. sole' = [sole EXCEPT ![k] =
                     IF sole[k] \in {"none", d} /\ ~(k \in touched[d] /\ v = Kept(d).base[k])
                       THEN d ELSE Many]
      BY <1>1, <1>4 DEF Change
    <3>3. /\ sole[k] \in {"none", d} /\ sole'[k] = d
          /\ ~(k \in touched[d] /\ v = Kept(d).base[k])
      BY <1>1, <3>2
    <3>. QED BY <1>1, <3>1, <3>3
  <2>2. sole[k] # Many
    BY <2>1, DevicesAssumption DEF Many
  <2>3. Past(k) /\ Ahead(k) /\ Still(k) /\ Stands(k)
    BY <2>2 DEF Counted
  <2>4. /\ \A e \in Devices \ {d} : Mark(e, k)' = Mark(e, k)
        /\ Mark(d, k)'.at = Mark(d, k).at
    BY <1>2, <2>1 DEF Mark
  <2>5. ASSUME NEW s \in Known(k)'
        PROVE  \E t \in Known(k) : t.at = s.at
    BY <1>2, <2>4, KnownOf, KnownOfNext
  <2>6. Past(k)'
    BY <1>2, <2>3, <2>5 DEF Past, InTime
  <2>7. Ahead(k)'
    <3>. SUFFICES ASSUME NEW e \in Devices, InTime(e), sole'[k] \in {"none", e},
                         run'[e].step \in {"started", "reading"}, run'[e].state.joined,
                         NEW s \in Known(k)'
                  PROVE  s.at < run'[e].at
      BY DEF Ahead, InTime
    <3>1. e = d
      BY <2>1, DevicesAssumption
    <3>2. PICK t \in Known(k) : t.at = s.at
      BY <2>5
    <3>. QED BY <1>2, <2>1, <2>3, <3>1, <3>2 DEF Ahead
  <2>8. Still(k)'
    <3>. SUFFICES ASSUME NEW e \in Devices, Kept(e)'.joined, d # e
                  PROVE  using'[e][k] = Kept(e)'.base[k]
      BY <2>1 DEF Still
    <3>1. sole[k] # e
      BY <2>1, DevicesAssumption
    <3>. QED BY <1>2, <2>1, <2>3, <3>1 DEF Still
  <2>9. v # Kept(d).base[k]
    <3>. SUFFICES ASSUME v = Kept(d).base[k] PROVE FALSE
      OBVIOUS
    <3>1. k \notin touched[d] /\ using[d][k] # Kept(d).base[k]
      BY <2>1
    <3>2. CASE sole[k] = d
      BY <2>3, <3>1, <3>2 DEF Stands
    <3>3. CASE sole[k] # d
      <4>1. Kept(d).joined
        BY <2>1 DEF Kept, RunsRight
      <4>. QED BY <2>3, <3>1, <3>3, <4>1 DEF Still
    <3>. QED BY <3>2, <3>3
  <2>10. Stands(k)'
    <3>1. using'[d][k] # Kept(d)'.base[k] /\ saved'[d].joined /\ k \in touched'[d]
      BY <1>2, <2>1, <2>9
    <3>. QED BY <2>1, <3>1 DEF Stands
  <2>. QED BY <2>6, <2>7, <2>8, <2>10
<1>. QED BY <1>3, <1>4

\* What a sync that takes up stamps a key as: nothing; what it is synced as; or
\* anew, what is not, which is done by the one device that changed it, or by
\* the first that turns sync on.
LEMMA MineOf ==
  ASSUME Inv, RunsRight, Counted, NEW k \in StoreKeys, sole[k] # Many,
         NEW d \in Devices, run[d].step = "reading", ~BeginsTwice(d)
  PROVE  \/ /\ Mine(d)[k] \in {Absent, Mark(d, k)}
            /\ run[d].state.joined => /\ using[d][k] = Kept(d).base[k]
                                      /\ using[d][k] # Away => Mine(d)[k] = Mark(d, k)
         \/ /\ Mine(d)[k] = [v |-> using[d][k], at |-> run[d].at]
            /\ using[d][k] # Kept(d).base[k]
            /\ \/ sole[k] = d
               \/ sole[k] = "none" /\ \A e \in Devices \ {d} : ~run[e].state.joined
<1>1. /\ k \in Keys /\ k \notin AppKeys /\ TypeOK /\ run[d].state = saved[d] /\ Kept(d) = saved[d]
  BY KeysAssumption DEF Keys, Inv, RunsRight, Kept
<1>2. Still(k) /\ Stands(k)
  BY DEF Counted
<1>3. Seen(d)[k] = using[d][k]
  BY <1>1 DEF Seen
<1>4. CASE ~run[d].state.joined /\ run[d].others # NoFile
  BY <1>1, <1>4 DEF Mine, NoFile
<1>5. CASE ~(~run[d].state.joined /\ run[d].others # NoFile)
  <2>1. Mine(d)[k] = CASE using[d][k] = Away /\ Kept(d).base[k] = Away -> Absent
                       [] using[d][k] = Kept(d).base[k] -> [v |-> using[d][k], at |-> Kept(d).stamps[k]]
                       [] OTHER -> [v |-> using[d][k], at |-> run[d].at]
    BY <1>1, <1>3, <1>5 DEF Mine, Stamp
  <2>2. CASE using[d][k] = Kept(d).base[k]
    BY <2>1, <2>2 DEF Mark
  <2>3. CASE using[d][k] # Kept(d).base[k]
    <3>1. Mine(d)[k] = [v |-> using[d][k], at |-> run[d].at]
      BY <2>1, <2>3
    <3>2. CASE run[d].state.joined
      BY <1>1, <1>2, <2>3, <3>1, <3>2 DEF Still
    <3>3. CASE ~run[d].state.joined
      <4>1. \A e \in Devices \ {d} : ~saved[e].joined /\ ~run[e].state.joined
        BY <1>5, <3>3 DEF BeginsTwice
      <4>2. \A e \in Devices : sole[k] # e
        BY <1>1, <1>2, <3>3, <4>1 DEF Stands
      <4>3. sole[k] = "none"
        BY <1>1, <4>2 DEF TypeOK
      <4>. QED BY <2>3, <3>1, <4>1, <4>3
    <3>. QED BY <3>2, <3>3
  <2>. QED BY <2>2, <2>3
<1>. QED BY <1>4, <1>5

\* What taking up comes to, of a key the store has.
LEMMA TakeUpOf ==
  ASSUME Inv, NEW k \in StoreKeys, NEW d \in Devices, TakeUp(d)
  PROVE  /\ using'[d][k] = IF Merged(d)[k].at >= 0 THEN Merged(d)[k].v ELSE using[d][k]
         /\ Kept(d)'.base[k] = using'[d][k] /\ Kept(d)'.joined
         /\ Kept(d)'.stamps[k] = IF Merged(d)[k].at < 0 THEN 0 ELSE Merged(d)[k].at
         /\ Own(d, k)' = Merged(d)[k]
         /\ run'[d].step \in {"idle", "writing"}
         /\ saved[d].joined => saved'[d].joined
         /\ \A e \in Devices \ {d} : /\ run'[e] = run[e] /\ saved'[e] = saved[e]
                                     /\ using'[e] = using[e] /\ touched'[e] = touched[e]
                                     /\ forgot'[e] = forgot[e]
         /\ file' = file
         /\ k \in forgot[d] /\ k \notin Anew(d) => k \in forgot'[d]
         /\ run'[d].others[k] = Absent /\ run'[d].held[k] = Absent
         /\ run'[d].merged[k] \in {Absent, Merged(d)[k]}
<1>. DEFINE merged == Merged(d)
            takes  == With(merged, Seen(d))
            noted  == Noted(d, merged, takes)
            stored == [i \in Keys |-> IF i \in StoreKeys THEN takes[i] ELSE using[d][i]]
            shown  == Shown(d, takes, run[d].here)
            both   == [i \in Keys |-> IF i \in StoreKeys THEN stored[i] ELSE shown[i]]
            goes   == [NoRun EXCEPT !.step = "writing", !.here = run[d].here,
                                    !.state = noted, !.merged = merged]
<1>1. /\ k \in Keys /\ k \notin AppKeys /\ DOMAIN run = Devices /\ DOMAIN saved = Devices
      /\ DOMAIN using = Devices /\ DOMAIN touched = Devices /\ DOMAIN forgot = Devices
  BY KeysAssumption DEF Keys, Inv, TypeOK
<1>2. /\ takes[k] = IF merged[k].at >= 0 THEN merged[k].v ELSE using[d][k]
      /\ stored[k] = takes[k] /\ both[k] = takes[k]
  BY <1>1 DEF With, Seen
<1>3. /\ noted.base = takes /\ noted.joined
      /\ noted.stamps[k] = IF merged[k].at < 0 THEN 0 ELSE merged[k].at
  BY <1>1 DEF Noted
<1>4. /\ goes.step = "writing" /\ goes.state = noted /\ goes.merged = merged
      /\ goes.others[k] = Absent /\ goes.held[k] = Absent
      /\ NoRun.step = "idle" /\ NoRun.others[k] = Absent /\ NoRun.held[k] = Absent
      /\ NoRun.merged[k] = Absent
  BY <1>1 DEF NoRun, NoFile
<1>5. \/ /\ saved' = [saved EXCEPT ![d] = noted] /\ run' = [run EXCEPT ![d] = NoRun]
         /\ using' = [using EXCEPT ![d] = both] /\ merged = run[d].held
      \/ /\ using' = [using EXCEPT ![d] = stored] /\ run' = [run EXCEPT ![d] = goes]
         /\ UNCHANGED saved
  BY DEF TakeUp, End
<1>6. /\ file' = file /\ run[d].step = "reading"
      /\ touched' = [touched EXCEPT ![d] = touched[d] \ {i \in Anew(d) : using[d][i] = Seen(d)[i]}]
      /\ forgot' = [forgot EXCEPT ![d] = forgot[d] \ Anew(d)]
  BY DEF TakeUp
<1>7. run[d].held = file[d]
  BY <1>6 DEF Inv, HeldIsFile
<1>. HIDE DEF merged, takes, noted, stored, shown, both, goes
<1>8. /\ using'[d][k] = takes[k]
      /\ \A e \in Devices \ {d} : /\ run'[e] = run[e] /\ saved'[e] = saved[e]
                                  /\ using'[e] = using[e] /\ touched'[e] = touched[e]
                                  /\ forgot'[e] = forgot[e]
      /\ k \in forgot[d] /\ k \notin Anew(d) => k \in forgot'[d]
  BY <1>1, <1>2, <1>5, <1>6
<1>9. /\ Kept(d)' = noted
      /\ Own(d, k)' = merged[k]
      /\ run'[d].step \in {"idle", "writing"}
      /\ saved[d].joined => saved'[d].joined
      /\ run'[d].others[k] = Absent /\ run'[d].held[k] = Absent
      /\ run'[d].merged[k] \in {Absent, merged[k]}
  <2>1. CASE saved' = [saved EXCEPT ![d] = noted] /\ run' = [run EXCEPT ![d] = NoRun] /\ merged = run[d].held
    <3>1. saved'[d] = noted /\ run'[d] = NoRun
      BY <1>1, <2>1
    <3>. QED BY <1>3, <1>4, <1>6, <1>7, <2>1, <3>1 DEF Kept, Own
  <2>2. CASE run' = [run EXCEPT ![d] = goes] /\ UNCHANGED saved
    <3>1. run'[d] = goes
      BY <1>1, <2>2
    <3>. QED BY <1>4, <2>2, <3>1 DEF Kept, Own
  <2>. QED BY <1>5, <2>1, <2>2
<1>. QED BY <1>2, <1>3, <1>6, <1>8, <1>9 DEF merged

LEMMA MergedOf ==
  ASSUME TypeOK, NEW d \in Devices, NEW k \in Keys
  PROVE  /\ Merged(d)[k] \in {run[d].others[k], run[d].held[k], Mine(d)[k]}
         /\ \A s \in {run[d].others[k], run[d].held[k], Mine(d)[k]} :
              (\A t \in {run[d].others[k], run[d].held[k], Mine(d)[k]} : t.at < s.at \/ t = s)
                => Merged(d)[k] = s
         /\ Merged(d)[k] \in Stamped
<1>1. /\ run[d].others[k] \in Stamped /\ run[d].held[k] \in Stamped
      /\ Mine(d)[k] \in Stamped /\ Merged(d)[k] \in Stamped
  BY MergedType, RunTypes DEF TypeOK, File
<1>2. Merged(d)[k] = Newer(Newer(run[d].others[k], run[d].held[k]), Mine(d)[k])
  BY DEF Merged, Merge
<1>. QED BY <1>1, <1>2, NewestOfThree

\* The device that changed a key stays with it, and has it foremost, if its
\* clock is behind no other's and it has not left what it took away unsaid.
LEMMA TakeUpStands ==
  ASSUME Inv, RunsRight, Counted, NEW k \in StoreKeys, NEW d \in Devices, TakeUp(d),
         sole[k] = d, InTime(d), k \notin forgot[d] \/ k \in Anew(d)
  PROVE  /\ Merged(d)[k].v = using[d][k] /\ Merged(d)[k].at > 0
         /\ \A s \in Known(k) : s.at < Merged(d)[k].at \/ s = Merged(d)[k]
<1>1. /\ k \in Keys /\ TypeOK /\ run[d].step = "reading" /\ run[d].state = saved[d]
      /\ run[d].at > 0 /\ run[d].at \in Nat
      /\ Kept(d) = saved[d] /\ sole[k] # Many /\ run[d].held = file[d]
  BY ClockType, DevicesAssumption DEF Keys, Inv, HeldIsFile, RunsRight, Kept, TakeUp, Many
<1>2. Ahead(k) /\ Stands(k) /\ saved[d].joined
  BY <1>1 DEF Counted, Stands
<1>3. ~BeginsTwice(d)
  BY <1>1, <1>2 DEF BeginsTwice
<1>4. run[d].others[k] \in Known(k) /\ run[d].held[k] \in Known(k)
  BY KnownOf
<1>5. CASE using[d][k] # Kept(d).base[k]
  <2>1. Mine(d)[k] = [v |-> using[d][k], at |-> run[d].at]
    BY <1>1, <1>2, <1>3, <1>5, MineOf
  <2>2. Mine(d)[k].at = run[d].at /\ Mine(d)[k].v = using[d][k]
    BY <2>1
  <2>3. \A s \in Known(k) : s.at < Mine(d)[k].at
    BY <1>1, <1>2, <2>2 DEF Ahead
  <2>4. Merged(d)[k] = Mine(d)[k]
    BY <1>1, <1>4, <2>3, MergedOf
  <2>. QED BY <1>1, <2>2, <2>3, <2>4
<1>6. CASE using[d][k] = Kept(d).base[k]
  <2>0. k \notin Anew(d)
    BY <1>1, <1>6, KeysAssumption DEF Anew, Seen
  <2>1. Foremost(d, k)
    BY <1>2, <1>6, <2>0 DEF Stands
  <2>3. Mine(d)[k] \in {Absent, Mark(d, k)} /\ (using[d][k] # Away => Mine(d)[k] = Mark(d, k))
    BY <1>1, <1>2, <1>3, <1>6, MineOf
  <2>2. Mark(d, k) \in {run[d].held[k], Mine(d)[k]}
    BY <1>1, <2>1, <2>3 DEF Foremost, Own
  <2>4. Mark(d, k).at > 0 /\ Mark(d, k).at \in Nat /\ Absent.at = -1
    BY <1>1, <2>1, KnownStamped DEF Foremost, Absent
  <2>5. Merged(d)[k] = Mark(d, k)
    <3>1. \A t \in {run[d].others[k], run[d].held[k], Mine(d)[k]} : t.at < Mark(d, k).at \/ t = Mark(d, k)
      BY <1>4, <2>1, <2>3, <2>4 DEF Foremost
    <3>. QED BY <1>1, <2>2, <3>1, MergedOf
  <2>. QED BY <2>1, <2>4, <2>5 DEF Foremost, Mark
<1>. QED BY <1>5, <1>6

\* What is new of a key as a device takes up: that it has none stamped, what
\* it stamps anew, or that no file stamps it.
LEMMA TakeUpKnown ==
  ASSUME Inv, RunsRight, Counted, NEW k \in StoreKeys, NEW d \in Devices, TakeUp(d),
         sole[k] # Many, ~BeginsTwice(d), NEW s \in Known(k)'
  PROVE  \/ s \in Known(k)
         \/ s.at \in {-1, 0}
         \/ /\ s.at = run[d].at /\ s = Merged(d)[k] /\ k \in Anew(d)
            /\ \/ sole[k] = d
               \/ sole[k] = "none" /\ \A e \in Devices \ {d} : ~run[e].state.joined
<1>1. /\ k \in Keys /\ TypeOK /\ run[d].step = "reading" /\ Absent.at = -1
      /\ Seen(d)[k] = using[d][k] /\ Kept(d) = run[d].state
  BY KeysAssumption DEF Keys, Inv, TakeUp, Absent, Seen, Kept, RunsRight
<1>2. run[d].others[k] \in Known(k) /\ run[d].held[k] \in Known(k) /\ Mark(d, k) \in Known(k)
  BY KnownOf
<1>3. ASSUME s = Merged(d)[k]
      PROVE  \/ s \in Known(k)
             \/ s.at \in {-1, 0}
             \/ /\ s.at = run[d].at /\ s = Merged(d)[k] /\ k \in Anew(d)
                /\ \/ sole[k] = d
                   \/ sole[k] = "none" /\ \A e \in Devices \ {d} : ~run[e].state.joined
  <2>1. CASE s \in {run[d].others[k], run[d].held[k]}
    BY <1>2, <2>1
  <2>2. CASE s = Mine(d)[k] /\ Mine(d)[k] \in {Absent, Mark(d, k)}
    BY <1>1, <1>2, <2>2
  <2>3. CASE /\ s = Mine(d)[k] /\ Mine(d)[k] = [v |-> using[d][k], at |-> run[d].at]
             /\ using[d][k] # Kept(d).base[k]
             /\ \/ sole[k] = d
                \/ sole[k] = "none" /\ \A e \in Devices \ {d} : ~run[e].state.joined
    <3>1. Mine(d)[k].at = run[d].at
      BY <2>3
    <3>2. k \in Anew(d)
      BY <1>1, <2>3, <3>1 DEF Anew
    <3>. QED BY <1>3, <2>3, <3>1, <3>2
  <2>. QED BY <1>1, <1>3, <2>1, <2>2, <2>3, MergedOf, MineOf
<1>4. ASSUME s = Mark(d, k)'
      PROVE  s = Merged(d)[k] \/ s.at = 0
  <2>1. Merged(d)[k] \in Stamped
    BY <1>1, MergedOf
  <2>2. /\ Merged(d)[k].at \in Int
        /\ Merged(d)[k] = [v |-> Merged(d)[k].v, at |-> Merged(d)[k].at]
    BY <2>1, StampedNumbers
  <2>3. s = [v |-> using'[d][k], at |-> Kept(d)'.stamps[k]]
    BY <1>4 DEF Mark
  <2>4. /\ using'[d][k] = IF Merged(d)[k].at >= 0 THEN Merged(d)[k].v ELSE using[d][k]
        /\ Kept(d)'.stamps[k] = IF Merged(d)[k].at < 0 THEN 0 ELSE Merged(d)[k].at
    BY TakeUpOf
  <2>. QED BY <2>2, <2>3, <2>4
<1>5. \/ s \in Known(k) \/ s = Absent \/ s = Merged(d)[k] \/ s = Mark(d, k)'
  <2>1. ASSUME NEW e \in Devices \ {d}
        PROVE  run'[e] = run[e] /\ Mark(e, k)' = Mark(e, k)
    BY TakeUpOf DEF Mark, Kept
  <2>2. /\ file' = file /\ run'[d].others[k] = Absent /\ run'[d].held[k] = Absent
        /\ run'[d].merged[k] \in {Absent, Merged(d)[k]}
    BY TakeUpOf
  <2>3. CASE \E f \in Files : s = file'[f][k]
    BY <2>2, <2>3, KnownOf
  <2>4. ASSUME NEW e \in Devices, \/ s = run'[e].others[k] \/ s = run'[e].held[k]
                                  \/ s = run'[e].merged[k] \/ s = Mark(e, k)'
        PROVE  s \in Known(k) \/ s = Absent \/ s = Merged(d)[k] \/ s = Mark(d, k)'
    BY <2>1, <2>2, <2>4, KnownOf
  <2>. QED BY <2>3, <2>4, KnownOfNext
<1>. QED BY <1>1, <1>3, <1>4, <1>5

LEMMA CountedTakeUp ==
  ASSUME Inv, RunsRight, Counted, NEW k \in StoreKeys, NEW d \in Devices, TakeUp(d)
  PROVE  sole'[k] # Many => Past(k)' /\ Ahead(k)' /\ Still(k)' /\ Stands(k)'
<1>. SUFFICES ASSUME sole'[k] # Many PROVE Past(k)' /\ Ahead(k)' /\ Still(k)' /\ Stands(k)'
  OBVIOUS
<1>1. /\ k \in Keys /\ TypeOK /\ now \in Nat /\ now > 0
  BY DEF Keys, Inv, TypeOK, RunsRight
<1>2. sole'[k] = sole[k] /\ sole[k] # Many /\ ~BeginsTwice(d)
  BY <1>1 DEF TakeUp
<1>3. /\ now' = IF Anew(d) # {} /\ Clock(d) = run[d].at THEN now + 1 ELSE now
      /\ run[d].step = "reading" /\ run[d].state = saved[d] /\ run[d].at \in 1..Clock(d)
  BY DEF TakeUp, RunsRight
<1>4. Past(k) /\ Ahead(k) /\ Still(k) /\ Stands(k)
  BY <1>2 DEF Counted
<1>5. \A s \in Known(k) : s.at \in Int
  BY <1>1, KnownStamped
<1>6. now' \in Nat /\ now' >= now
  BY <1>1, <1>3
<1>7. /\ \A e \in Devices : /\ Clock(e) \in Nat /\ Clock(e) > 0 /\ Clock(e)' \in Nat
                             /\ Clock(e)' >= Clock(e)
      /\ \A e \in Devices : InTime(e) => Clock(d) <= Clock(e)
      /\ Clock(d) = run[d].at /\ Anew(d) # {} => \A e \in Devices : Clock(e)' > Clock(e)
  BY <1>1, <1>3, <1>6, ClockType DEF InTime
<1>8. Past(k)'
  <2>. SUFFICES ASSUME NEW e \in Devices, InTime(e), NEW s \in Known(k)' PROVE s.at < Clock(e)'
    BY DEF Past, InTime
  <2>1. CASE s \in Known(k)
    BY <1>4, <1>5, <1>7, <2>1 DEF Past
  <2>2. CASE s.at \in {-1, 0}
    BY <1>7, <2>2
  <2>3. CASE s.at = run[d].at /\ k \in Anew(d)
    BY <1>3, <1>7, <2>3
  <2>. QED BY <1>2, <2>1, <2>2, <2>3, TakeUpKnown
<1>9. Ahead(k)'
  <2>. SUFFICES ASSUME NEW e \in Devices, InTime(e), sole'[k] \in {"none", e},
                       run'[e].step \in {"started", "reading"}, run'[e].state.joined,
                       NEW s \in Known(k)'
                PROVE  s.at < run'[e].at
    BY DEF Ahead, InTime
  <2>1. e # d
    BY TakeUpOf
  <2>2. run'[e] = run[e]
    BY <2>1, TakeUpOf
  <2>3. run[e].at \in Nat /\ run[e].at > 0
    BY <1>7, <2>2 DEF RunsRight
  <2>4. CASE s \in Known(k)
    BY <1>2, <1>4, <2>2, <2>4 DEF Ahead
  <2>5. CASE s.at \in {-1, 0}
    BY <2>2, <2>3, <2>5
  <2>6. ~(sole[k] = d \/ (sole[k] = "none" /\ \A i \in Devices \ {d} : ~run[i].state.joined))
    BY <1>2, <2>1, <2>2, DevicesAssumption
  <2>. QED BY <1>2, <2>4, <2>5, <2>6, TakeUpKnown
<1>10. Still(k)'
  <2>. SUFFICES ASSUME NEW e \in Devices, Kept(e)'.joined, sole'[k] # e
                PROVE  using'[e][k] = Kept(e)'.base[k]
    BY DEF Still
  <2>1. CASE e = d
    BY <2>1, TakeUpOf
  <2>2. CASE e # d
    <3>1. using'[e] = using[e] /\ Kept(e)' = Kept(e)
      BY <2>2, TakeUpOf DEF Kept
    <3>. QED BY <1>2, <1>4, <3>1 DEF Still
  <2>. QED BY <2>1, <2>2
<1>11. Stands(k)'
  <2>0. \A e \in Devices : InTime(e)' <=> InTime(e)
    BY DEF InTime
  <2>4. CASE sole[k] = d /\ ~(InTime(d) /\ k \notin forgot'[d])
    BY <1>2, <1>4, <2>0, <2>4, TakeUpOf DEF Stands
  <2>1. CASE sole[k] = d /\ InTime(d) /\ k \notin forgot'[d]
    <3>0. k \notin forgot[d] \/ k \in Anew(d)
      BY <2>1, TakeUpOf
    <3>1. /\ Merged(d)[k].v = using[d][k] /\ Merged(d)[k].at > 0
          /\ \A s \in Known(k) : s.at < Merged(d)[k].at \/ s = Merged(d)[k]
      BY <2>1, <3>0, TakeUpStands
    <3>2. /\ Merged(d)[k].at \in Int
          /\ Merged(d)[k] = [v |-> Merged(d)[k].v, at |-> Merged(d)[k].at]
      BY <1>1, MergedOf, StampedNumbers
    <3>3. /\ using'[d][k] = using[d][k] /\ Kept(d)'.stamps[k] = Merged(d)[k].at
          /\ Own(d, k)' = Merged(d)[k] /\ using'[d][k] = Kept(d)'.base[k]
      BY <3>1, <3>2, TakeUpOf
    <3>4. Mark(d, k)' = Merged(d)[k]
      BY <3>1, <3>2, <3>3 DEF Mark
    <3>5. ASSUME NEW s \in Known(k)' PROVE s.at < Merged(d)[k].at \/ s = Merged(d)[k]
      BY <1>2, <3>1, <3>2, TakeUpKnown
    <3>6. Foremost(d, k)'
      BY <3>1, <3>3, <3>4, <3>5 DEF Foremost
    <3>7. saved'[d].joined
      BY <1>4, <2>1, TakeUpOf DEF Stands
    <3>. QED BY <1>2, <2>1, <3>3, <3>6, <3>7 DEF Stands
  <2>2. ASSUME NEW e \in Devices, e # d, sole[k] = e PROVE Stands(k)'
    <3>1. /\ run'[e] = run[e] /\ saved'[e] = saved[e] /\ using'[e] = using[e]
          /\ touched'[e] = touched[e] /\ forgot'[e] = forgot[e] /\ file' = file
      BY <2>2, TakeUpOf
    <3>2. Kept(e)' = Kept(e) /\ Own(e, k)' = Own(e, k) /\ Mark(e, k)' = Mark(e, k)
      BY <3>1 DEF Kept, Own, Mark
    <3>3. ASSUME Foremost(e, k) PROVE Foremost(e, k)'
      <4>1. /\ Mark(e, k).at \in Nat /\ Mark(e, k).at > 0
            /\ using[e][k] = Away => Own(e, k) = Mark(e, k)
        BY <1>1, <3>3, KnownStamped DEF Foremost
      <4>2. ASSUME NEW s \in Known(k)' PROVE s.at < Mark(e, k).at \/ s = Mark(e, k)
        <5>1. CASE s \in Known(k)
          BY <3>3, <5>1 DEF Foremost
        <5>2. CASE s.at \in {-1, 0}
          BY <4>1, <5>2
        <5>. QED BY <1>2, <2>2, <5>1, <5>2, TakeUpKnown, DevicesAssumption
      <4>. QED BY <3>1, <3>2, <4>1, <4>2 DEF Foremost
    <3>. QED BY <1>2, <1>4, <2>0, <2>2, <3>1, <3>2, <3>3 DEF Stands
  <2>3. CASE \A e \in Devices : sole[k] # e
    BY <1>2, <2>3 DEF Stands
  <2>. QED BY <2>1, <2>2, <2>3, <2>4
<1>. QED BY <1>8, <1>9, <1>10, <1>11

LEMMA CountedNext == Inv /\ RunsRight /\ Counted /\ [Next]_vars => Counted'
<1>. SUFFICES ASSUME Inv, RunsRight, Counted, [Next]_vars, NEW k \in StoreKeys, sole'[k] # Many
              PROVE  Past(k)' /\ Ahead(k)' /\ Still(k)' /\ Stands(k)'
  BY DEF Counted
<1>1. k \in Keys
  BY DEF Keys
<1>2. ASSUME NEW d \in Devices, Crash(d) \/ Rejoin(d) PROVE FALSE
  BY <1>1, <1>2 DEF Crash, Rejoin
<1>3. CASE UNCHANGED vars
  <2>1. \A e \in Devices : Kept(e)' = Kept(e) /\ Own(e, k)' = Own(e, k) /\ Mark(e, k)' = Mark(e, k)
    BY <1>3 DEF vars, Kept, Own, Mark
  <2>2. ASSUME NEW s PROVE s \in Known(k)' <=> s \in Known(k)
    BY <1>3, <2>1, KnownOf, KnownOfNext DEF vars
  <2>3. \A e \in Devices : run'[e] = run[e] /\ using'[e][k] = using[e][k] /\ saved'[e] = saved[e]
    BY <1>3 DEF vars
  <2>4. TypeOK /\ sole'[k] = sole[k] /\ now' = now /\ touched' = touched /\ forgot' = forgot
    BY <1>3 DEF vars, Inv
  <2>. QED BY <2>1, <2>2, <2>3, <2>4, CountedStill
<1>. QED BY <1>2, <1>3, CountedChange, CountedSteps, CountedTakeUp
     DEF Next, Sync, Learner, Fault

LEMMA CountedHolds == Spec => [](Inv /\ RunsRight /\ Counted)
<1>1. Init => Inv /\ RunsRight /\ Counted
  <2>. SUFFICES ASSUME Init PROVE Inv /\ RunsRight /\ Counted
    OBVIOUS
  <2>1. Inv
    BY TypeInit, AwayTypes DEF Inv, HeldIsFile, Init, NoRun
  <2>2. /\ now = 1 /\ \A d \in Devices : run[d] = NoRun /\ saved[d] = NewState
        /\ NoRun.step = "idle" /\ ~NewState.joined /\ \A i \in Keys : sole[i] = "none"
    BY DEF Init, NoRun, NewState
  <2>3. RunsRight
    BY <2>2 DEF RunsRight
  <2>4. ASSUME NEW k \in StoreKeys PROVE Past(k) /\ Ahead(k) /\ Still(k) /\ Stands(k)
    <3>1. k \in Keys /\ NewState.stamps[k] = 0 /\ NoFile[k].at = -1
      BY DEF Keys, NewState, NoFile, Absent
    <3>2. /\ \A f \in Files : file[f] = NoFile
          /\ NoRun.others = NoFile /\ NoRun.held = NoFile /\ NoRun.merged = NoFile
      BY DEF Init, NoRun
    <3>3. \A d \in Devices : Kept(d) = NewState /\ Mark(d, k).at = 0
      BY <2>2, <3>1 DEF Kept, Mark
    <3>4. \A s \in Known(k) : s.at \in {-1, 0}
      BY <2>2, <3>1, <3>2, <3>3, KnownOf
    <3>5. \A d \in Devices : sole[k] # d
      BY <2>2, <3>1, DevicesAssumption
    <3>6. \A d \in Devices : Clock(d) \in Nat /\ Clock(d) > 0
      BY <2>1, <2>2, ClockType DEF Inv
    <3>. QED BY <2>2, <3>3, <3>4, <3>5, <3>6 DEF Past, Ahead, Still, Stands
  <2>. QED BY <2>1, <2>3, <2>4 DEF Counted
<1>2. Inv /\ RunsRight /\ Counted /\ [Next]_vars => (Inv /\ RunsRight /\ Counted)'
  BY TypeNext, HeldIsFileNext, RunsRightNext, CountedNext DEF Inv
<1>. QED BY <1>1, <1>2, PTL DEF Spec

\* A count or the theme changed by hand on one device alone is changed back by
\* no sync, whatever others change, read and write meanwhile, fail or lose the
\* answer to, if no clock is ahead of the device's; but for one taken away by
\* a sync that could not write its file (sync_settings).
THEOREM CountsStand == Spec => CountsComeThrough
<1>1. ASSUME Inv, RunsRight, Counted, [Next]_vars, NEW d \in Devices, NEW k \in StoreKeys,
             InTime(d), Turns(d, k), sole[k] = d, k \notin forgot[d]
      PROVE  FALSE
  <2>1. run'[d] # run[d] /\ using'[d][k] # using[d][k] /\ DOMAIN run = Devices /\ DOMAIN using = Devices
    BY <1>1 DEF Turns, Inv, TypeOK
  <2>2. ASSUME NEW e \in Devices, TakeUp(e) PROVE FALSE
    <3>1. e = d
      BY <1>1, <2>1, <2>2, TakeUpOf
    <3>. QED BY <1>1, <2>1, <2>2, <3>1, TakeUpStands, TakeUpOf
  <2>3. ASSUME NEW e \in Devices, Write(e) PROVE FALSE
    <3>1. Shown(e, run[e].state.base, run[e].here)[k] = using[e][k]
      BY KeysAssumption DEF Shown, Keys
    <3>. QED BY <2>1, <2>3, <3>1 DEF Write
  <2>. QED BY <1>1, <2>1, <2>2, <2>3
       DEF Next, Sync, Learner, Fault, Change, Start, List, Read, AnswerLost, Fail, Crash, Rejoin, vars
<1>2. Inv /\ RunsRight /\ Counted /\ [Next]_vars =>
        [\A d \in Devices, k \in StoreKeys :
           InTime(d) /\ Turns(d, k) => sole[k] # d \/ k \in forgot[d]]_vars
  BY <1>1
<1>. QED BY CountedHolds, <1>2, PTL DEF CountsComeThrough, Spec

=============================================================================
