-------------------------- MODULE SyncHistory_proofs ------------------------
(***************************************************************************)
(* What is proved of SyncHistory, for any devices, records, faults and     *)
(* bounds: its invariants, that it implements SharedHistory, and what each *)
(* device notes of the drive.                                              *)
(***************************************************************************)
EXTENDS SyncHistory, DriveState_proofs

-----------------------------------------------------------------------------
(***************************************************************************)
(* Types of the helpers.                                                   *)
(***************************************************************************)

Kinds == {"none", "live", "forgotten"}

LEMMA MadeType ==
  ASSUME NEW here \in [Records -> Kinds], NEW put, NEW unforget, NEW forget
  PROVE  Made(here, put, unforget, forget) \in [Records -> Kinds]
BY DEF Made, Kinds

LEMMA ExtendType ==
  ASSUME NEW s \in Times, NEW t \in Times
  PROVE  Extend(s, t) \in Times
BY DEF Extend, Times

LEMMA PlanType ==
  ASSUME NEW w, NEW listed \in SUBSET Records, NEW forgotten, NEW applied, NEW revived
  PROVE  Plan(w, listed, forgotten, applied, revived) \in PlanOf
BY DEF Plan, PlanOf, Alive

LEMMA NewStateType == NewState \in SyncState /\ None \in Times
BY BlankType DEF NewState, SyncState, None, Times

LEMMA NoRunType == NoRun \in RunOf /\ NoPlan \in PlanOf
BY BlankType, NewStateType DEF NoRun, RunOf, NoPlan, PlanOf, Steps

-----------------------------------------------------------------------------
(***************************************************************************)
(* Types, and the drive as finite: every variable keeps its type, and the  *)
(* packs are finitely many, which the latest of their times asks for.      *)
(***************************************************************************)

TypeInv == TypeOK /\ IsFiniteSet(packs)

LEMMA ChangeStoreType ==
  ASSUME TypeOK, NEW d \in Devices, NEW put, NEW unforget, NEW forget,
         NEW own \in SUBSET Records, ChangeStore(d, put, unforget, forget, own)
  PROVE  /\ store' \in [Devices -> [Records -> Kinds]]
         /\ byHand' \in SUBSET Records
         /\ mine' \in [Devices -> [Records -> {"no", "untold", "told"}]]
<1>1. store' \in [Devices -> [Records -> Kinds]]
  <2>1. Made(store[d], put, unforget, forget) \in [Records -> Kinds]
    BY MadeType DEF TypeOK, Kinds
  <2>. QED BY <2>1 DEF TypeOK, ChangeStore, Kinds
<1>2. byHand' \in SUBSET Records
  BY DEF TypeOK, ChangeStore
<1>3. mine' \in [Devices -> [Records -> {"no", "untold", "told"}]]
  BY DEF TypeOK, ChangeStore
<1>. QED BY <1>1, <1>2, <1>3

LEMMA RevivedType ==
  ASSUME TypeOK, NEW d \in Devices, NEW ids, Revived(d, ids)
  PROVE  /\ now' \in Nat
         /\ saved' \in [Devices -> SyncState]
         /\ overlay' \in [Devices -> Times]
<1> DEFINE back == [r \in Records |-> IF r \in ids THEN Clock(d) + 1 ELSE 0]
<1>1. back \in Times
  BY SkewAssumption DEF TypeOK, Clock, Times
<1>2. saved[d].revived \in Times /\ overlay[d] \in Times
  BY DEF TypeOK, SyncState
<1>3. Extend(saved[d].revived, back) \in Times /\ Extend(overlay[d], back) \in Times
  BY <1>1, <1>2, ExtendType
<1>4. now' \in Nat
  BY DEF TypeOK, Revived
<1>5. CASE Running(d)
  BY <1>3, <1>4, <1>5 DEF TypeOK, Revived
<1>6. CASE ~Running(d)
  <2>1. saved' = [saved EXCEPT ![d].revived = Extend(saved[d].revived, back)]
    BY <1>6 DEF Revived
  <2>2. saved' \in [Devices -> SyncState]
    BY <1>3, <2>1 DEF TypeOK, SyncState
  <2>. QED BY <1>4, <1>6, <2>2 DEF TypeOK, Revived
<1>. QED BY <1>5, <1>6

THEOREM InitType == Init => TypeInv
<1>1. Init => mine \in [Devices -> [Records -> {"no", "untold", "told"}]]
  BY DEF Init
<1>2. Init => byHand \in SUBSET Records
  BY DEF Init, Forgotten
<1>. QED BY <1>1, <1>2, NewStateType, NoRunType, FS_EmptySet DEF Init, TypeInv, TypeOK


\* The learner's actions keep the types.
LEMMA LearnerType ==
  ASSUME TypeInv, NEW d \in Devices, Learner(d)
  PROVE  TypeInv'
<1>1. CASE \E r \in Records : Finish(d, r)
  <2>1. PICK r \in Records : Finish(d, r)
    BY <1>1
  <2>. QED BY <2>1, ChangeStoreType DEF Finish, HandChange, TypeInv, TypeOK, Kinds
<1>2. CASE \E r \in Records : Delete(d, r)
  <2>1. PICK r \in Records : Delete(d, r)
    BY <1>2
  <2>. QED BY <2>1, ChangeStoreType DEF Delete, HandChange, TypeInv, TypeOK, Kinds
<1>3. CASE \E r \in Records : PutBack(d, r)
  <2>1. PICK r \in Records : PutBack(d, r)
    BY <1>3
  <2>. QED BY <2>1, ChangeStoreType, RevivedType DEF PutBack, HandChange, TypeInv, TypeOK, Kinds
<1>4. CASE \E was, fill \in Records : FillIn(d, was, fill)
  <2>1. PICK was \in Records, fill \in Records : FillIn(d, was, fill)
    BY <1>4
  <2>2. restored' \in [Devices -> SUBSET Fills]
    BY <2>1 DEF FillIn, TypeInv, TypeOK
  <2>. QED BY <2>1, <2>2, ChangeStoreType, RevivedType
           DEF FillIn, HandChange, TypeInv, TypeOK, Kinds
<1>5. CASE UndoRestore(d)
  <2> DEFINE here == {fill \in restored[d] : fill[2] \in Listed(d)}
  <2>1. {fill[2] : fill \in here} \in SUBSET Records
    BY FillsAssumption DEF TypeInv, TypeOK
  <2>2. restored' \in [Devices -> SUBSET Fills]
    BY <1>5 DEF UndoRestore, TypeInv, TypeOK
  <2>. QED BY <1>5, <2>1, <2>2, ChangeStoreType
           DEF UndoRestore, HandChange, TypeInv, TypeOK, Kinds
<1>. QED BY <1>1, <1>2, <1>3, <1>4, <1>5 DEF Learner

\* The word of packs already typed, and of those a sync reads afresh.
LEMMA PacksType ==
  ASSUME TypeInv, NEW P \in SUBSET packs
  PROVE  WordOf(P) \in Word /\ IsFiniteSet(P)
<1>1. IsFiniteSet(P) /\ P \in SUBSET Word
  BY FS_Subset DEF TypeInv, TypeOK
<1>. QED BY <1>1, WordOfType

\* The fields of a sync under way, each by its type.
LEMMA RunFields ==
  ASSUME TypeOK, NEW d \in Devices
  PROVE  /\ run[d] \in RunOf
         /\ run[d].step \in Steps /\ run[d].at \in Nat
         /\ run[d].state \in SyncState
         /\ run[d].state.read \in SUBSET Word /\ run[d].state.drive \in Word
         /\ run[d].state.applied \in Times /\ run[d].state.revived \in Times
         /\ run[d].read \in SUBSET Word /\ run[d].drive \in Word
         /\ run[d].bytes \in SUBSET Records /\ run[d].listed \in SUBSET Records
         /\ run[d].here \in SUBSET Records
         /\ run[d].plan \in PlanOf
         /\ run[d].plan.take \in SUBSET Records /\ run[d].plan.takeBack \in SUBSET Records
         /\ run[d].plan.letGo \in SUBSET Records /\ run[d].plan.send \in SUBSET Records
         /\ run[d].plan.sendDeleted \in SUBSET Records
         /\ run[d].plan.sendBack \in SUBSET Records
         /\ saved[d] \in SyncState
         /\ saved[d].read \in SUBSET Word /\ saved[d].drive \in Word
         /\ saved[d].applied \in Times /\ saved[d].revived \in Times
         /\ overlay[d] \in Times
<1>1. run[d] \in RunOf /\ saved[d] \in SyncState /\ overlay[d] \in Times
  BY DEF TypeOK
<1>2. run[d].state \in SyncState /\ run[d].plan \in PlanOf
  BY <1>1 DEF RunOf
<1>3. /\ run[d].plan.take \in SUBSET Records /\ run[d].plan.takeBack \in SUBSET Records
      /\ run[d].plan.letGo \in SUBSET Records /\ run[d].plan.send \in SUBSET Records
      /\ run[d].plan.sendDeleted \in SUBSET Records
      /\ run[d].plan.sendBack \in SUBSET Records
  BY <1>2 DEF PlanOf
<1>. QED BY <1>1, <1>2, <1>3 DEF RunOf, SyncState

LEMMA StartType ==
  ASSUME TypeInv, NEW d \in Devices, Start(d)
  PROVE  TypeInv'
<1> DEFINE state == [saved[d] EXCEPT !.revived = Extend(saved[d].revived, overlay[d])]
           next  == [NoRun EXCEPT !.step  = "started",
                                  !.at    = Clock(d),
                                  !.state = state,
                                  !.read  = state.read,
                                  !.drive = state.drive]
<1>1. TypeOK
  BY DEF TypeInv
<1>2. state \in SyncState /\ state.read = saved[d].read /\ state.drive = saved[d].drive
  BY <1>1, RunFields, ExtendType DEF SyncState
<1>3. Clock(d) \in Nat
  BY <1>1, SkewAssumption DEF TypeOK, Clock
<1>4. next \in RunOf
  <2>. HIDE DEF state
  <2>. QED BY <1>1, <1>2, <1>3, RunFields, NoRunType DEF RunOf, Steps
<1>5. run' = [run EXCEPT ![d] = next]
  BY DEF Start
<1>6. overlay' \in [Devices -> Times]
  BY <1>1, NewStateType DEF Start, TypeOK
<1>. QED
  <2>. HIDE DEF next
  <2>. QED BY <1>1, <1>4, <1>5, <1>6 DEF Start, TypeInv, TypeOK

LEMMA LookType ==
  ASSUME TypeInv, NEW d \in Devices, Look(d)
  PROVE  TypeInv'
<1> DEFINE new   == packs \ run[d].read
           bytes == {r \in Records : Held(WordOf(new), r)}
           next  == [run[d] EXCEPT !.step  = "read",
                                   !.read  = run[d].read \cup new,
                                   !.drive = Take(run[d].drive, WordOf(new)),
                                   !.bytes = bytes]
<1>1. TypeOK
  BY DEF TypeInv
<1>2. WordOf(new) \in Word /\ new \in SUBSET Word
  BY <1>1, PacksType DEF TypeOK
<1>3. /\ Take(run[d].drive, WordOf(new)) \in Word /\ run[d].read \cup new \in SUBSET Word
      /\ bytes \in SUBSET Records
  BY <1>1, <1>2, RunFields, TakeType
<1>4. next \in RunOf
  <2>. HIDE DEF new, bytes
  <2>. QED BY <1>1, <1>3, RunFields DEF RunOf, Steps
<1>5. run' = [run EXCEPT ![d] = next]
  BY <1>1 DEF Look, TypeOK
<1>6. UNCHANGED <<store, packs, saved, overlay, restored, now, byHand, mine, lost, faults>>
  BY DEF Look
<1>. QED
  <2>. HIDE DEF next
  <2>. QED BY <1>1, <1>4, <1>5, <1>6 DEF TypeInv, TypeOK

LEMMA ListType ==
  ASSUME TypeInv, NEW d \in Devices, List(d)
  PROVE  TypeInv'
<1> DEFINE next == [run[d] EXCEPT !.step = "listed", !.listed = Listed(d)]
<1>1. TypeOK
  BY DEF TypeInv
<1>2. next \in RunOf
  BY <1>1, RunFields DEF RunOf, Steps, Listed
<1>3. run' = [run EXCEPT ![d] = next]
  BY <1>1 DEF List, TypeOK
<1>. QED
  <2>. HIDE DEF next
  <2>. QED BY <1>1, <1>2, <1>3 DEF List, TypeInv, TypeOK

LEMMA GatherType ==
  ASSUME TypeInv, NEW d \in Devices, Gather(d)
  PROVE  TypeInv'
<1> DEFINE here == (run[d].plan.send \cup run[d].plan.sendBack) \cap Listed(d)
           next == [run[d] EXCEPT !.step = "gathered", !.here = here]
<1>1. TypeOK
  BY DEF TypeInv
<1>2. next \in RunOf
  BY <1>1, RunFields DEF RunOf, Steps, Listed
<1>3. run' = [run EXCEPT ![d] = next]
  BY <1>1 DEF Gather, TypeOK
<1>. QED
  <2>. HIDE DEF next
  <2>. QED BY <1>1, <1>2, <1>3 DEF Gather, TypeInv, TypeOK

LEMMA PlannedType ==
  ASSUME NEW d, NEW w, NEW listed \in SUBSET Records
  PROVE  Planned(d, w, listed) \in PlanOf
BY PlanType DEF Planned

LEMMA MakePlanType ==
  ASSUME TypeInv, NEW d \in Devices, MakePlan(d)
  PROVE  TypeInv'
<1> DEFINE plan  == Planned(d, run[d].drive, run[d].listed)
           again == Wanting(plan, run[d].bytes) /\ run[d].state.read # {}
           next  == [run[d] EXCEPT !.step = IF again THEN "again" ELSE "planned",
                                   !.plan = plan]
<1>1. TypeOK
  BY DEF TypeInv
<1>2. plan \in PlanOf
  BY <1>1, RunFields, PlannedType
<1>4. next \in RunOf
  <2>. HIDE DEF plan, again
  <2>. QED BY <1>1, <1>2, RunFields DEF RunOf, Steps
<1>5. run' = [run EXCEPT ![d] = next]
  BY <1>1 DEF MakePlan, TypeOK
<1>6. UNCHANGED <<store, packs, saved, overlay, restored, now, byHand, mine, lost, faults>>
  BY DEF MakePlan
<1>. QED
  <2>. HIDE DEF next
  <2>. QED BY <1>1, <1>4, <1>5, <1>6 DEF TypeInv, TypeOK

\* The end of a sync, however it came.
LEMMA EndType ==
  ASSUME TypeInv, NEW d \in Devices, End(d), faults' \in Nat
  PROVE  TypeInv'
<1>1. TypeOK
  BY DEF TypeInv
<1>2. [run[d].state EXCEPT !.revived = Extend(run[d].state.revived, overlay[d])] \in SyncState
  BY <1>1, RunFields, ExtendType DEF SyncState
<1>3. saved' \in [Devices -> SyncState]
  BY <1>1, <1>2 DEF End, TypeOK
<1>4. run' \in [Devices -> RunOf] /\ overlay' \in [Devices -> Times]
  BY <1>1, NoRunType, NewStateType DEF End, TypeOK
<1>. QED BY <1>1, <1>3, <1>4 DEF End, TypeInv, TypeOK

\* Reading every pack again asks that they be finitely many: those a sync
\* has read are packs of the drive.
LEMMA ReadAgainType ==
  ASSUME TypeInv, DriveView, NEW d \in Devices, ReadAgain(d)
  PROVE  TypeInv'
<1> DEFINE word == WordOf(run[d].read)
           bytes == {r \in Records : Held(word, r)}
           plan == Planned(d, word, run[d].listed)
           next == [run[d] EXCEPT !.step  = "planned",
                                  !.drive = word,
                                  !.bytes = bytes,
                                  !.plan  = plan]
<1>1. TypeOK
  BY DEF TypeInv
<1>2. word \in Word
  BY PacksType DEF DriveView, ViewOf
<1>3. plan \in PlanOf
  BY <1>1, RunFields, PlannedType
<1>4. next \in RunOf
  <2>1. bytes \in SUBSET Records
    OBVIOUS
  <2>. HIDE DEF plan, word, bytes
  <2>. QED BY <1>1, <1>2, <1>3, <2>1, RunFields DEF RunOf, Steps
<1>5. run' = [run EXCEPT ![d] = next]
  BY <1>1 DEF ReadAgain, TypeOK
<1>6. UNCHANGED <<store, packs, saved, overlay, restored, now, byHand, mine, lost, faults>>
  BY DEF ReadAgain
<1>. QED
  <2>. HIDE DEF next
  <2>. QED BY <1>1, <1>4, <1>5, <1>6 DEF TypeInv, TypeOK

LEMMA NotedType ==
  ASSUME TypeOK, NEW d \in Devices
  PROVE  Noted(d) \in SyncState
<1>1. Noted(d).applied \in Times /\ Noted(d).revived \in Times
  BY RunFields DEF Noted, Times, Word, Entry
<1>2. Noted(d) = [read |-> run[d].read, drive |-> run[d].drive,
                  applied |-> Noted(d).applied, revived |-> Noted(d).revived]
  BY DEF Noted
<1>. QED BY <1>1, <1>2, RunFields DEF SyncState

LEMMA ChangeType ==
  ASSUME TypeInv, NEW d \in Devices, Change(d)
  PROVE  TypeInv'
<1> DEFINE next == [NoRun EXCEPT !.step  = "sending",
                                 !.at    = run[d].at,
                                 !.state = Noted(d),
                                 !.plan  = Sends(d)]
<1>1. TypeOK
  BY DEF TypeInv
<1>2. Sends(d) \in PlanOf
  BY <1>1, RunFields, NoRunType DEF Sends, PlanOf
<1>3. next \in RunOf
  BY <1>1, <1>2, NotedType, RunFields, NoRunType DEF RunOf, Steps
<1>4. run' = [run EXCEPT ![d] = next]
  BY DEF Change
<1>5. run' \in [Devices -> RunOf]
  <2>. HIDE DEF next
  <2>. QED BY <1>1, <1>3, <1>4 DEF TypeOK
<1>6. /\ ChangeStore(d, Taken(d), Undone(d), run[d].plan.letGo, {})
      /\ UNCHANGED <<packs, saved, overlay, restored, now, lost, faults>>
  BY DEF Change
<1>7. /\ store' \in [Devices -> [Records -> Kinds]]
      /\ byHand' \in SUBSET Records
      /\ mine' \in [Devices -> [Records -> {"no", "untold", "told"}]]
  <2>1. {} \in SUBSET Records
    OBVIOUS
  <2>. QED BY <1>1, <1>6, <2>1, ChangeStoreType
<1>. QED BY <1>1, <1>5, <1>6, <1>7 DEF TypeInv, TypeOK, Kinds

LEMMA NextPackType ==
  ASSUME TypeOK, NEW d \in Devices, NEW put
  PROVE  NextPack(d, put) \in Word
BY RunFields DEF NextPack, Word, Entry, Times

LEMMA TellType ==
  ASSUME TypeOK, NEW d \in Devices, Tell(d)
  PROVE  mine' \in [Devices -> [Records -> {"no", "untold", "told"}]]
BY DEF TypeOK, Tell

LEMMA UnnotedType ==
  ASSUME TypeOK, NEW d \in Devices, NEW was, NEW left, Unnoted(d, was, left)
  PROVE  mine' \in [Devices -> [Records -> {"no", "untold", "told"}]]
BY DEF TypeOK, Unnoted

LEMMA SentType ==
  ASSUME TypeOK, NEW d \in Devices, NEW pack \in Word
  PROVE  Sent(d, pack) \in SyncState
<1>1. Sent(d, pack).revived \in Times
  BY RunFields DEF Sent, Times
<1>2. Sent(d, pack) = [read    |-> run[d].state.read \cup {pack},
                       drive   |-> Take(run[d].state.drive, pack),
                       applied |-> run[d].state.applied,
                       revived |-> Sent(d, pack).revived]
  BY DEF Sent
<1>. QED BY <1>1, <1>2, RunFields, TakeType DEF SyncState

LEMMA SendType ==
  ASSUME TypeInv, NEW d \in Devices, Send(d)
  PROVE  TypeInv'
<1>1. TypeOK
  BY DEF TypeInv
<1>2. PICK put :
        /\ packs' = packs \cup {NextPack(d, put)}
        /\ run' = [run EXCEPT ![d].state = Sent(d, NextPack(d, put)),
                              ![d].plan  = [NoPlan EXCEPT !.send = run[d].plan.send \ put]]
  BY DEF Send
<1> DEFINE pack == NextPack(d, put)
           plan == [NoPlan EXCEPT !.send = run[d].plan.send \ put]
           next == [run[d] EXCEPT !.state = Sent(d, pack), !.plan = plan]
<1>3. pack \in Word
  BY <1>1, NextPackType
<1>4. plan \in PlanOf
  BY <1>1, RunFields, NoRunType DEF PlanOf
<1>5. next \in RunOf
  <2>. HIDE DEF pack, plan
  <2>. QED BY <1>1, <1>3, <1>4, SentType, RunFields DEF RunOf
<1>6. run' = [run EXCEPT ![d] = next]
  BY <1>1, <1>2 DEF TypeOK
<1>7. run' \in [Devices -> RunOf]
  <2>. HIDE DEF next
  <2>. QED BY <1>1, <1>5, <1>6 DEF TypeOK
<1>8. packs' \in SUBSET Word /\ IsFiniteSet(packs')
  <2>1. packs \in SUBSET Word /\ IsFiniteSet(packs)
    BY DEF TypeInv, TypeOK
  <2>2. IsFiniteSet(packs \cup {pack})
    BY <2>1, FS_AddElement
  <2>. QED BY <1>2, <1>3, <2>1, <2>2
<1>9. Tell(d) /\ UNCHANGED <<store, saved, overlay, restored, now, byHand, lost, faults>>
  BY DEF Send
<1>. QED BY <1>1, <1>7, <1>8, <1>9, TellType DEF TypeInv, TypeOK

\* A run that only changes its step.
LEMMA StepType ==
  ASSUME TypeOK, NEW d \in Devices, NEW step \in Steps,
         run' = [run EXCEPT ![d].step = step]
  PROVE  run' \in [Devices -> RunOf]
<1>1. [run[d] EXCEPT !.step = step] \in RunOf
  BY RunFields DEF RunOf
<1>. QED BY <1>1 DEF TypeOK

LEMMA FaultType ==
  ASSUME TypeInv, NEW d \in Devices, Fault(d)
  PROVE  TypeInv'
<1>1. TypeOK
  BY DEF TypeInv
<1>2. "failing" \in Steps
  BY DEF Steps
<1>3. ASSUME NEW kind, MayFault(kind) PROVE faults' \in Nat
  BY <1>1, <1>3 DEF TypeOK, MayFault
<1>4. CASE \E r \in Records : Lose(d, r)
  BY <1>1, <1>3, <1>4 DEF Lose, TypeInv, TypeOK
<1>5. CASE ChangeFails(d)
  <2>1. PICK undone \in SUBSET Undone(d), put \in SUBSET Taken(d) :
          /\ store' = [store EXCEPT ![d] = Made(store[d], put, undone, {})]
          /\ lost' = [lost EXCEPT ![d] = lost[d] \cup {r \in undone : store'[d][r] = "none"}]
    BY <1>5 DEF ChangeFails
  <2>2. Made(store[d], put, undone, {}) \in [Records -> Kinds]
    BY <1>1, MadeType DEF TypeOK, Kinds
  <2>3. Undone(d) \in SUBSET Records
    BY <1>1, RunFields DEF Undone
  <2>4. lost' \in [Devices -> SUBSET Records]
    BY <1>1, <2>1, <2>3 DEF TypeOK
  <2>5. store' \in [Devices -> [Records -> Kinds]]
    BY <1>1, <2>1, <2>2 DEF TypeOK, Kinds
  <2>6. /\ run' = [run EXCEPT ![d].step = "failing"]
        /\ MayFault("fail")
        /\ UNCHANGED <<packs, saved, overlay, restored, now, byHand, mine>>
    BY <1>5 DEF ChangeFails
  <2>. QED BY <1>1, <1>2, <1>3, <2>4, <2>5, <2>6, StepType DEF TypeInv, TypeOK, Kinds
<1>6. CASE AnswerLost(d)
  <2>1. PICK put : packs' = packs \cup {NextPack(d, put)}
    BY <1>6 DEF AnswerLost
  <2>2. packs' \in SUBSET Word /\ IsFiniteSet(packs')
    <3>1. NextPack(d, put) \in Word
      BY <1>1, NextPackType
    <3>2. packs \in SUBSET Word /\ IsFiniteSet(packs)
      BY DEF TypeInv, TypeOK
    <3>3. IsFiniteSet(packs \cup {NextPack(d, put)})
      BY <3>2, FS_AddElement
    <3>. QED BY <2>1, <3>1, <3>2, <3>3
  <2>3. run' \in [Devices -> RunOf]
    BY <1>1, <1>2, <1>6, StepType DEF AnswerLost
  <2>4. faults' \in Nat
    BY <1>3, <1>6 DEF AnswerLost
  <2>5. mine' \in [Devices -> [Records -> {"no", "untold", "told"}]]
    BY <1>1, <1>6, TellType DEF AnswerLost
  <2>6. UNCHANGED <<store, saved, overlay, restored, now, byHand, lost>>
    BY <1>6 DEF AnswerLost
  <2>. QED BY <1>1, <2>2, <2>3, <2>4, <2>5, <2>6 DEF TypeInv, TypeOK
<1>7. CASE Fail(d)
  BY <1>1, <1>2, <1>3, <1>7, StepType DEF Fail, TypeInv, TypeOK
<1>8. CASE Crash(d)
  <2>1. /\ run' \in [Devices -> RunOf] /\ overlay' \in [Devices -> Times]
        /\ restored' \in [Devices -> SUBSET Fills]
    BY <1>1, <1>8, NoRunType, NewStateType DEF Crash, TypeOK
  <2>2. mine' \in [Devices -> [Records -> {"no", "untold", "told"}]]
    BY <1>1, <1>8, UnnotedType DEF Crash
  <2>. QED BY <1>1, <1>3, <1>8, <2>1, <2>2 DEF Crash, TypeInv, TypeOK
<1>9. CASE Rejoin(d)
  <2>1. saved' \in [Devices -> SyncState]
    BY <1>1, <1>9, NewStateType DEF Rejoin, TypeOK
  <2>2. mine' \in [Devices -> [Records -> {"no", "untold", "told"}]]
    BY <1>1, <1>9, UnnotedType DEF Rejoin
  <2>. QED BY <1>1, <1>3, <1>9, <2>1, <2>2 DEF Rejoin, TypeInv, TypeOK
<1>. QED BY <1>4, <1>5, <1>6, <1>7, <1>8, <1>9 DEF Fault

\* Every step keeps the types.
LEMMA NextType ==
  ASSUME TypeInv, DriveView, [Next]_vars
  PROVE  TypeInv'
<1>1. CASE Tick
  BY <1>1 DEF Tick, TypeInv, TypeOK
<1>2. ASSUME NEW d \in Devices, Sync(d) PROVE TypeInv'
  <2>1. CASE Start(d) \/ Look(d) \/ List(d)
    BY <2>1, StartType, LookType, ListType
  <2>2. CASE MakePlan(d)
    BY <2>2, MakePlanType
  <2>3. CASE ReadAgain(d)
    BY <2>3, ReadAgainType
  <2>4. CASE Gather(d)
    BY <2>4, GatherType
  <2>5. CASE Change(d)
    BY <2>5, ChangeType
  <2>6. CASE Send(d)
    BY <2>6, SendType
  <2>7. CASE EndWell(d)
    BY <2>7, EndType DEF EndWell, TypeInv, TypeOK
  <2>8. CASE EndFailing(d)
    BY <2>8, EndType DEF EndFailing, TypeInv, TypeOK
  <2>. QED BY <1>2, <2>1, <2>2, <2>3, <2>4, <2>5, <2>6, <2>7, <2>8 DEF Sync
<1>3. CASE UNCHANGED vars
  BY <1>3 DEF vars, TypeInv, TypeOK
<1>. QED BY <1>1, <1>2, <1>3, FaultType, LearnerType DEF Next

-----------------------------------------------------------------------------
(***************************************************************************)
(* What the steps leave alone.                                             *)
(***************************************************************************)

\* A step of one device leaves the runs and the states of the others, and
\* takes no pack from the drive.
LEMMA OwnStep ==
  ASSUME TypeOK, NEW d \in Devices, Sync(d) \/ Fault(d) \/ Learner(d)
  PROVE  /\ packs \subseteq packs'
         /\ \A e \in Devices \ {d} : run'[e] = run[e] /\ saved'[e] = saved[e]
<1>1. CASE Sync(d)
  <2>1. CASE Start(d) \/ Look(d) \/ List(d) \/ Gather(d)
    BY <2>1 DEF Start, Look, List, Gather, TypeOK
  <2>2. CASE MakePlan(d)
    BY <2>2 DEF MakePlan, TypeOK
  <2>3. CASE ReadAgain(d)
    BY <2>3 DEF ReadAgain, TypeOK
  <2>4. CASE Change(d)
    BY <2>4 DEF Change, TypeOK
  <2>5. CASE Send(d)
    BY <2>5 DEF Send, TypeOK
  <2>6. CASE EndWell(d) \/ EndFailing(d)
    BY <2>6 DEF EndWell, EndFailing, End, TypeOK
  <2>. QED BY <1>1, <2>1, <2>2, <2>3, <2>4, <2>5, <2>6 DEF Sync
<1>2. CASE Fault(d)
  <2>1. CASE \E r \in Records : Lose(d, r)
    BY <2>1 DEF Lose
  <2>2. CASE ChangeFails(d)
    BY <2>2 DEF ChangeFails, TypeOK
  <2>3. CASE AnswerLost(d)
    BY <2>3 DEF AnswerLost, TypeOK
  <2>4. CASE Fail(d)
    BY <2>4 DEF Fail, TypeOK
  <2>5. CASE Crash(d)
    BY <2>5 DEF Crash, TypeOK
  <2>6. CASE Rejoin(d)
    BY <2>6 DEF Rejoin, TypeOK
  <2>. QED BY <1>2, <2>1, <2>2, <2>3, <2>4, <2>5, <2>6 DEF Fault
<1>3. CASE Learner(d)
  <2>1. ASSUME NEW ids, Revived(d, ids)
        PROVE  \A e \in Devices \ {d} : saved'[e] = saved[e]
    BY <2>1 DEF Revived, TypeOK
  <2>2. CASE \E r \in Records : Finish(d, r) \/ Delete(d, r)
    BY <2>2 DEF Finish, Delete
  <2>3. CASE \E r \in Records : PutBack(d, r)
    BY <2>1, <2>3 DEF PutBack
  <2>4. CASE \E was, fill \in Records : FillIn(d, was, fill)
    BY <2>1, <2>4 DEF FillIn
  <2>5. CASE UndoRestore(d)
    BY <2>5 DEF UndoRestore
  <2>. QED BY <1>3, <2>2, <2>3, <2>4, <2>5 DEF Learner
<1>. QED BY <1>1, <1>2, <1>3

\* What the learner does leaves the runs, and what each device has read.
LEMMA LearnerLeaves ==
  ASSUME TypeOK, NEW d \in Devices, Learner(d)
  PROVE  /\ UNCHANGED <<packs, run, lost>>
         /\ \A e \in Devices : saved'[e].read = saved[e].read /\ saved'[e].drive = saved[e].drive
<1>1. ASSUME NEW ids, Revived(d, ids)
      PROVE  \A e \in Devices : saved'[e].read = saved[e].read
                             /\ saved'[e].drive = saved[e].drive
  <2>1. /\ saved'[d].read = saved[d].read /\ saved'[d].drive = saved[d].drive
        /\ \A e \in Devices \ {d} : saved'[e] = saved[e]
    BY <1>1, RunFields DEF Revived, TypeOK, SyncState
  <2>. QED BY <2>1
<1>2. CASE \E r \in Records : Finish(d, r) \/ Delete(d, r)
  BY <1>2 DEF Finish, Delete
<1>3. CASE \E r \in Records : PutBack(d, r)
  BY <1>1, <1>3 DEF PutBack
<1>4. CASE \E was, fill \in Records : FillIn(d, was, fill)
  BY <1>1, <1>4 DEF FillIn
<1>5. CASE UndoRestore(d)
  BY <1>5 DEF UndoRestore
<1>. QED BY <1>2, <1>3, <1>4, <1>5 DEF Learner

\* Whatever the learner does is one change of the store by hand.
LEMMA LearnerChanges ==
  ASSUME TypeOK, NEW d \in Devices, Learner(d)
  PROVE  \E put, forget \in SUBSET Records : HandChange(d, put, forget)
<1>1. CASE \E r \in Records : Finish(d, r) \/ Delete(d, r) \/ PutBack(d, r)
  BY <1>1 DEF Finish, Delete, PutBack
<1>2. CASE \E was, fill \in Records : FillIn(d, was, fill)
  BY <1>2 DEF FillIn
<1>3. CASE UndoRestore(d)
  <2> DEFINE here == {fill \in restored[d] : fill[2] \in Listed(d)}
             was  == {fill[1] : fill \in here}
             gone == {fill[2] : fill \in here}
  <2>1. was \in SUBSET Records /\ gone \in SUBSET Records
    BY FillsAssumption DEF TypeOK
  <2>2. HandChange(d, was, gone)
    BY <1>3 DEF UndoRestore
  <2>. QED BY <2>1, <2>2
<1>. QED BY <1>1, <1>2, <1>3 DEF Learner

-----------------------------------------------------------------------------
(***************************************************************************)
(* DriveView: what a device keeps of the drive is the word of the packs it *)
(* notes as read.                                                          *)
(***************************************************************************)

\* A device that has read nothing knows nothing.
LEMMA NewView ==
  /\ NewState.read = {} /\ NewState.drive = WordOf({})
  /\ NoRun.read = {} /\ NoRun.drive = WordOf({}) /\ NoRun.state = NewState
  /\ ViewOf(NewState) /\ ViewOf(NoRun) /\ ViewOf(NoRun.state)
  /\ ViewOf(NewState)' /\ ViewOf(NoRun)' /\ ViewOf(NoRun.state)'
<1>1. NewState.read = {} /\ NewState.drive = WordOf({})
  BY WordOfNone DEF NewState
<1>2. NoRun.read = {} /\ NoRun.drive = WordOf({}) /\ NoRun.state = NewState
  BY WordOfNone DEF NoRun
<1>. QED BY <1>1, <1>2 DEF ViewOf

\* A step that leaves what the devices other than d hold, and takes no pack
\* from the drive, is right if what d holds after it is.
LEMMA ViewStep ==
  ASSUME TypeOK, DriveView, NEW d \in Devices, packs \subseteq packs',
         \A e \in Devices \ {d} : run'[e] = run[e] /\ saved'[e] = saved[e],
         saved'[d].read \subseteq packs', saved'[d].drive = WordOf(saved'[d].read),
         run'[d].read \subseteq packs', run'[d].drive = WordOf(run'[d].read),
         run'[d].state.read \subseteq packs',
         run'[d].state.drive = WordOf(run'[d].state.read)
  PROVE  DriveView'
<1>1. ASSUME NEW e \in Devices \ {d}
      PROVE  ViewOf(saved[e])' /\ ViewOf(run[e])' /\ ViewOf(run[e].state)'
  BY DEF DriveView, ViewOf
<1>2. ViewOf(saved[d])' /\ ViewOf(run[d])' /\ ViewOf(run[d].state)'
  BY DEF ViewOf
<1>. QED BY <1>1, <1>2 DEF DriveView

\* A step that only changes the step, the plan or the bytes of a run.
LEMMA ViewFrame ==
  ASSUME TypeOK, DriveView, NEW d \in Devices, packs \subseteq packs',
         \A e \in Devices \ {d} : run'[e] = run[e] /\ saved'[e] = saved[e],
         saved'[d].read = saved[d].read, saved'[d].drive = saved[d].drive,
         run'[d].read = run[d].read, run'[d].drive = run[d].drive,
         run'[d].state = run[d].state
  PROVE  DriveView'
<1>1. ViewOf(saved[d]) /\ ViewOf(run[d]) /\ ViewOf(run[d].state)
  BY DEF DriveView
<1>. QED BY <1>1, ViewStep DEF ViewOf

LEMMA StartView ==
  ASSUME TypeInv, DriveView, NEW d \in Devices, Start(d)
  PROVE  DriveView'
<1>1. TypeOK
  BY DEF TypeInv
<1>2. PICK state :
        /\ state.read = saved[d].read /\ state.drive = saved[d].drive
        /\ run' = [run EXCEPT ![d] = [NoRun EXCEPT !.step  = "started",
                                                  !.at    = Clock(d),
                                                  !.state = state,
                                                  !.read  = state.read,
                                                  !.drive = state.drive]]
  BY <1>1, RunFields DEF Start, SyncState
<1>3. /\ run'[d].read = saved[d].read /\ run'[d].drive = saved[d].drive
      /\ run'[d].state.read = saved[d].read /\ run'[d].state.drive = saved[d].drive
      /\ \A e \in Devices \ {d} : run'[e] = run[e]
  BY <1>1, <1>2 DEF TypeOK, NoRun
<1>4. ViewOf(saved[d])
  BY DEF DriveView
<1>5. saved' = saved /\ packs' = packs
  BY DEF Start
<1>. QED BY <1>1, <1>3, <1>4, <1>5, ViewStep DEF ViewOf

LEMMA LookView ==
  ASSUME TypeInv, DriveView, NEW d \in Devices, Look(d)
  PROVE  DriveView'
<1> DEFINE new == packs \ run[d].read
<1>1. TypeOK
  BY DEF TypeInv
<1>2. ViewOf(saved[d]) /\ ViewOf(run[d]) /\ ViewOf(run[d].state)
  BY DEF DriveView
<1>3. /\ run'[d].read = run[d].read \cup new
      /\ run'[d].drive = Take(run[d].drive, WordOf(new))
      /\ run'[d].state = run[d].state
      /\ \A e \in Devices \ {d} : run'[e] = run[e]
  BY <1>1, RunFields DEF Look, TypeOK, RunOf
<1>4. Take(run[d].drive, WordOf(new)) = WordOf(run[d].read \cup new)
  <2>1. /\ IsFiniteSet(run[d].read) /\ run[d].read \in SUBSET Word
        /\ IsFiniteSet(new) /\ new \in SUBSET Word
    BY <1>1, <1>2, PacksType DEF TypeOK, ViewOf
  <2>. HIDE DEF new
  <2>. QED BY <1>2, <2>1, WordOfUnion DEF ViewOf
<1>5. saved' = saved /\ packs' = packs
  BY DEF Look
<1>. QED BY <1>1, <1>2, <1>3, <1>4, <1>5, ViewStep DEF ViewOf

\* Steps that ask the store, and plan.
LEMMA PlanningView ==
  ASSUME TypeInv, DriveView, NEW d \in Devices, List(d) \/ MakePlan(d) \/ Gather(d)
  PROVE  DriveView'
<1>1. TypeOK
  BY DEF TypeInv
<1>2. /\ run'[d].read = run[d].read /\ run'[d].drive = run[d].drive
      /\ run'[d].state = run[d].state
      /\ \A e \in Devices \ {d} : run'[e] = run[e]
  <2>1. CASE List(d)
    BY <1>1, <2>1, RunFields DEF List, TypeOK, RunOf
  <2>2. CASE MakePlan(d)
    BY <1>1, <2>2, RunFields DEF MakePlan, TypeOK, RunOf
  <2>3. CASE Gather(d)
    BY <1>1, <2>3, RunFields DEF Gather, TypeOK, RunOf
  <2>. QED BY <2>1, <2>2, <2>3
<1>3. packs' = packs /\ saved' = saved
  BY DEF List, MakePlan, Gather
<1>. QED BY <1>1, <1>2, <1>3, ViewFrame

LEMMA ReadAgainView ==
  ASSUME TypeInv, DriveView, NEW d \in Devices, ReadAgain(d)
  PROVE  DriveView'
<1>1. TypeOK
  BY DEF TypeInv
<1>2. /\ ViewOf(run[d]) /\ ViewOf(saved[d]) /\ ViewOf(run[d].state)
  BY DEF DriveView
<1>3. /\ run'[d].read = run[d].read /\ run'[d].drive = WordOf(run[d].read)
      /\ run'[d].state = run[d].state
      /\ \A e \in Devices \ {d} : run'[e] = run[e]
  BY <1>1, RunFields DEF ReadAgain, TypeOK, RunOf
<1>4. saved' = saved /\ packs' = packs
  BY DEF ReadAgain
<1>. QED BY <1>1, <1>2, <1>3, <1>4, ViewStep DEF ViewOf

LEMMA ChangeView ==
  ASSUME TypeInv, DriveView, NEW d \in Devices, Change(d)
  PROVE  DriveView'
<1>1. TypeOK
  BY DEF TypeInv
<1>2. /\ ViewOf(run[d]) /\ ViewOf(saved[d])
  BY DEF DriveView
<1>3. run' = [run EXCEPT ![d] = [NoRun EXCEPT !.step = "sending", !.at = run[d].at,
                                              !.state = Noted(d), !.plan = Sends(d)]]
  BY DEF Change
<1>4. /\ run'[d].read = {} /\ run'[d].drive = WordOf({})
      /\ run'[d].state.read = run[d].read /\ run'[d].state.drive = run[d].drive
      /\ \A e \in Devices \ {d} : run'[e] = run[e]
  BY <1>1, <1>3, WordOfNone DEF TypeOK, NoRun, Noted
<1>5. saved' = saved /\ packs' = packs
  BY DEF Change
<1>. QED BY <1>1, <1>2, <1>4, <1>5, ViewStep DEF ViewOf

LEMMA SendView ==
  ASSUME TypeInv, DriveView, NEW d \in Devices, Send(d)
  PROVE  DriveView'
<1>1. TypeOK
  BY DEF TypeInv
<1>2. /\ ViewOf(run[d]) /\ ViewOf(saved[d]) /\ ViewOf(run[d].state)
  BY DEF DriveView
<1>3. PICK pack, plan :
        /\ pack \in Word
        /\ packs' = packs \cup {pack}
        /\ run' = [run EXCEPT ![d].state = Sent(d, pack), ![d].plan = plan]
  BY <1>1, NextPackType DEF Send
<1>4. /\ run'[d].read = run[d].read /\ run'[d].drive = run[d].drive
      /\ run'[d].state.read = run[d].state.read \cup {pack}
      /\ run'[d].state.drive = Take(run[d].state.drive, pack)
      /\ \A e \in Devices \ {d} : run'[e] = run[e]
  BY <1>1, <1>3, RunFields DEF TypeOK, RunOf, Sent
<1>5. Take(run[d].state.drive, pack) = WordOf(run[d].state.read \cup {pack})
  <2>1. IsFiniteSet(run[d].state.read) /\ run[d].state.read \in SUBSET Word
    BY <1>1, <1>2, PacksType, RunFields DEF ViewOf
  <2>2. IsFiniteSet({pack}) /\ WordOf({pack}) = pack
    BY <1>3, FS_Singleton, WordOfOne
  <2>. QED BY <1>2, <1>3, <2>1, <2>2, WordOfUnion DEF ViewOf
<1>6. saved' = saved
  BY DEF Send
<1>. QED BY <1>1, <1>2, <1>3, <1>4, <1>5, <1>6, ViewStep DEF ViewOf

LEMMA EndView ==
  ASSUME TypeInv, DriveView, NEW d \in Devices, End(d)
  PROVE  DriveView'
<1>1. TypeOK
  BY DEF TypeInv
<1>2. ViewOf(run[d].state)
  BY DEF DriveView
<1>3. /\ saved'[d].read = run[d].state.read /\ saved'[d].drive = run[d].state.drive
      /\ run'[d] = NoRun
      /\ \A e \in Devices \ {d} : run'[e] = run[e] /\ saved'[e] = saved[e]
  BY <1>1, RunFields DEF End, TypeOK, SyncState
<1>4. packs' = packs
  BY DEF End
<1>. QED BY <1>1, <1>2, <1>3, <1>4, NewView, ViewStep DEF ViewOf

LEMMA LearnerView ==
  ASSUME TypeInv, DriveView, NEW d \in Devices, Learner(d)
  PROVE  DriveView'
<1>1. TypeOK
  BY DEF TypeInv
<1>2. packs' = packs /\ run' = run
  BY <1>1, LearnerLeaves
<1>3. /\ saved'[d].read = saved[d].read /\ saved'[d].drive = saved[d].drive
      /\ \A e \in Devices \ {d} : saved'[e] = saved[e]
  BY <1>1, LearnerLeaves, OwnStep
<1>. QED BY <1>1, <1>2, <1>3, ViewFrame

LEMMA FaultView ==
  ASSUME TypeInv, DriveView, NEW d \in Devices, Fault(d)
  PROVE  DriveView'
<1>1. TypeOK
  BY DEF TypeInv
<1>2. ASSUME NEW step, run' = [run EXCEPT ![d].step = step],
             packs \subseteq packs', saved' = saved
      PROVE  DriveView'
  <2>1. /\ run'[d].read = run[d].read /\ run'[d].drive = run[d].drive
        /\ run'[d].state = run[d].state
        /\ \A e \in Devices \ {d} : run'[e] = run[e]
    BY <1>1, <1>2, RunFields DEF TypeOK, RunOf
  <2>. QED BY <1>1, <1>2, <2>1, ViewFrame
<1>3. CASE \E r \in Records : Lose(d, r)
  BY <1>1, <1>3, ViewFrame DEF Lose
<1>4. CASE ChangeFails(d)
  BY <1>2, <1>4 DEF ChangeFails
<1>5. CASE AnswerLost(d)
  BY <1>2, <1>5 DEF AnswerLost
<1>6. CASE Fail(d)
  BY <1>2, <1>6 DEF Fail
<1>7. CASE Crash(d)
  <2>1. /\ run'[d] = NoRun /\ saved' = saved /\ packs' = packs
        /\ \A e \in Devices \ {d} : run'[e] = run[e]
    BY <1>1, <1>7 DEF Crash, TypeOK
  <2>. QED BY <1>1, <2>1, NewView, ViewStep DEF DriveView, ViewOf
<1>8. CASE Rejoin(d)
  <2>1. /\ saved'[d] = NewState /\ run' = run /\ packs' = packs
        /\ \A e \in Devices \ {d} : saved'[e] = saved[e]
    BY <1>1, <1>8 DEF Rejoin, TypeOK
  <2>. QED BY <1>1, <2>1, NewView, ViewStep DEF DriveView, ViewOf
<1>. QED BY <1>3, <1>4, <1>5, <1>6, <1>7, <1>8 DEF Fault

LEMMA NextView ==
  ASSUME TypeInv, DriveView, [Next]_vars
  PROVE  DriveView'
<1>1. CASE Tick
  BY <1>1 DEF Tick, DriveView, ViewOf
<1>2. ASSUME NEW d \in Devices, Sync(d) PROVE DriveView'
  <2>1. CASE Start(d) \/ Look(d)
    BY <2>1, StartView, LookView
  <2>2. CASE List(d) \/ MakePlan(d) \/ Gather(d)
    BY <2>2, PlanningView
  <2>3. CASE ReadAgain(d)
    BY <2>3, ReadAgainView
  <2>4. CASE Change(d)
    BY <2>4, ChangeView
  <2>5. CASE Send(d)
    BY <2>5, SendView
  <2>6. CASE EndWell(d) \/ EndFailing(d)
    BY <2>6, EndView DEF EndWell, EndFailing
  <2>. QED BY <1>2, <2>1, <2>2, <2>3, <2>4, <2>5, <2>6 DEF Sync
<1>3. CASE UNCHANGED vars
  BY <1>3 DEF vars, DriveView, ViewOf
<1>. QED BY <1>1, <1>2, <1>3, FaultView, LearnerView DEF Next

LEMMA InitView == Init => DriveView
BY NewView DEF Init, DriveView

\* Every variable keeps its type.
THEOREM TypeCorrect == Spec => []TypeOK
<1>1. Init => TypeInv /\ DriveView
  BY InitType, InitView
<1>2. TypeInv /\ DriveView /\ [Next]_vars => (TypeInv /\ DriveView)'
  BY NextType, NextView
<1>3. TypeInv => TypeOK
  BY DEF TypeInv
<1>. QED BY <1>1, <1>2, <1>3, PTL DEF Spec

\* Whatever fails, and wherever, what a device keeps of the drive is what
\* the packs it notes as read say, put together (run.rs, sync_once; state.rs).
THEOREM DriveViewCorrect == Spec => []DriveView
<1>1. Init => TypeInv /\ DriveView
  BY InitType, InitView
<1>2. TypeInv /\ DriveView /\ [Next]_vars => (TypeInv /\ DriveView)'
  BY NextType, NextView
<1>. QED BY <1>1, <1>2, PTL DEF Spec

-----------------------------------------------------------------------------
(***************************************************************************)
(* MissingIsNeverDeleted: no record is deleted that nobody deleted by      *)
(* hand.  What a sync is about to delete is part of the invariant: what it *)
(* lets go, a pack has deleted; what it tells of, its store has.           *)
(***************************************************************************)

DeletedByHand ==
  /\ \A d \in Devices : Forgotten(d) \subseteq byHand
  /\ \A p \in packs, r \in Records : p[r].tomb > 0 => r \in byHand
  /\ \A d \in Devices : run[d].plan.sendDeleted \cup run[d].plan.letGo \subseteq byHand

\* A word of packs has a deletion only if one of them does.
LEMMA WordDeletes ==
  ASSUME NEW P \in SUBSET Word, IsFiniteSet(P), NEW r \in Records, WordOf(P)[r].tomb > 0
  PROVE  \E p \in P : p[r].tomb > 0
<1>1. WordOf(P)[r].tomb = Latest({p[r].tomb : p \in P})
  BY DEF WordOf
<1>2. Latest({p[r].tomb : p \in P}) \in {p[r].tomb : p \in P} \cup {0}
  BY TimesFinite, LatestIs
<1>. QED BY <1>1, <1>2

\* What a plan lets go, the drive deleted, and what it tells of as deleted,
\* the store did.
LEMMA PlanDeletes ==
  ASSUME TypeInv, DeletedByHand, NEW d \in Devices,
         NEW P \in SUBSET packs, NEW listed \in SUBSET Records
  PROVE  /\ Planned(d, WordOf(P), listed).sendDeleted \subseteq byHand
         /\ Planned(d, WordOf(P), listed).letGo \subseteq byHand
<1>1. ASSUME NEW r \in Records, Deleted(WordOf(P), r) PROVE r \in byHand
  <2>1. WordOf(P) \in Word /\ P \in SUBSET Word /\ IsFiniteSet(P)
    BY PacksType DEF TypeInv, TypeOK
  <2>2. WordOf(P)[r].tomb > 0
    BY <1>1, <2>1 DEF Deleted, Word, Entry
  <2>. QED BY <2>1, <2>2, WordDeletes DEF DeletedByHand
<1>. DEFINE plan == Planned(d, WordOf(P), listed)
<1>2. plan.sendDeleted \subseteq Forgotten(d)
  BY DEF Planned, Plan
<1>3. \A r \in plan.letGo : r \in Records /\ Deleted(WordOf(P), r)
  BY DEF Planned, Plan
<1>. QED BY <1>1, <1>2, <1>3 DEF DeletedByHand

LEMMA MadeDeletes ==
  ASSUME NEW here \in [Records -> Kinds], NEW put, NEW unforget, NEW forget, NEW r \in Records,
         Made(here, put, unforget, forget)[r] = "forgotten"
  PROVE  here[r] = "forgotten" \/ r \in forget
BY DEF Made, Kinds

LEMMA ChangeStoreDeletes ==
  ASSUME TypeOK, DeletedByHand, NEW d \in Devices, NEW put, NEW unforget,
         NEW forget, NEW own \in SUBSET forget, forget \cap Records \subseteq byHand \cup own,
         ChangeStore(d, put, unforget, forget, own)
  PROVE  /\ \A e \in Devices : Forgotten(e)' \subseteq byHand'
         /\ byHand \subseteq byHand'
<1>1. byHand' = byHand \cup own
  BY DEF ChangeStore
<1>2. store' = [store EXCEPT ![d] = Made(store[d], put, unforget, forget)]
  BY DEF ChangeStore
<1>3. ASSUME NEW e \in Devices, NEW r \in Records, store'[e][r] = "forgotten"
      PROVE  r \in byHand'
  <2>1. store[e][r] = "forgotten" \/ r \in forget
    BY <1>2, <1>3, MadeDeletes DEF TypeOK, Kinds
  <2>. QED BY <1>1, <2>1 DEF DeletedByHand, Forgotten
<1>. QED BY <1>1, <1>3 DEF Forgotten

LEMMA LearnerDeletes ==
  ASSUME TypeInv, DeletedByHand, NEW d \in Devices, Learner(d)
  PROVE  DeletedByHand'
<1>1. TypeOK
  BY DEF TypeInv
<1>2. packs' = packs /\ run' = run
  BY <1>1, LearnerLeaves
<1>3. PICK put \in SUBSET Records, forget \in SUBSET Records : HandChange(d, put, forget)
  BY <1>1, LearnerChanges
<1>4. /\ \A e \in Devices : Forgotten(e)' \subseteq byHand'
      /\ byHand \subseteq byHand'
  BY <1>1, <1>3, ChangeStoreDeletes DEF HandChange
<1>. QED BY <1>2, <1>4 DEF DeletedByHand

\* The packs of a sync delete only what it set out to tell of.
LEMMA NextPackDeletes ==
  ASSUME DeletedByHand, NEW d \in Devices, NEW put, NEW r \in Records,
         NextPack(d, put)[r].tomb > 0
  PROVE  r \in byHand
<1>1. r \in run[d].plan.sendDeleted
  BY DEF NextPack
<1>. QED BY <1>1 DEF DeletedByHand

LEMMA SyncDeletes ==
  ASSUME TypeInv, DriveView, DeletedByHand, NEW d \in Devices, Sync(d)
  PROVE  DeletedByHand'
<1>1. TypeOK
  BY DEF TypeInv
<1>2. ASSUME NEW plan, plan.sendDeleted \cup plan.letGo \subseteq byHand,
             run'[d].plan = plan, \A e \in Devices \ {d} : run'[e] = run[e],
             UNCHANGED <<store, packs, byHand>>
      PROVE  DeletedByHand'
  BY <1>2 DEF DeletedByHand, Forgotten
<1>3. CASE Start(d)
  <2>1. run'[d].plan = NoPlan /\ \A e \in Devices \ {d} : run'[e] = run[e]
    BY <1>1, <1>3 DEF Start, TypeOK, NoRun
  <2>2. NoPlan.sendDeleted \cup NoPlan.letGo \subseteq byHand
    BY DEF NoPlan
  <2>. QED BY <1>2, <1>3, <2>1, <2>2 DEF Start
<1>9. CASE Look(d) \/ List(d) \/ Gather(d)
  <2>1. run'[d].plan = run[d].plan /\ \A e \in Devices \ {d} : run'[e] = run[e]
    <3>1. CASE Look(d)
      BY <1>1, <3>1, RunFields DEF Look, TypeOK, RunOf
    <3>2. CASE List(d)
      BY <1>1, <3>2, RunFields DEF List, TypeOK, RunOf
    <3>3. CASE Gather(d)
      BY <1>1, <3>3, RunFields DEF Gather, TypeOK, RunOf
    <3>. QED BY <1>9, <3>1, <3>2, <3>3
  <2>2. run[d].plan.sendDeleted \cup run[d].plan.letGo \subseteq byHand
    BY DEF DeletedByHand
  <2>. QED BY <1>2, <1>9, <2>1, <2>2 DEF Look, List, Gather
<1>4. CASE MakePlan(d)
  <2> DEFINE plan == Planned(d, WordOf(run[d].read), run[d].listed)
  <2>1. run[d].read \subseteq packs /\ run[d].drive = WordOf(run[d].read)
    BY DEF DriveView, ViewOf
  <2>2. run'[d].plan = plan /\ \A e \in Devices \ {d} : run'[e] = run[e]
    BY <1>1, <1>4, <2>1, RunFields DEF MakePlan, TypeOK, RunOf
  <2>3. plan.sendDeleted \cup plan.letGo \subseteq byHand
    BY <1>1, <2>1, PlanDeletes, RunFields
  <2>. QED BY <1>2, <1>4, <2>2, <2>3 DEF MakePlan
<1>5. CASE ReadAgain(d)
  <2> DEFINE plan == Planned(d, WordOf(run[d].read), run[d].listed)
  <2>1. run[d].read \subseteq packs
    BY DEF DriveView, ViewOf
  <2>2. run'[d].plan = plan /\ \A e \in Devices \ {d} : run'[e] = run[e]
    BY <1>1, <1>5, RunFields DEF ReadAgain, TypeOK, RunOf
  <2>3. plan.sendDeleted \cup plan.letGo \subseteq byHand
    BY <1>1, <2>1, PlanDeletes, RunFields
  <2>. QED BY <1>2, <1>5, <2>2, <2>3 DEF ReadAgain
<1>6. CASE Change(d)
  <2>1. run[d].plan.sendDeleted \cup run[d].plan.letGo \subseteq byHand
    BY DEF DeletedByHand
  <2>2. run' = [run EXCEPT ![d] = [NoRun EXCEPT !.step = "sending", !.at = run[d].at,
                                                !.state = Noted(d), !.plan = Sends(d)]]
    BY <1>6 DEF Change
  <2>3. /\ run'[d].plan.sendDeleted = run[d].plan.sendDeleted
        /\ run'[d].plan.letGo = {}
        /\ \A e \in Devices \ {d} : run'[e] = run[e]
    BY <1>1, <2>2 DEF TypeOK, NoRun, NoPlan, Sends
  <2>4. ChangeStore(d, Taken(d), Undone(d), run[d].plan.letGo, {}) /\ packs' = packs
    BY <1>6 DEF Change
  <2>5. /\ \A e \in Devices : Forgotten(e)' \subseteq byHand'
        /\ byHand \subseteq byHand'
    BY <1>1, <2>1, <2>4, ChangeStoreDeletes
  <2>. QED BY <2>1, <2>3, <2>4, <2>5 DEF DeletedByHand
<1>7. CASE Send(d)
  <2>1. PICK put, state, send :
          /\ packs' = packs \cup {NextPack(d, put)}
          /\ run' = [run EXCEPT ![d].state = state, ![d].plan = [NoPlan EXCEPT !.send = send]]
    BY <1>7 DEF Send
  <2>2. /\ run'[d].plan.sendDeleted = {} /\ run'[d].plan.letGo = {}
        /\ \A e \in Devices \ {d} : run'[e] = run[e]
    BY <1>1, <2>1, RunFields DEF TypeOK, RunOf, NoPlan
  <2>3. UNCHANGED <<store, byHand>>
    BY <1>7 DEF Send
  <2>4. \A p \in packs', r \in Records : p[r].tomb > 0 => r \in byHand
    BY <2>1, NextPackDeletes DEF DeletedByHand
  <2>. QED BY <2>2, <2>3, <2>4 DEF DeletedByHand, Forgotten
<1>8. CASE EndWell(d) \/ EndFailing(d)
  <2>1. run'[d].plan = NoPlan /\ \A e \in Devices \ {d} : run'[e] = run[e]
    BY <1>1, <1>8 DEF EndWell, EndFailing, End, TypeOK, NoRun
  <2>2. NoPlan.sendDeleted \cup NoPlan.letGo \subseteq byHand
    BY DEF NoPlan
  <2>. QED BY <1>2, <1>8, <2>1, <2>2 DEF EndWell, EndFailing, End
<1>. QED BY <1>3, <1>4, <1>5, <1>6, <1>7, <1>8, <1>9 DEF Sync

LEMMA FaultDeletes ==
  ASSUME TypeInv, DeletedByHand, NEW d \in Devices, Fault(d)
  PROVE  DeletedByHand'
<1>1. TypeOK
  BY DEF TypeInv
<1>2. ASSUME NEW step, run' = [run EXCEPT ![d].step = step]
      PROVE  \A e \in Devices : run'[e].plan = run[e].plan
  BY <1>1, <1>2, RunFields DEF TypeOK, RunOf
<1>3. CASE \E r \in Records : Lose(d, r)
  BY <1>1, <1>3 DEF Lose, DeletedByHand, Forgotten, TypeOK
<1>4. CASE ChangeFails(d)
  <2>1. PICK undone, put : store' = [store EXCEPT ![d] = Made(store[d], put, undone, {})]
    BY <1>4 DEF ChangeFails
  <2>2. ASSUME NEW e \in Devices, NEW r \in Records, store'[e][r] = "forgotten"
        PROVE  store[e][r] = "forgotten"
    BY <1>1, <2>1, <2>2, MadeDeletes DEF TypeOK, Kinds
  <2>3. \A e \in Devices : Forgotten(e)' \subseteq Forgotten(e)
    BY <2>2 DEF Forgotten
  <2>4. \A e \in Devices : run'[e].plan = run[e].plan
    BY <1>2, <1>4 DEF ChangeFails
  <2>5. UNCHANGED <<packs, byHand>>
    BY <1>4 DEF ChangeFails
  <2>. QED BY <2>3, <2>4, <2>5 DEF DeletedByHand
<1>5. CASE AnswerLost(d)
  <2>1. PICK put : packs' = packs \cup {NextPack(d, put)}
    BY <1>5 DEF AnswerLost
  <2>2. \A e \in Devices : run'[e].plan = run[e].plan
    BY <1>2, <1>5 DEF AnswerLost
  <2>3. UNCHANGED <<store, byHand>>
    BY <1>5 DEF AnswerLost
  <2>4. \A p \in packs', r \in Records : p[r].tomb > 0 => r \in byHand
    BY <2>1, NextPackDeletes DEF DeletedByHand
  <2>. QED BY <2>2, <2>3, <2>4 DEF DeletedByHand, Forgotten
<1>6. CASE Fail(d)
  <2>1. \A e \in Devices : run'[e].plan = run[e].plan
    BY <1>2, <1>6 DEF Fail
  <2>. QED BY <1>6, <2>1 DEF Fail, DeletedByHand, Forgotten
<1>7. CASE Crash(d)
  <2>1. run'[d].plan = NoPlan /\ \A e \in Devices \ {d} : run'[e] = run[e]
    BY <1>1, <1>7 DEF Crash, TypeOK, NoRun
  <2>2. NoPlan.sendDeleted \cup NoPlan.letGo \subseteq byHand
    BY DEF NoPlan
  <2>. QED BY <1>7, <2>1, <2>2 DEF Crash, DeletedByHand, Forgotten
<1>8. CASE Rejoin(d)
  BY <1>8 DEF Rejoin, DeletedByHand, Forgotten
<1>. QED BY <1>3, <1>4, <1>5, <1>6, <1>7, <1>8 DEF Fault

LEMMA InitDeletes == Init => DeletedByHand
<1>. SUFFICES ASSUME Init PROVE DeletedByHand
  OBVIOUS
<1>1. \A d \in Devices : Forgotten(d) \subseteq byHand
  BY DEF Init
<1>2. \A d \in Devices : run[d].plan.sendDeleted \cup run[d].plan.letGo \subseteq byHand
  BY DEF Init, NoRun, NoPlan
<1>. QED BY <1>1, <1>2 DEF Init, DeletedByHand

LEMMA NextDeletes ==
  ASSUME TypeInv, DriveView, DeletedByHand, [Next]_vars
  PROVE  DeletedByHand'
<1>1. CASE Tick
  BY <1>1 DEF Tick, DeletedByHand, Forgotten
<1>2. CASE UNCHANGED vars
  BY <1>2 DEF vars, DeletedByHand, Forgotten
<1>. QED BY <1>1, <1>2, SyncDeletes, FaultDeletes, LearnerDeletes DEF Next

\* Missing is never deleted: whatever the stores lose and whichever syncs
\* fail, on however many devices, a record is deleted in a store or by a pack
\* only if it was deleted by hand (plan.rs).
THEOREM MissingIsNeverDeletedEver == Spec => []MissingIsNeverDeleted
<1>1. Init => TypeInv /\ DriveView /\ DeletedByHand
  BY InitType, InitView, InitDeletes
<1>2. TypeInv /\ DriveView /\ DeletedByHand /\ [Next]_vars
        => (TypeInv /\ DriveView /\ DeletedByHand)'
  BY NextType, NextView, NextDeletes
<1>3. DeletedByHand => MissingIsNeverDeleted
  BY DEF DeletedByHand, MissingIsNeverDeleted
<1>. QED BY <1>1, <1>2, <1>3, PTL DEF Spec

-----------------------------------------------------------------------------
(***************************************************************************)
(* A sync goes by what the drive says: it never comes to know less than    *)
(* the device did, and it takes and lets go only as some packs say.        *)
(***************************************************************************)

\* The steps of a sync that goes on what it read.
Reading == {"started", "read", "listed", "again", "planned", "gathered"}

GoesBy(d) ==
  /\ Running(d) => saved[d].read \subseteq run[d].state.read
  /\ run[d].step \in Reading => run[d].state.read \subseteq run[d].read
  /\ \A r \in run[d].bytes : Held(WordOf(packs), r)
  /\ \A r \in run[d].plan.letGo : WordOf(packs)[r].tomb > 0

FollowsDrive == \A d \in Devices : GoesBy(d)

\* The drive says no less with more packs.
LEMMA MoreSaid ==
  ASSUME TypeInv, TypeInv', packs \subseteq packs'
  PROVE  /\ Leq(WordOf(packs), WordOf(packs'))
         /\ WordOf(packs) \in Word /\ WordOf(packs') \in Word
<1>1. packs \in SUBSET Word /\ IsFiniteSet(packs) /\ packs' \in SUBSET Word /\ IsFiniteSet(packs')
  BY DEF TypeInv, TypeOK
<1>. QED BY <1>1, WordOfGrows, WordOfType

LEMMA SaidStays ==
  ASSUME NEW w \in Word, NEW x \in Word, Leq(w, x), NEW r \in Records
  PROVE  /\ Held(w, r) => Held(x, r)
         /\ w[r].tomb > 0 => x[r].tomb > 0
BY DEF Leq, Held, Word, Entry

\* The runs of other devices go by what the drive says still.
LEMMA GoesByFrame ==
  ASSUME TypeInv, TypeInv', NEW d \in Devices, GoesBy(d), packs \subseteq packs',
         run'[d].step = run[d].step \/ run'[d].step = "failing",
         run[d].step = "idle" => run'[d].step = "idle",
         run'[d].state = run[d].state, run'[d].read = run[d].read,
         run'[d].bytes \subseteq run[d].bytes, run'[d].plan.letGo \subseteq run[d].plan.letGo,
         saved'[d].read = saved[d].read
  PROVE  GoesBy(d)'
<1>1. /\ \A r \in run[d].bytes : Held(WordOf(packs'), r)
      /\ \A r \in run[d].plan.letGo : WordOf(packs')[r].tomb > 0
  BY MoreSaid, SaidStays, RunFields DEF TypeInv, GoesBy
<1>2. Running(d)' => saved'[d].read \subseteq run'[d].state.read
  BY DEF GoesBy, Running
<1>3. run'[d].step \in Reading => run'[d].state.read \subseteq run'[d].read
  BY DEF GoesBy, Reading
<1>. QED BY <1>1, <1>2, <1>3 DEF GoesBy

\* What some packs hold or delete, the drive does.
LEMMA SomeSaid ==
  ASSUME TypeInv, NEW P \in SUBSET packs, NEW r \in Records
  PROVE  /\ Held(WordOf(P), r) => Held(WordOf(packs), r)
         /\ Deleted(WordOf(P), r) => WordOf(packs)[r].tomb > 0
<1>1. packs \in SUBSET Word /\ IsFiniteSet(packs) /\ P \in SUBSET Word
  BY DEF TypeInv, TypeOK
<1>2. WordOf(P) \in Word /\ WordOf(packs) \in Word /\ Leq(WordOf(P), WordOf(packs))
  BY <1>1, PacksType, WordOfGrows
<1>3. Deleted(WordOf(P), r) => WordOf(P)[r].tomb > 0
  BY <1>2 DEF Deleted, Word, Entry
<1>. QED BY <1>2, <1>3, SaidStays

LEMMA SyncFollows ==
  ASSUME TypeInv, TypeInv', DriveView, NEW d \in Devices, GoesBy(d), Sync(d)
  PROVE  GoesBy(d)'
<1>1. TypeOK
  BY DEF TypeInv
<1>2. /\ saved[d].read \subseteq packs /\ run[d].read \subseteq packs
      /\ run[d].drive = WordOf(run[d].read)
  BY DEF DriveView, ViewOf
<1>3. CASE Start(d)
  <2>1. PICK state :
          /\ state.read = saved[d].read
          /\ run' = [run EXCEPT ![d] = [NoRun EXCEPT !.step  = "started",
                                                    !.at    = Clock(d),
                                                    !.state = state,
                                                    !.read  = state.read,
                                                    !.drive = state.drive]]
    BY <1>1, <1>3, RunFields DEF Start, SyncState
  <2>2. /\ run'[d].state.read = saved[d].read /\ run'[d].read = saved[d].read
        /\ run'[d].bytes = {} /\ run'[d].plan.letGo = {}
    BY <1>1, <2>1 DEF TypeOK, NoRun, NoPlan
  <2>3. saved' = saved
    BY <1>3 DEF Start
  <2>. QED BY <2>2, <2>3 DEF GoesBy
<1>9. CASE Look(d)
  <2> DEFINE new == packs \ run[d].read
  <2>1. /\ run'[d].step = "read" /\ run[d].step = "started"
        /\ run'[d].state = run[d].state /\ run'[d].read = run[d].read \cup new
        /\ run'[d].bytes = {r \in Records : Held(WordOf(new), r)}
        /\ run'[d].plan = run[d].plan
    BY <1>1, <1>9, RunFields DEF Look, TypeOK, RunOf
  <2>2. saved' = saved /\ packs' = packs
    BY <1>9 DEF Look
  <2>3. \A r \in Records : Held(WordOf(new), r) => Held(WordOf(packs), r)
    BY SomeSaid
  <2>. QED BY <2>1, <2>2, <2>3 DEF GoesBy, Running, Reading
<1>10. CASE List(d) \/ Gather(d)
  <2>1. /\ run[d].step \in Reading /\ run[d].step # "idle"
        /\ run'[d].state = run[d].state /\ run'[d].read = run[d].read
        /\ run'[d].bytes = run[d].bytes /\ run'[d].plan = run[d].plan
    <3>1. CASE List(d)
      BY <1>1, <3>1, RunFields DEF List, TypeOK, RunOf, Reading
    <3>2. CASE Gather(d)
      BY <1>1, <3>2, RunFields DEF Gather, TypeOK, RunOf, Reading
    <3>. QED BY <1>10, <3>1, <3>2
  <2>2. saved' = saved /\ packs' = packs
    BY <1>10 DEF List, Gather
  <2>. QED BY <2>1, <2>2 DEF GoesBy, Running
<1>4. CASE MakePlan(d)
  <2>1. /\ run'[d].step \in {"again", "planned"} /\ run[d].step = "listed"
        /\ run'[d].state = run[d].state /\ run'[d].read = run[d].read
        /\ run'[d].bytes = run[d].bytes
        /\ run'[d].plan = Planned(d, run[d].drive, run[d].listed)
    BY <1>1, <1>4, RunFields DEF MakePlan, TypeOK, RunOf
  <2>2. \A r \in run'[d].plan.letGo : r \in Records /\ Deleted(WordOf(run[d].read), r)
    BY <1>1, <1>2, <2>1, RunFields DEF Planned, Plan
  <2>3. saved' = saved /\ packs' = packs
    BY <1>4 DEF MakePlan
  <2>. QED BY <1>2, <2>1, <2>2, <2>3, SomeSaid DEF GoesBy, Running, Reading
<1>5. CASE ReadAgain(d)
  <2>1. /\ run'[d].step = "planned" /\ run[d].step = "again"
        /\ run'[d].state = run[d].state /\ run'[d].read = run[d].read
        /\ run'[d].bytes = {r \in Records : Held(WordOf(run[d].read), r)}
        /\ run'[d].plan = Planned(d, WordOf(run[d].read), run[d].listed)
    BY <1>1, <1>5, RunFields DEF ReadAgain, TypeOK, RunOf
  <2>2. \A r \in run'[d].plan.letGo : r \in Records /\ Deleted(WordOf(run[d].read), r)
    BY <1>1, <1>2, <2>1, RunFields DEF Planned, Plan
  <2>3. saved' = saved /\ packs' = packs
    BY <1>5 DEF ReadAgain
  <2>. QED BY <1>2, <2>1, <2>2, <2>3, SomeSaid DEF GoesBy, Running, Reading
<1>6. CASE Change(d)
  <2>1. run' = [run EXCEPT ![d] = [NoRun EXCEPT !.step = "sending", !.at = run[d].at,
                                                !.state = Noted(d), !.plan = Sends(d)]]
    BY <1>6 DEF Change
  <2>2. /\ run'[d].step = "sending" /\ run'[d].state.read = run[d].read
        /\ run'[d].bytes = {} /\ run'[d].plan.letGo = {}
    BY <1>1, <2>1 DEF TypeOK, NoRun, NoPlan, Noted, Sends
  <2>3. saved' = saved /\ run[d].step = "gathered"
    BY <1>6 DEF Change
  <2>. QED BY <2>2, <2>3 DEF GoesBy, Running, Reading
<1>7. CASE Send(d)
  <2>1. PICK pack, send :
          /\ packs' = packs \cup {pack}
          /\ run' = [run EXCEPT ![d].state = Sent(d, pack),
                                ![d].plan  = [NoPlan EXCEPT !.send = send]]
    BY <1>7 DEF Send
  <2>2. run[d].step = "sending" /\ saved' = saved
    BY <1>7 DEF Send, MayPack
  <2>3. /\ run'[d].step = "sending" /\ run[d].state.read \subseteq run'[d].state.read
        /\ run'[d].bytes = run[d].bytes /\ run'[d].plan.letGo = {}
    BY <1>1, <2>1, <2>2, RunFields DEF TypeOK, RunOf, NoPlan, Sent
  <2>4. \A r \in run[d].bytes : Held(WordOf(packs'), r)
    BY <1>1, <2>1, MoreSaid, SaidStays, RunFields DEF GoesBy
  <2>. QED BY <2>2, <2>3, <2>4 DEF GoesBy, Running, Reading
<1>8. CASE EndWell(d) \/ EndFailing(d)
  <2>1. run'[d] = NoRun
    BY <1>1, <1>8 DEF EndWell, EndFailing, End, TypeOK
  <2>. QED BY <2>1 DEF GoesBy, Running, Reading, NoRun, NoPlan
<1>. QED BY <1>3, <1>4, <1>5, <1>6, <1>7, <1>8, <1>9, <1>10 DEF Sync

\* A device whose store, run and state a step leaves goes by what it did.
LEMMA OthersFollow ==
  ASSUME TypeInv, TypeInv', NEW d \in Devices, GoesBy(d), packs \subseteq packs',
         run'[d] = run[d], saved'[d].read = saved[d].read
  PROVE  GoesBy(d)'
BY GoesByFrame

LEMMA FaultFollows ==
  ASSUME TypeInv, TypeInv', NEW d \in Devices, GoesBy(d), Fault(d)
  PROVE  GoesBy(d)'
<1>1. TypeOK
  BY DEF TypeInv
<1>2. ASSUME run[d].step # "idle", run' = [run EXCEPT ![d].step = "failing"],
             packs \subseteq packs', saved' = saved
      PROVE  GoesBy(d)'
  <2>1. /\ run'[d].step = "failing" /\ run'[d].state = run[d].state
        /\ run'[d].read = run[d].read /\ run'[d].bytes = run[d].bytes
        /\ run'[d].plan = run[d].plan
    BY <1>1, <1>2, RunFields DEF TypeOK, RunOf
  <2>. QED BY <1>2, <2>1, GoesByFrame
<1>3. CASE \E r \in Records : Lose(d, r)
  BY <1>3, OthersFollow DEF Lose
<1>4. CASE ChangeFails(d)
  BY <1>2, <1>4 DEF ChangeFails
<1>5. CASE AnswerLost(d)
  <2>1. run[d].step # "idle"
    BY <1>5 DEF AnswerLost, MayPack
  <2>. QED BY <1>2, <1>5, <2>1 DEF AnswerLost
<1>6. CASE Fail(d)
  BY <1>2, <1>6 DEF Fail
<1>7. CASE Crash(d)
  <2>1. run'[d] = NoRun
    BY <1>1, <1>7 DEF Crash, TypeOK
  <2>. QED BY <2>1 DEF GoesBy, Running, Reading, NoRun, NoPlan
<1>8. CASE Rejoin(d)
  <2>1. run' = run /\ packs' = packs /\ run[d].step = "idle"
    BY <1>8 DEF Rejoin, Running
  <2>. QED BY <2>1 DEF GoesBy, Running, Reading
<1>. QED BY <1>3, <1>4, <1>5, <1>6, <1>7, <1>8 DEF Fault

LEMMA NextFollows ==
  ASSUME TypeInv, TypeInv', DriveView, FollowsDrive, [Next]_vars
  PROVE  FollowsDrive'
<1>1. TypeOK
  BY DEF TypeInv
<1>2. CASE Tick \/ UNCHANGED vars
  <2>1. run' = run /\ saved' = saved /\ packs' = packs
    BY <1>2 DEF Tick, vars
  <2>. QED BY <2>1, OthersFollow DEF FollowsDrive
<1>3. ASSUME NEW d \in Devices, Sync(d) \/ Fault(d) \/ Learner(d)
      PROVE  FollowsDrive'
  <2>1. ASSUME NEW e \in Devices \ {d} PROVE GoesBy(e)'
    BY <1>1, <1>3, OwnStep, OthersFollow DEF FollowsDrive
  <2>2. GoesBy(d)'
    <3>1. CASE Sync(d)
      BY <3>1, SyncFollows DEF FollowsDrive
    <3>2. CASE Fault(d)
      BY <3>2, FaultFollows DEF FollowsDrive
    <3>3. CASE Learner(d)
      BY <1>1, <3>3, LearnerLeaves, OthersFollow DEF FollowsDrive
    <3>. QED BY <1>3, <3>1, <3>2, <3>3
  <2>. QED BY <2>1, <2>2 DEF FollowsDrive
<1>. QED BY <1>2, <1>3 DEF Next

LEMMA InitFollows == Init => FollowsDrive
BY DEF Init, FollowsDrive, GoesBy, Running, Reading, NoRun, NoPlan

-----------------------------------------------------------------------------
(***************************************************************************)
(* SyncHistory implements SharedHistory: what the devices list is their    *)
(* history, what the packs put together say the word of the drive, and     *)
(* what each device keeps of them what it knows.                           *)
(***************************************************************************)

IInv == TypeInv /\ DriveView /\ DeletedByHand /\ FollowsDrive

LEMMA IInvInductive ==
  /\ Init => IInv
  /\ IInv /\ [Next]_vars => IInv'
<1>1. Init => IInv
  BY InitType, InitView, InitDeletes, InitFollows DEF IInv
<1>2. ASSUME IInv, [Next]_vars PROVE IInv'
  BY <1>2, NextType, NextView, NextDeletes, NextFollows DEF IInv
<1>. QED BY <1>1, <1>2

\* What one change of a store makes of what it lists.
LEMMA MadeLists ==
  ASSUME NEW here \in [Records -> Kinds], NEW put, NEW unforget, NEW forget, NEW r \in Records
  PROVE  /\ Made(here, put, unforget, forget)[r] = "live" => here[r] = "live" \/ r \in put
         /\ here[r] = "live" /\ r \notin forget => Made(here, put, unforget, forget)[r] = "live"
         /\ r \in forget => Made(here, put, unforget, forget)[r] = "forgotten"
BY DEF Made, Kinds

Histories == [d \in Devices |-> Listed(d)]

StoreMade(d, put, unforget, forget) ==
  store' = [store EXCEPT ![d] = Made(store[d], put, unforget, forget)]

\* The history of d after a change: less what it let go, with what came to
\* be listed.
LEMMA ChangeLists ==
  ASSUME TypeOK, NEW d \in Devices, NEW put, NEW unforget, NEW forget \in SUBSET Records,
         StoreMade(d, put, unforget, forget)
  PROVE  \E added \in SUBSET Records :
           /\ added \subseteq put
           /\ Histories' = [Histories EXCEPT ![d] = (Histories[d] \ forget) \cup added]
<1> DEFINE added == Listed(d)' \ (Listed(d) \ forget)
<1>1. store[d] \in [Records -> Kinds] /\ store'[d] = Made(store[d], put, unforget, forget)
  BY DEF StoreMade, TypeOK, Kinds
<1>2. /\ \A r \in Records : store'[d][r] = "live" => store[d][r] = "live" \/ r \in put
      /\ \A r \in Records : store[d][r] = "live" /\ r \notin forget => store'[d][r] = "live"
      /\ \A r \in Records : r \in forget => store'[d][r] # "live"
  BY <1>1, MadeLists
<1>3. Listed(d)' = (Listed(d) \ forget) \cup added
  BY <1>2 DEF Listed
<1>4. added \in SUBSET Records /\ added \subseteq put
  BY <1>2 DEF Listed
<1>5. \A e \in Devices \ {d} : Listed(e)' = Listed(e)
  BY DEF StoreMade, Listed, TypeOK
<1>6. Histories' = [Histories EXCEPT ![d] = (Histories[d] \ forget) \cup added]
  <2>. HIDE DEF added
  <2>. QED BY <1>3, <1>5 DEF Histories
<1>. QED BY <1>4, <1>6

LEMMA LearnerIsHand ==
  ASSUME TypeOK, NEW d \in Devices, Learner(d)
  PROVE  Promised!Hand(d)
<1>1. PICK put \in SUBSET Records, gone \in SUBSET Records : HandChange(d, put, gone)
  BY LearnerChanges
<1>2. /\ StoreMade(d, put, put, gone)
      /\ byHand' = byHand \cup gone
  BY <1>1 DEF HandChange, ChangeStore, StoreMade
<1>3. PICK added \in SUBSET Records :
        Histories' = [Histories EXCEPT ![d] = (Histories[d] \ gone) \cup added]
  BY <1>2, ChangeLists
<1>4. /\ WordOf(packs)' = WordOf(packs) /\ lost' = lost
      /\ [e \in Devices |-> saved[e].drive]' = [e \in Devices |-> saved[e].drive]
  <2>1. \A e \in Devices : saved'[e].drive = saved[e].drive
    BY LearnerLeaves
  <2>2. packs' = packs /\ lost' = lost
    BY LearnerLeaves
  <2>. QED BY <2>1, <2>2
<1>. QED BY <1>2, <1>3, <1>4 DEF Promised!Hand, Histories

\* What leaves these leaves the drive's word, and what the devices know.
LEMMA SameWord ==
  ASSUME packs' = packs, \A d \in Devices : saved'[d].drive = saved[d].drive
  PROVE  /\ WordOf(packs)' = WordOf(packs)
         /\ [d \in Devices |-> saved[d].drive]' = [d \in Devices |-> saved[d].drive]
OBVIOUS

LEMMA FollowIs ==
  ASSUME TypeOK, NEW d \in Devices, GoesBy(d), NEW put \in SUBSET Taken(d), NEW unforget,
         NEW forget \in SUBSET run[d].plan.letGo,
         NEW missed \in SUBSET Records, missed \cap Listed(d) = {},
         StoreMade(d, put, unforget, forget),
         lost' = [lost EXCEPT ![d] = lost[d] \cup missed],
         UNCHANGED <<packs, saved, byHand>>
  PROVE  Promised!Follow(d)
<1>1. PICK added \in SUBSET Records :
        /\ added \subseteq put
        /\ Histories' = [Histories EXCEPT ![d] = (Histories[d] \ forget) \cup added]
  <2>1. forget \in SUBSET Records
    BY RunFields
  <2>. QED BY <2>1, ChangeLists
<1>2. added \in SUBSET {r \in Records : Held(WordOf(packs), r)}
  BY <1>1, RunFields DEF Taken, GoesBy
<1>3. forget \in SUBSET {r \in Records : WordOf(packs)[r].tomb > 0}
  BY RunFields DEF GoesBy
<1>4. missed \in SUBSET (Records \ Histories[d])
  BY DEF Histories
<1>. QED BY <1>1, <1>2, <1>3, <1>4, SameWord DEF Promised!Follow, Promised!Held, Held, Histories

LEMMA ChangeIsFollow ==
  ASSUME TypeOK, NEW d \in Devices, GoesBy(d), Change(d)
  PROVE  Promised!Follow(d)
<1>1. /\ StoreMade(d, Taken(d), Undone(d), run[d].plan.letGo)
      /\ UNCHANGED <<packs, saved, byHand, lost>>
  BY DEF Change, ChangeStore, StoreMade
<1>2. {} \in SUBSET Records /\ lost' = [lost EXCEPT ![d] = lost[d] \cup {}]
  BY <1>1 DEF TypeOK
<1>. QED BY <1>1, <1>2, FollowIs

LEMMA ChangeFailsIsFollow ==
  ASSUME TypeOK, NEW d \in Devices, GoesBy(d), ChangeFails(d)
  PROVE  Promised!Follow(d)
<1>1. PICK undone \in SUBSET Undone(d), put \in SUBSET Taken(d) :
        /\ StoreMade(d, put, undone, {})
        /\ lost' = [lost EXCEPT ![d] = lost[d] \cup {r \in undone : store'[d][r] = "none"}]
  BY DEF ChangeFails, StoreMade
<1> DEFINE missed == {r \in undone : store'[d][r] = "none"}
<1>2. missed \in SUBSET Records /\ missed \cap Listed(d) = {}
  <2>1. undone \in SUBSET Records
    BY RunFields DEF Undone
  <2>2. store[d] \in [Records -> Kinds] /\ store'[d] = Made(store[d], put, undone, {})
    BY <1>1 DEF TypeOK, Kinds, StoreMade
  <2>3. \A r \in Records : store[d][r] = "live" => store'[d][r] = "live"
    BY <2>2, MadeLists
  <2>. QED BY <2>1, <2>3 DEF Listed
<1>3. UNCHANGED <<packs, saved, byHand>>
  BY DEF ChangeFails
<1>. QED BY <1>1, <1>2, <1>3, FollowIs

LEMMA SendIsTell ==
  ASSUME IInv, TypeInv', NEW d \in Devices, Send(d) \/ AnswerLost(d)
  PROVE  Promised!Tell
<1>1. TypeInv /\ DeletedByHand
  BY DEF IInv
<1>2. PICK put : packs' = packs \cup {NextPack(d, put)}
  BY DEF Send, AnswerLost
<1>3. UNCHANGED <<store, saved, byHand, lost>>
  BY DEF Send, AnswerLost
<1>4. WordOf(packs') \in Word /\ Leq(WordOf(packs), WordOf(packs'))
  BY <1>1, <1>2, MoreSaid
<1>5. ASSUME NEW r \in Records, WordOf(packs')[r].tomb # WordOf(packs)[r].tomb
      PROVE  r \in byHand
  <2> DEFINE pack == NextPack(d, put)
  <2>1. packs \in SUBSET Word /\ IsFiniteSet(packs) /\ pack \in Word
    BY <1>1, NextPackType DEF TypeInv, TypeOK
  <2>2. WordOf(packs') = Take(WordOf(packs), pack)
    <3>. HIDE DEF pack
    <3>1. IsFiniteSet({pack}) /\ WordOf({pack}) = pack /\ {pack} \in SUBSET Word
      BY <2>1, FS_Singleton, WordOfOne
    <3>2. packs' = packs \cup {pack}
      BY <1>2 DEF pack
    <3>. QED BY <2>1, <3>1, <3>2, WordOfUnion
  <2>3. WordOf(packs) \in Word
    BY <2>1, WordOfType
  <2>4. pack[r].tomb > 0
    <3>. HIDE DEF pack
    <3>. QED BY <1>5, <2>1, <2>2, <2>3 DEF Take, Later, Word, Entry
  <2>. QED BY <1>1, <2>4, NextPackDeletes
<1>6. [e \in Devices |-> Listed(e)]' = [e \in Devices |-> Listed(e)]
  BY <1>3 DEF Listed
<1>7. [e \in Devices |-> saved[e].drive]' = [e \in Devices |-> saved[e].drive]
  BY <1>3
<1>. QED BY <1>3, <1>4, <1>5, <1>6, <1>7
         DEF Promised!Tell, Promised!Word, Word, Promised!Entry, Entry, Promised!Leq, Leq

LEMMA EndIsLearn ==
  ASSUME IInv, NEW d \in Devices, Running(d), End(d)
  PROVE  Promised!Learn(d)
<1> DEFINE known == [e \in Devices |-> saved[e].drive]
<1>1. TypeInv /\ TypeOK
  BY DEF IInv, TypeInv
<1>2. /\ saved'[d].drive = run[d].state.drive
      /\ \A e \in Devices \ {d} : saved'[e] = saved[e]
  BY <1>1, RunFields DEF End, TypeOK, SyncState
<1>3. UNCHANGED <<store, packs, byHand, lost>>
  BY DEF End
<1>4. /\ saved[d].read \subseteq run[d].state.read /\ run[d].state.read \subseteq packs
      /\ saved[d].drive = WordOf(saved[d].read)
      /\ run[d].state.drive = WordOf(run[d].state.read)
  BY DEF IInv, FollowsDrive, GoesBy, DriveView, ViewOf
<1>5. /\ Leq(saved[d].drive, run[d].state.drive)
      /\ Leq(run[d].state.drive, WordOf(packs))
      /\ run[d].state.drive \in Word
  <2>1. packs \in SUBSET Word /\ IsFiniteSet(packs)
    BY <1>1 DEF TypeInv, TypeOK
  <2>2. run[d].state.read \in SUBSET Word /\ IsFiniteSet(run[d].state.read)
    BY <1>1, <1>4, <2>1, PacksType
  <2>. QED BY <1>1, <1>4, <2>1, <2>2, WordOfGrows, RunFields
<1>6. known' = [known EXCEPT ![d] = known'[d]] /\ known'[d] = run[d].state.drive
      /\ known[d] = saved[d].drive
  BY <1>2
<1>7. [e \in Devices |-> Listed(e)]' = [e \in Devices |-> Listed(e)]
  BY <1>3 DEF Listed
<1>. QED BY <1>3, <1>5, <1>6, <1>7
         DEF Promised!Learn, Promised!Word, Word, Promised!Entry, Entry, Promised!Leq, Leq

\* What leaves the stores, the packs, what is saved and the history
\* variables the promise speaks of, leaves what it speaks of.
LEMMA IsStutter ==
  ASSUME UNCHANGED <<store, packs, saved, byHand, lost>>
  PROVE  UNCHANGED Promised!vars
BY DEF Promised!vars, Listed

LEMMA SyncKeepsPromise ==
  ASSUME IInv, TypeInv', NEW d \in Devices, Sync(d)
  PROVE  [Promised!Next]_Promised!vars
<1>1. TypeOK /\ GoesBy(d)
  BY DEF IInv, TypeInv, FollowsDrive
<1>2. CASE Start(d) \/ Look(d) \/ List(d) \/ MakePlan(d) \/ ReadAgain(d) \/ Gather(d)
  BY <1>2, IsStutter DEF Start, Look, List, MakePlan, ReadAgain, Gather
<1>3. CASE Change(d)
  BY <1>1, <1>3, ChangeIsFollow DEF Promised!Next
<1>4. CASE Send(d)
  BY <1>4, SendIsTell DEF Promised!Next
<1>5. CASE EndWell(d) \/ EndFailing(d)
  <2>1. Running(d) /\ End(d)
    BY <1>5 DEF EndWell, EndFailing, Running
  <2>. QED BY <2>1, EndIsLearn DEF Promised!Next
<1>. QED BY <1>2, <1>3, <1>4, <1>5 DEF Sync

LEMMA FaultKeepsPromise ==
  ASSUME IInv, TypeInv', NEW d \in Devices, Fault(d)
  PROVE  [Promised!Next]_Promised!vars
<1>1. TypeOK /\ GoesBy(d)
  BY DEF IInv, TypeInv, FollowsDrive
<1>2. CASE \E r \in Records : Lose(d, r)
  <2>1. PICK r \in Records : /\ store' = [store EXCEPT ![d][r] = "none"]
                             /\ lost' = [lost EXCEPT ![d] = lost[d] \cup {r}]
                             /\ UNCHANGED <<packs, saved, byHand>>
    BY <1>2 DEF Lose
  <2>2. Listed(d)' = Listed(d) \ {r} /\ \A e \in Devices \ {d} : Listed(e)' = Listed(e)
    BY <1>1, <2>1 DEF Listed, TypeOK
  <2>3. Histories' = [Histories EXCEPT ![d] = Histories[d] \ {r}]
    BY <2>2 DEF Histories
  <2>4. {r} \in SUBSET Records
    BY <2>1
  <2>5. Promised!Lose(d)
    BY <2>1, <2>3, <2>4 DEF Promised!Lose, Histories
  <2>. QED BY <2>5 DEF Promised!Next
<1>3. CASE ChangeFails(d)
  BY <1>1, <1>3, ChangeFailsIsFollow DEF Promised!Next
<1>4. CASE AnswerLost(d)
  BY <1>4, SendIsTell DEF Promised!Next
<1>5. CASE Fail(d) \/ Crash(d)
  BY <1>5, IsStutter DEF Fail, Crash
<1>6. CASE Rejoin(d)
  <2>1. /\ saved' = [saved EXCEPT ![d] = NewState]
        /\ UNCHANGED <<store, packs, byHand, lost>>
    BY <1>6 DEF Rejoin
  <2>2. [e \in Devices |-> saved[e].drive]' =
          [[e \in Devices |-> saved[e].drive] EXCEPT ![d] = Blank]
    BY <1>1, <2>1 DEF NewState, TypeOK
  <2>3. [e \in Devices |-> Listed(e)]' = [e \in Devices |-> Listed(e)]
    BY <2>1 DEF Listed
  <2>4. Promised!Forget(d)
    BY <2>1, <2>2, <2>3 DEF Promised!Forget, Promised!Blank, Blank
  <2>. QED BY <2>4 DEF Promised!Next
<1>. QED BY <1>2, <1>3, <1>4, <1>5, <1>6 DEF Fault

LEMMA InitKeepsPromise == Init => Promised!Init
<1>. SUFFICES ASSUME Init PROVE Promised!Init
  OBVIOUS
<1>1. WordOf(packs) = Blank
  BY WordOfNone DEF Init
<1>2. byHand \in SUBSET Records
  BY DEF Init, Forgotten
<1>3. [e \in Devices |-> Listed(e)] \in [Devices -> SUBSET Records]
  BY DEF Listed
<1>4. [e \in Devices |-> saved[e].drive] = [e \in Devices |-> Blank]
  BY DEF Init, NewState
<1>5. lost = [e \in Devices |-> {}]
  BY DEF Init
<1>. QED BY <1>1, <1>2, <1>3, <1>4, <1>5 DEF Promised!Init, Promised!Blank, Blank

\* Sync keeps its promise: nothing goes unasked, and no device knows more
\* than the drive says, whatever fails, is lost or is done meanwhile.
THEOREM PromiseIsKept == Spec => KeepsPromise
<1>1. ASSUME IInv, TypeInv', [Next]_vars
      PROVE  [Promised!Next]_Promised!vars
  <2>1. TypeOK
    BY <1>1 DEF IInv, TypeInv
  <2>2. CASE Tick \/ UNCHANGED vars
    <3>1. UNCHANGED <<store, packs, saved, byHand, lost>>
      BY <2>2 DEF Tick, vars
    <3>. QED BY <3>1, IsStutter
  <2>3. ASSUME NEW d \in Devices, Sync(d) \/ Fault(d) PROVE [Promised!Next]_Promised!vars
    BY <1>1, <2>3, SyncKeepsPromise, FaultKeepsPromise
  <2>4. ASSUME NEW d \in Devices, Learner(d) PROVE [Promised!Next]_Promised!vars
    BY <2>1, <2>4, LearnerIsHand DEF Promised!Next
  <2>. QED BY <1>1, <2>2, <2>3, <2>4 DEF Next
<1>2. IInv => TypeInv
  BY DEF IInv
<1>3. IInv' => TypeInv'
  BY DEF IInv
<1>. QED BY <1>1, <1>2, <1>3, IInvInductive, InitKeepsPromise, PTL
     DEF Spec, KeepsPromise, Promised!Spec

-----------------------------------------------------------------------------
(***************************************************************************)
(* What each step does to the device it is of, field by field.             *)
(***************************************************************************)

\* The step is another device's, as far as e can tell.
Alone(e) == /\ run'[e] = run[e] /\ saved'[e] = saved[e] /\ overlay'[e] = overlay[e]
            /\ store'[e] = store[e] /\ lost'[e] = lost[e] /\ mine'[e] = mine[e]

\* The drive forgets nothing, and time does not go back.
Onward == packs \subseteq packs' /\ now \in Nat /\ now' \in Nat /\ now <= now'

\* The fields of a run that only the steps before its change alter.
SameStart(d) == run'[d].at = run[d].at /\ run'[d].state = run[d].state

LEMMA StartDoes ==
  ASSUME TypeOK, NEW d \in Devices, Start(d)
  PROVE  /\ run[d].step = "idle" /\ run'[d].step = "started" /\ run'[d].at = Clock(d)
         /\ run'[d].state.read = saved[d].read /\ run'[d].state.drive = saved[d].drive
         /\ run'[d].state.applied = saved[d].applied
         /\ run'[d].state.revived = Extend(saved[d].revived, overlay[d])
         /\ run'[d].read = saved[d].read /\ run'[d].drive = saved[d].drive
         /\ run'[d].listed = {} /\ run'[d].here = {} /\ run'[d].plan = NoPlan
         /\ overlay'[d] = None
         /\ UNCHANGED <<store, packs, saved, restored, now, mine, lost>>
         /\ \A e \in Devices \ {d} : Alone(e)
<1>1. PICK state :
        /\ state.read = saved[d].read /\ state.drive = saved[d].drive
        /\ state.applied = saved[d].applied
        /\ state.revived = Extend(saved[d].revived, overlay[d])
        /\ run' = [run EXCEPT ![d] = [NoRun EXCEPT !.step  = "started",
                                                  !.at    = Clock(d),
                                                  !.state = state,
                                                  !.read  = state.read,
                                                  !.drive = state.drive]]
  <2> DEFINE state == [saved[d] EXCEPT !.revived = Extend(saved[d].revived, overlay[d])]
  <2>1. /\ state.read = saved[d].read /\ state.drive = saved[d].drive
        /\ state.applied = saved[d].applied
        /\ state.revived = Extend(saved[d].revived, overlay[d])
    BY RunFields DEF SyncState
  <2>. QED BY <2>1 DEF Start
<1>2. /\ run'[d].step = "started" /\ run'[d].at = Clock(d) /\ run'[d].state = state
      /\ run'[d].read = state.read /\ run'[d].drive = state.drive
      /\ run'[d].listed = {} /\ run'[d].here = {} /\ run'[d].plan = NoPlan
      /\ \A e \in Devices \ {d} : run'[e] = run[e]
  BY <1>1 DEF TypeOK, NoRun
<1>3. /\ run[d].step = "idle" /\ overlay'[d] = None
      /\ \A e \in Devices \ {d} : overlay'[e] = overlay[e]
      /\ UNCHANGED <<store, packs, saved, restored, now, mine, lost>>
  BY DEF Start, Running, TypeOK
<1>. QED BY <1>1, <1>2, <1>3 DEF Alone

LEMMA LookDoes ==
  ASSUME TypeOK, NEW d \in Devices, Look(d)
  PROVE  /\ run[d].step = "started" /\ run'[d].step = "read" /\ SameStart(d)
         /\ run'[d].read = run[d].read \cup (packs \ run[d].read)
         /\ run'[d].drive = Take(run[d].drive, WordOf(packs \ run[d].read))
         /\ run'[d].bytes = {r \in Records : Held(WordOf(packs \ run[d].read), r)}
         /\ run'[d].listed = run[d].listed /\ run'[d].here = run[d].here
         /\ UNCHANGED <<store, packs, saved, overlay, restored, now, mine, lost>>
         /\ \A e \in Devices \ {d} : Alone(e)
BY RunFields DEF Look, TypeOK, RunOf, SameStart, Alone

LEMMA ListDoes ==
  ASSUME TypeOK, NEW d \in Devices, List(d)
  PROVE  /\ run[d].step = "read" /\ run'[d].step = "listed" /\ SameStart(d)
         /\ run'[d].read = run[d].read /\ run'[d].drive = run[d].drive
         /\ run'[d].bytes = run[d].bytes
         /\ run'[d].listed = Listed(d) /\ run'[d].here = run[d].here
         /\ UNCHANGED <<store, packs, saved, overlay, restored, now, mine, lost>>
         /\ \A e \in Devices \ {d} : Alone(e)
BY RunFields DEF List, TypeOK, RunOf, SameStart, Alone

LEMMA MakePlanDoes ==
  ASSUME TypeOK, NEW d \in Devices, MakePlan(d)
  PROVE  /\ run[d].step = "listed" /\ SameStart(d)
         /\ run'[d].step = IF /\ Wanting(run'[d].plan, run[d].bytes)
                              /\ run[d].state.read # {}
                             THEN "again" ELSE "planned"
         /\ run'[d].plan = Planned(d, run[d].drive, run[d].listed)
         /\ run'[d].read = run[d].read /\ run'[d].drive = run[d].drive
         /\ run'[d].bytes = run[d].bytes
         /\ run'[d].listed = run[d].listed /\ run'[d].here = run[d].here
         /\ UNCHANGED <<store, packs, saved, overlay, restored, now, mine, lost>>
         /\ \A e \in Devices \ {d} : Alone(e)
<1> DEFINE plan  == Planned(d, run[d].drive, run[d].listed)
           again == Wanting(plan, run[d].bytes) /\ run[d].state.read # {}
<1>1. /\ run' = [run EXCEPT ![d].step = IF again THEN "again" ELSE "planned",
                            ![d].plan = plan]
      /\ run[d].step = "listed"
      /\ UNCHANGED <<store, packs, saved, overlay, restored, now, mine, lost>>
  BY DEF MakePlan
<1>. HIDE DEF plan, again
<1>2. /\ run'[d].step = IF again THEN "again" ELSE "planned"
      /\ run'[d].plan = plan
  BY <1>1, RunFields DEF TypeOK, RunOf
<1>3. /\ run'[d].read = run[d].read /\ run'[d].drive = run[d].drive
      /\ run'[d].bytes = run[d].bytes /\ SameStart(d)
      /\ run'[d].listed = run[d].listed /\ run'[d].here = run[d].here
      /\ \A e \in Devices \ {d} : run'[e] = run[e]
  BY <1>1, RunFields DEF TypeOK, RunOf, SameStart
<1>. QED BY <1>1, <1>2, <1>3 DEF plan, again, Alone

LEMMA ReadAgainDoes ==
  ASSUME TypeOK, NEW d \in Devices, ReadAgain(d)
  PROVE  /\ run[d].step = "again" /\ run'[d].step = "planned" /\ SameStart(d)
         /\ run'[d].plan = Planned(d, run'[d].drive, run[d].listed)
         /\ run'[d].read = run[d].read /\ run'[d].drive = WordOf(run[d].read)
         /\ run'[d].bytes = {r \in Records : Held(run'[d].drive, r)}
         /\ run'[d].listed = run[d].listed /\ run'[d].here = run[d].here
         /\ UNCHANGED <<store, packs, saved, overlay, restored, now, mine, lost>>
         /\ \A e \in Devices \ {d} : Alone(e)
<1> DEFINE word  == WordOf(run[d].read)
           bytes == {r \in Records : Held(word, r)}
           plan  == Planned(d, word, run[d].listed)
<1>1. /\ run' = [run EXCEPT ![d].step  = "planned", ![d].drive = word,
                            ![d].bytes = bytes, ![d].plan = plan]
      /\ run[d].step = "again"
      /\ UNCHANGED <<store, packs, saved, overlay, restored, now, mine, lost>>
  BY DEF ReadAgain
<1>2. bytes = {r \in Records : Held(word, r)} /\ plan = Planned(d, word, run[d].listed)
  OBVIOUS
<1>. HIDE DEF word, bytes, plan
<1>3. /\ run'[d].step = "planned" /\ run'[d].drive = word
      /\ run'[d].bytes = bytes /\ run'[d].plan = plan
  BY <1>1, RunFields DEF TypeOK, RunOf
<1>4. /\ run'[d].read = run[d].read /\ SameStart(d)
      /\ run'[d].listed = run[d].listed /\ run'[d].here = run[d].here
      /\ \A e \in Devices \ {d} : run'[e] = run[e]
  BY <1>1, RunFields DEF TypeOK, RunOf, SameStart
<1>. QED BY <1>1, <1>2, <1>3, <1>4 DEF word, Alone

LEMMA GatherDoes ==
  ASSUME TypeOK, NEW d \in Devices, Gather(d)
  PROVE  /\ run[d].step = "planned" /\ run'[d].step = "gathered" /\ SameStart(d)
         /\ run'[d].plan = run[d].plan
         /\ run'[d].read = run[d].read /\ run'[d].drive = run[d].drive
         /\ run'[d].bytes = run[d].bytes /\ run'[d].listed = run[d].listed
         /\ run'[d].here = (run[d].plan.send \cup run[d].plan.sendBack) \cap Listed(d)
         /\ UNCHANGED <<store, packs, saved, overlay, restored, now, mine, lost>>
         /\ \A e \in Devices \ {d} : Alone(e)
BY RunFields DEF Gather, TypeOK, RunOf, SameStart, Alone

LEMMA ChangeDoes ==
  ASSUME TypeOK, NEW d \in Devices, Change(d)
  PROVE  /\ run[d].step = "gathered" /\ run'[d].step = "sending" /\ run'[d].at = run[d].at
         /\ run'[d].state = Noted(d) /\ run'[d].plan = Sends(d)
         /\ run'[d].listed = {} /\ run'[d].here = {}
         /\ store'[d] = Made(store[d], Taken(d), Undone(d), run[d].plan.letGo)
         /\ \A r \in Records :
              mine'[d][r] = IF r \in run[d].plan.letGo /\ store[d][r] = "live"
                              THEN "no" ELSE mine[d][r]
         /\ UNCHANGED <<packs, saved, overlay, restored, now, lost>>
         /\ \A e \in Devices \ {d} : Alone(e)
<1>1. /\ run' = [run EXCEPT ![d] = [NoRun EXCEPT !.step = "sending", !.at = run[d].at,
                                                !.state = Noted(d), !.plan = Sends(d)]]
      /\ run[d].step = "gathered"
      /\ ChangeStore(d, Taken(d), Undone(d), run[d].plan.letGo, {})
      /\ UNCHANGED <<packs, saved, overlay, restored, now, lost>>
  BY DEF Change
<1>2. /\ run'[d].step = "sending" /\ run'[d].at = run[d].at
      /\ run'[d].state = Noted(d) /\ run'[d].plan = Sends(d)
      /\ run'[d].listed = {} /\ run'[d].here = {}
      /\ \A e \in Devices \ {d} : run'[e] = run[e]
  BY <1>1 DEF TypeOK, NoRun
<1>3. /\ store'[d] = Made(store[d], Taken(d), Undone(d), run[d].plan.letGo)
      /\ \A e \in Devices \ {d} : store'[e] = store[e] /\ mine'[e] = mine[e]
  BY <1>1 DEF ChangeStore, TypeOK
<1>4. \A r \in Records : mine'[d][r] = IF r \in run[d].plan.letGo /\ store[d][r] = "live"
                                         THEN "no" ELSE mine[d][r]
  BY <1>1 DEF ChangeStore, TypeOK
<1>. QED BY <1>1, <1>2, <1>3, <1>4 DEF Alone


LEMMA SendDoes ==
  ASSUME TypeOK, NEW d \in Devices, Send(d)
  PROVE  \E put \in SUBSET run[d].plan.send :
           /\ run[d].step = "sending" /\ run'[d].step = "sending" /\ run'[d].at = run[d].at
           /\ packs' = packs \cup {NextPack(d, put)} /\ packs' # {}
           /\ run'[d].state = Sent(d, NextPack(d, put))
           /\ run'[d].plan = [NoPlan EXCEPT !.send = run[d].plan.send \ put]
           /\ run'[d].listed = run[d].listed /\ run'[d].here = run[d].here
           /\ Tell(d)
           /\ UNCHANGED <<store, saved, overlay, restored, now, lost>>
           /\ \A e \in Devices \ {d} : Alone(e)
<1>1. PICK put \in SUBSET run[d].plan.send :
        /\ packs' = packs \cup {NextPack(d, put)}
        /\ run' = [run EXCEPT ![d].state = Sent(d, NextPack(d, put)),
                              ![d].plan  = [NoPlan EXCEPT !.send = run[d].plan.send \ put]]
        /\ run[d].step = "sending" /\ Tell(d)
        /\ UNCHANGED <<store, saved, overlay, restored, now, lost>>
  BY DEF Send, MayPack
<1> DEFINE sent == Sent(d, NextPack(d, put))
           plan == [NoPlan EXCEPT !.send = run[d].plan.send \ put]
<1>2. run' = [run EXCEPT ![d].state = sent, ![d].plan = plan]
  BY <1>1
<1>3. \A e \in Devices \ {d} : mine'[e] = mine[e]
  BY <1>1 DEF Tell, TypeOK
<1>4. /\ run'[d].step = run[d].step /\ run'[d].at = run[d].at
      /\ run'[d].state = sent /\ run'[d].plan = plan
      /\ run'[d].listed = run[d].listed /\ run'[d].here = run[d].here
      /\ \A e \in Devices \ {d} : run'[e] = run[e]
  <2>. HIDE DEF sent, plan
  <2>. QED BY <1>2, RunFields DEF TypeOK, RunOf
<1>. QED BY <1>1, <1>3, <1>4 DEF Alone

LEMMA EndDoes ==
  ASSUME TypeOK, NEW d \in Devices, EndWell(d) \/ EndFailing(d)
  PROVE  /\ run[d].step \in {"sending", "failing"} /\ run'[d] = NoRun
         /\ saved'[d].read = run[d].state.read /\ saved'[d].drive = run[d].state.drive
         /\ saved'[d].applied = run[d].state.applied
         /\ saved'[d].revived = Extend(run[d].state.revived, overlay[d])
         /\ overlay'[d] = None
         /\ UNCHANGED <<store, packs, restored, now, mine, lost>>
         /\ \A e \in Devices \ {d} : Alone(e)
<1>1. End(d) /\ run[d].step \in {"sending", "failing"}
  BY DEF EndWell, EndFailing
<1>2. /\ saved'[d].read = run[d].state.read /\ saved'[d].drive = run[d].state.drive
      /\ saved'[d].applied = run[d].state.applied
      /\ saved'[d].revived = Extend(run[d].state.revived, overlay[d])
      /\ \A e \in Devices \ {d} : saved'[e] = saved[e]
  BY <1>1, RunFields DEF End, TypeOK, SyncState
<1>3. /\ run'[d] = NoRun /\ overlay'[d] = None
      /\ \A e \in Devices \ {d} : run'[e] = run[e] /\ overlay'[e] = overlay[e]
      /\ UNCHANGED <<store, packs, restored, now, mine, lost>>
  BY <1>1 DEF End, TypeOK
<1>. QED BY <1>1, <1>2, <1>3 DEF Alone

LEMMA LoseDoes ==
  ASSUME TypeOK, NEW d \in Devices, NEW r \in Records, Lose(d, r)
  PROVE  /\ store'[d] = [store[d] EXCEPT ![r] = "none"] /\ lost'[d] = lost[d] \cup {r}
         /\ UNCHANGED <<packs, saved, run, overlay, restored, now, mine>>
         /\ \A e \in Devices \ {d} : Alone(e)
BY DEF Lose, TypeOK, Alone

\* A sync that fails: of its run, only the step is another.
Failing(d) == /\ run[d].step # "idle" /\ run'[d].step = "failing" /\ SameStart(d)
              /\ run'[d].plan = run[d].plan
              /\ run'[d].listed = run[d].listed /\ run'[d].here = run[d].here
              /\ UNCHANGED <<saved, overlay, restored, now>>
              /\ \A e \in Devices \ {d} : Alone(e)

LEMMA FailDoes ==
  ASSUME TypeOK, NEW d \in Devices, Fail(d) \/ AnswerLost(d) \/ ChangeFails(d)
  PROVE  Failing(d)
<1>1. run' = [run EXCEPT ![d].step = "failing"] /\ run[d].step # "idle"
  BY DEF Fail, AnswerLost, ChangeFails, MayPack
<1>2. /\ run'[d].step = "failing" /\ SameStart(d)
      /\ run'[d].plan = run[d].plan
      /\ run'[d].listed = run[d].listed /\ run'[d].here = run[d].here
      /\ \A e \in Devices \ {d} : run'[e] = run[e]
  BY <1>1, RunFields DEF TypeOK, RunOf, SameStart
<1>3. /\ UNCHANGED <<saved, overlay, restored, now>>
      /\ \A e \in Devices \ {d} : store'[e] = store[e] /\ lost'[e] = lost[e]
  BY DEF Fail, AnswerLost, ChangeFails, TypeOK
<1>4. \A e \in Devices \ {d} : mine'[e] = mine[e]
  BY DEF Fail, AnswerLost, ChangeFails, Tell, TypeOK
<1>. QED BY <1>1, <1>2, <1>3, <1>4 DEF Failing, Alone

LEMMA CrashDoes ==
  ASSUME TypeOK, NEW d \in Devices, Crash(d)
  PROVE  /\ run'[d] = NoRun /\ overlay'[d] = None
         /\ \A r \in Records :
              mine'[d][r] = IF /\ mine[d][r] = "no"
                               /\ run[d].state.applied[r] > saved[d].applied[r]
                              THEN "untold" ELSE mine[d][r]
         /\ UNCHANGED <<store, packs, saved, now, lost>>
         /\ \A e \in Devices \ {d} : Alone(e)
BY DEF Crash, Unnoted, TypeOK, Alone

LEMMA RejoinDoes ==
  ASSUME TypeOK, NEW d \in Devices, Rejoin(d)
  PROVE  /\ run[d].step = "idle" /\ saved'[d] = NewState
         /\ \A r \in Records :
              mine'[d][r] = IF mine[d][r] = "no" /\ saved[d].applied[r] > 0
                              THEN "untold" ELSE mine[d][r]
         /\ UNCHANGED <<store, packs, run, overlay, restored, now, lost>>
         /\ \A e \in Devices \ {d} : Alone(e)
BY DEF Rejoin, Running, Unnoted, None, TypeOK, Alone

\* Sessions are put back by hand, and noted with the state or beside it.
BackNoted(d, ids) ==
  /\ now' = now + 2
  /\ \A r \in Records : LET note == Clock(d) + 1 IN
       IF Running(d)
         THEN /\ overlay'[d][r] = IF r \in ids THEN note ELSE overlay[d][r]
              /\ saved'[d] = saved[d]
         ELSE /\ saved'[d].revived[r] = IF r \in ids THEN note ELSE saved[d].revived[r]
              /\ overlay'[d] = overlay[d]
  /\ saved'[d].read = saved[d].read /\ saved'[d].drive = saved[d].drive
  /\ saved'[d].applied = saved[d].applied

LEMMA RevivedDoes ==
  ASSUME TypeOK, NEW d \in Devices, NEW ids, Revived(d, ids)
  PROVE  /\ BackNoted(d, ids)
         /\ \A e \in Devices \ {d} : saved'[e] = saved[e] /\ overlay'[e] = overlay[e]
<1> DEFINE back == [r \in Records |-> IF r \in ids THEN Clock(d) + 1 ELSE 0]
<1>1. \A r \in Records : /\ back[r] = IF r \in ids THEN Clock(d) + 1 ELSE 0
                         /\ back[r] > 0 <=> r \in ids
  BY SkewAssumption DEF Clock, TypeOK
<1>2. now' = now + 2
  BY DEF Revived
<1>3. CASE Running(d)
  <2>1. overlay' = [overlay EXCEPT ![d] = Extend(overlay[d], back)] /\ saved' = saved
    BY <1>3 DEF Revived
  <2>2. overlay'[d] = Extend(overlay[d], back)
        /\ \A e \in Devices \ {d} : overlay'[e] = overlay[e]
    <3>. HIDE DEF back
    <3>. QED BY <2>1 DEF TypeOK
  <2>3. \A r \in Records : overlay'[d][r] = IF r \in ids THEN Clock(d) + 1 ELSE overlay[d][r]
    <3>. HIDE DEF back
    <3>. QED BY <1>1, <2>2 DEF Extend
  <2>. QED BY <1>2, <1>3, <2>1, <2>2, <2>3 DEF BackNoted
<1>4. CASE ~Running(d)
  <2>1. saved' = [saved EXCEPT ![d].revived = Extend(saved[d].revived, back)] /\ overlay' = overlay
    BY <1>4 DEF Revived
  <2>2. /\ saved'[d].revived = Extend(saved[d].revived, back)
        /\ saved'[d].read = saved[d].read /\ saved'[d].drive = saved[d].drive
        /\ saved'[d].applied = saved[d].applied
        /\ \A e \in Devices \ {d} : saved'[e] = saved[e]
    <3>. HIDE DEF back
    <3>. QED BY <2>1, RunFields DEF TypeOK, SyncState
  <2>3. \A r \in Records :
          saved'[d].revived[r] = IF r \in ids THEN Clock(d) + 1 ELSE saved[d].revived[r]
    <3>. HIDE DEF back
    <3>. QED BY <1>1, <2>2 DEF Extend
  <2>. QED BY <1>2, <1>4, <2>1, <2>2, <2>3 DEF BackNoted
<1>. QED BY <1>3, <1>4


\* The learner puts some sessions in the store of d and deletes others; of
\* those put there, "ids" are noted as put back.
ByLearner(d, put, forget, ids) ==
  /\ store'[d] = Made(store[d], put, put, forget)
  /\ \A r \in Records : mine'[d][r] = IF r \in forget THEN "untold" ELSE mine[d][r]
  /\ BackNoted(d, ids) \/ (ids = {} /\ UNCHANGED <<saved, overlay, now>>)
  /\ UNCHANGED <<packs, run, lost>>
  /\ \A e \in Devices \ {d} : Alone(e)
  /\ ids \subseteq put
  /\ Fills = {} => \A r \in put \ ids : store[d][r] = "none" /\ r \notin lost[d]

LEMMA LearnerDoes ==
  ASSUME TypeOK, NEW d \in Devices, Learner(d)
  PROVE  \E put, forget, ids \in SUBSET Records : ByLearner(d, put, forget, ids)
<1>1. ASSUME NEW put \in SUBSET Records, NEW forget \in SUBSET Records, HandChange(d, put, forget)
      PROVE  /\ store'[d] = Made(store[d], put, put, forget)
             /\ \A r \in Records : mine'[d][r] = IF r \in forget THEN "untold" ELSE mine[d][r]
             /\ \A e \in Devices \ {d} : store'[e] = store[e] /\ mine'[e] = mine[e]
  <2> DEFINE after == [r \in Records |->
                CASE r \in forget                                   -> "untold"
                  [] r \in forget \ forget /\ store[d][r] = "live" -> "no"
                  [] OTHER                                          -> mine[d][r]]
  <2>1. /\ store' = [store EXCEPT ![d] = Made(store[d], put, put, forget)]
        /\ mine' = [mine EXCEPT ![d] = after]
    BY <1>1 DEF HandChange, ChangeStore
  <2>2. /\ store'[d] = Made(store[d], put, put, forget)
        /\ \A e \in Devices \ {d} : store'[e] = store[e]
    BY <2>1 DEF TypeOK
  <2>3. \A r \in Records : after[r] = IF r \in forget THEN "untold" ELSE mine[d][r]
    OBVIOUS
  <2>4. mine'[d] = after /\ \A e \in Devices \ {d} : mine'[e] = mine[e]
    <3>. HIDE DEF after
    <3>. QED BY <2>1 DEF TypeOK
  <2>. HIDE DEF after
  <2>. QED BY <2>2, <2>3, <2>4
<1>2. CASE \E r \in Records : Finish(d, r)
  <2>1. PICK r \in Records : Finish(d, r)
    BY <1>2
  <2>2. ByLearner(d, {r}, {}, {})
    BY <1>1, <2>1 DEF Finish, ByLearner, Alone
  <2>. QED BY <2>2
<1>3. CASE \E r \in Records : Delete(d, r)
  <2>1. PICK r \in Records : Delete(d, r)
    BY <1>3
  <2>2. ByLearner(d, {}, {r}, {})
    BY <1>1, <2>1 DEF Delete, ByLearner, Alone
  <2>. QED BY <2>2
<1>4. CASE \E r \in Records : PutBack(d, r)
  <2>1. PICK r \in Records : PutBack(d, r)
    BY <1>4
  <2>2. /\ BackNoted(d, {r})
        /\ \A e \in Devices \ {d} : saved'[e] = saved[e] /\ overlay'[e] = overlay[e]
    BY <2>1, RevivedDoes DEF PutBack
  <2>3. HandChange(d, {r}, {}) /\ UNCHANGED <<packs, run, lost>>
    BY <2>1 DEF PutBack
  <2>4. ByLearner(d, {r}, {}, {r})
    BY <1>1, <2>2, <2>3 DEF ByLearner, Alone
  <2>. QED BY <2>4
<1>5. CASE \E was, fill \in Records : FillIn(d, was, fill)
  <2>1. PICK was \in Records, fill \in Records : FillIn(d, was, fill)
    BY <1>5
  <2>2. /\ BackNoted(d, {fill})
        /\ \A e \in Devices \ {d} : saved'[e] = saved[e] /\ overlay'[e] = overlay[e]
    BY <2>1, RevivedDoes DEF FillIn
  <2>3. HandChange(d, {fill}, {was}) /\ UNCHANGED <<packs, run, lost>>
    BY <2>1 DEF FillIn
  <2>4. ByLearner(d, {fill}, {was}, {fill})
    BY <1>1, <2>2, <2>3 DEF ByLearner, Alone
  <2>. QED BY <2>4
<1>6. CASE UndoRestore(d)
  <2> DEFINE here == {fill \in restored[d] : fill[2] \in Listed(d)}
             was  == {fill[1] : fill \in here}
             gone == {fill[2] : fill \in here}
  <2>1. was \in SUBSET Records /\ gone \in SUBSET Records
    BY FillsAssumption DEF TypeOK
  <2>2. HandChange(d, was, gone) /\ UNCHANGED <<packs, saved, run, overlay, now, lost>>
    BY <1>6 DEF UndoRestore
  <2>3. Fills = {} => was = {}
    BY DEF TypeOK
  <2>. HIDE DEF here, was, gone
  <2>4. ByLearner(d, was, gone, {})
    BY <1>1, <2>1, <2>2, <2>3 DEF ByLearner, Alone
  <2>. QED BY <2>1, <2>4
<1>. QED BY <1>2, <1>3, <1>4, <1>5, <1>6 DEF Learner

\* Of the others a step of d leaves all; the drive forgets nothing; and a
\* record that comes to be in no store of d, where it was in it or deleted
\* from it, is lost there.
Holds(d) == /\ lost[d] \subseteq lost'[d]
            /\ \A r \in Records :
                 store'[d][r] = "none" => store[d][r] = "none" \/ r \in lost'[d]

LEMMA MadeHolds ==
  ASSUME NEW here \in [Records -> Kinds], NEW put, NEW unforget, NEW forget,
         unforget \subseteq put, NEW r \in Records,
         Made(here, put, unforget, forget)[r] = "none"
  PROVE  here[r] = "none" /\ r \notin put
BY DEF Made, Kinds

LEMMA StepHolds ==
  ASSUME TypeOK, NEW d \in Devices, Sync(d) \/ Fault(d) \/ Learner(d)
  PROVE  Holds(d)
<1>1. store[d] \in [Records -> Kinds]
  BY DEF TypeOK, Kinds
<1>2. CASE Start(d) \/ Look(d) \/ List(d) \/ MakePlan(d) \/ ReadAgain(d) \/ Gather(d)
           \/ Send(d) \/ EndWell(d) \/ EndFailing(d) \/ Fail(d) \/ AnswerLost(d)
           \/ Crash(d) \/ Rejoin(d)
  BY <1>2 DEF Start, Look, List, MakePlan, ReadAgain, Gather, Send, EndWell, EndFailing, End,
              Fail, AnswerLost, Crash, Rejoin, Holds
<1>3. CASE Change(d)
  <2>1. /\ store'[d] = Made(store[d], Taken(d), Undone(d), run[d].plan.letGo)
        /\ lost' = lost
    BY <1>3, ChangeDoes
  <2>2. Undone(d) \subseteq Taken(d)
    BY DEF Undone, Taken
  <2>. QED BY <1>1, <2>1, <2>2, MadeHolds DEF Holds
<1>4. CASE \E r \in Records : Lose(d, r)
  BY <1>4 DEF Lose, Holds, TypeOK
<1>5. CASE ChangeFails(d)
  <2>1. PICK undone, put :
          /\ store'[d] = Made(store[d], put, undone, {})
          /\ lost'[d] = lost[d] \cup {r \in undone : store'[d][r] = "none"}
    BY <1>5 DEF ChangeFails, TypeOK
  <2>2. ASSUME NEW r \in Records, store'[d][r] = "none"
        PROVE  store[d][r] = "none" \/ r \in undone
    BY <1>1, <2>1, <2>2 DEF Made, Kinds
  <2>. QED BY <2>1, <2>2 DEF Holds
<1>6. CASE Learner(d)
  <2>1. PICK put, forget, ids : ByLearner(d, put, forget, ids)
    BY <1>6, LearnerDoes
  <2>2. store'[d] = Made(store[d], put, put, forget) /\ lost' = lost
    BY <2>1 DEF ByLearner
  <2>. QED BY <1>1, <2>2, MadeHolds DEF Holds
<1>. QED BY <1>2, <1>3, <1>4, <1>5, <1>6 DEF Sync, Fault

LEMMA StepAlone ==
  ASSUME TypeOK, NEW d \in Devices, Sync(d) \/ Fault(d) \/ Learner(d)
  PROVE  \A e \in Devices \ {d} : Alone(e)
<1>1. CASE Sync(d)
  <2>1. CASE Start(d) \/ Look(d) \/ List(d)
    BY <2>1, StartDoes, LookDoes, ListDoes
  <2>2. CASE MakePlan(d) \/ ReadAgain(d) \/ Gather(d)
    BY <2>2, MakePlanDoes, ReadAgainDoes, GatherDoes
  <2>3. CASE Change(d)
    BY <2>3, ChangeDoes
  <2>4. CASE Send(d)
    BY <2>4, SendDoes
  <2>5. CASE EndWell(d) \/ EndFailing(d)
    BY <2>5, EndDoes
  <2>. QED BY <1>1, <2>1, <2>2, <2>3, <2>4, <2>5 DEF Sync
<1>2. CASE Fault(d)
  BY <1>2, LoseDoes, FailDoes, CrashDoes, RejoinDoes DEF Fault, Failing
<1>3. CASE Learner(d)
  BY <1>3, LearnerDoes DEF ByLearner
<1>. QED BY <1>1, <1>2, <1>3

LEMMA StepOnward ==
  ASSUME TypeOK, TypeOK', [Next]_vars
  PROVE  Onward
<1>1. packs \subseteq packs'
  BY OwnStep DEF Next, Tick, vars
<1>2. now \in Nat /\ now' \in Nat
  BY DEF TypeOK
<1>3. ASSUME NEW d \in Devices, Sync(d) PROVE now' = now
  BY <1>3 DEF Sync, Start, Look, List, MakePlan, ReadAgain, Gather, Change, Send,
              EndWell, EndFailing, End
<1>4. ASSUME NEW d \in Devices, Fault(d) PROVE now' = now
  BY <1>4 DEF Fault, Lose, ChangeFails, AnswerLost, Fail, Crash, Rejoin
<1>5. ASSUME NEW d \in Devices, Learner(d) PROVE now <= now'
  <2>1. PICK put, forget, ids : ByLearner(d, put, forget, ids)
    BY <1>5, LearnerDoes
  <2>2. now' = now + 2 \/ now' = now
    BY <2>1 DEF ByLearner, BackNoted
  <2>. QED BY <1>2, <2>2
<1>6. now <= now'
  BY <1>2, <1>3, <1>4, <1>5 DEF Next, Tick, vars
<1>. QED BY <1>1, <1>2, <1>6 DEF Onward


-----------------------------------------------------------------------------
(***************************************************************************)
(* What a device notes as read is in its store.                            *)
(***************************************************************************)

\* What is not in the store of d, is not deleted there, nor was lost by it.
Unknown(d) == {r \in Records : store[d][r] = "none"} \ lost[d]

LEMMA UnknownShrinks ==
  ASSUME TypeOK, NEW d \in Devices, Sync(d) \/ Fault(d) \/ Learner(d)
  PROVE  Unknown(d)' \subseteq Unknown(d)
BY StepHolds DEF Holds, Unknown

\* What the drive holds that is unknown here, a sync that has read it takes:
\* whatever of the drive the device goes by later is known here by then.
Stored(d) ==
  /\ Unknown(d) \cap Alive(saved[d].drive) = {}
  /\ Unknown(d) \cap Alive(run[d].state.drive) = {}
  /\ Unknown(d) \cap run[d].listed = {}
  /\ Unknown(d) \cap run[d].here = {}
  /\ run[d].step = "started" => run[d].drive = run[d].state.drive
  /\ run[d].step \in {"read", "listed"} /\ run[d].state.read = {} =>
       Alive(run[d].drive) \subseteq run[d].bytes
  /\ run[d].step \in {"planned", "gathered"} =>
       /\ run[d].plan.take \cup run[d].plan.takeBack \subseteq run[d].bytes
       /\ Unknown(d) \cap Alive(run[d].drive) \subseteq run[d].plan.take
  /\ run[d].step = "sending" =>
       Unknown(d) \cap (run[d].plan.send \cup run[d].plan.sendBack) = {}

NotedIsStored == \A d \in Devices : Stored(d)

LEMMA NothingAlive == Alive(Blank) = {} /\ NewState.drive = Blank /\ NoRun.state = NewState
BY DEF Alive, Blank, Held, NewState, NoRun

\* A plan takes all that is alive in the drive and unknown here.
LEMMA PlanTakes ==
  ASSUME NEW d \in Devices, NEW w, NEW listed, Unknown(d) \cap listed = {}
  PROVE  /\ Unknown(d) \cap Alive(w) \subseteq Planned(d, w, listed).take
         /\ Planned(d, w, listed).take \subseteq Alive(w)
         /\ Planned(d, w, listed).takeBack \subseteq Alive(w)
BY DEF Planned, Plan, Unknown, Forgotten

\* What is alive of two words together and in neither's one, the other tells.
LEMMA TakeAlive ==
  ASSUME NEW w \in Word, NEW x \in Word, NEW r \in Alive(Take(w, x))
  PROVE  r \in Alive(w) \/ x[r].put \/ x[r].revive > 0
<1>1. /\ w[r].tomb \in Nat /\ w[r].revive \in Nat /\ x[r].tomb \in Nat /\ x[r].revive \in Nat
      /\ r \in Records
  BY DEF Word, Entry, Alive
<1>2. /\ Take(w, x)[r].put <=> w[r].put \/ x[r].put
      /\ Take(w, x)[r].tomb = Later(w[r].tomb, x[r].tomb)
      /\ Take(w, x)[r].revive = Later(w[r].revive, x[r].revive)
  BY <1>1 DEF Take
<1>. QED BY <1>1, <1>2 DEF Alive, Held, Deleted, Later

LEMMA BlankTake ==
  ASSUME NEW w \in Word
  PROVE  Alive(Take(Blank, w)) \subseteq {r \in Records : Held(w, r)}
<1>1. Alive(Blank) = {}
  BY NothingAlive
<1>2. ASSUME NEW r \in Alive(Take(Blank, w)) PROVE r \in Records /\ Held(w, r)
  BY <1>1, <1>2, BlankType, TakeAlive DEF Alive, Held
<1>. QED BY <1>2

LEMMA SyncStores ==
  ASSUME TypeInv, DriveView, NEW d \in Devices, Stored(d), Sync(d)
  PROVE  Stored(d)'
<1>1. TypeOK
  BY DEF TypeInv
<1>2. Unknown(d)' \subseteq Unknown(d)
  BY <1>1, UnknownShrinks
<1>3. CASE Start(d)
  <2>1. /\ run'[d].step = "started" /\ run'[d].state.drive = saved[d].drive
        /\ run'[d].drive = saved[d].drive /\ run'[d].listed = {} /\ run'[d].here = {}
        /\ saved' = saved
    BY <1>1, <1>3, StartDoes
  <2>. QED BY <1>2, <2>1 DEF Stored
<1>4. CASE Look(d)
  <2> DEFINE new == packs \ run[d].read
  <2>1. /\ run[d].step = "started" /\ run'[d].step = "read" /\ run'[d].state = run[d].state
        /\ run'[d].drive = Take(run[d].drive, WordOf(new))
        /\ run'[d].bytes = {r \in Records : Held(WordOf(new), r)}
        /\ run'[d].listed = run[d].listed /\ run'[d].here = run[d].here
        /\ saved' = saved
    BY <1>1, <1>4, LookDoes DEF SameStart
  <2>2. ASSUME run[d].state.read = {}
        PROVE  Alive(run'[d].drive) \subseteq run'[d].bytes
    <3>1. run[d].drive = Blank
      BY <2>1, <2>2, WordOfNone DEF Stored, DriveView, ViewOf
    <3>2. WordOf(new) \in Word
      BY PacksType
    <3>. HIDE DEF new
    <3>. QED BY <2>1, <3>1, <3>2, BlankTake
  <2>. QED BY <1>2, <2>1, <2>2 DEF Stored
<1>5. CASE List(d)
  <2>1. /\ run[d].step = "read" /\ run'[d].step = "listed" /\ run'[d].state = run[d].state
        /\ run'[d].drive = run[d].drive /\ run'[d].bytes = run[d].bytes
        /\ run'[d].listed = Listed(d) /\ run'[d].here = run[d].here
        /\ saved' = saved
    BY <1>1, <1>5, ListDoes DEF SameStart
  <2>2. Unknown(d) \cap Listed(d) = {}
    BY DEF Unknown, Listed
  <2>. QED BY <1>2, <2>1, <2>2 DEF Stored
<1>6. CASE MakePlan(d)
  <2>1. /\ run[d].step = "listed" /\ run'[d].state = run[d].state
        /\ run'[d].step = IF /\ Wanting(run'[d].plan, run[d].bytes)
                             /\ run[d].state.read # {}
                            THEN "again" ELSE "planned"
        /\ run'[d].plan = Planned(d, run[d].drive, run[d].listed)
        /\ run'[d].drive = run[d].drive /\ run'[d].bytes = run[d].bytes
        /\ run'[d].listed = run[d].listed /\ run'[d].here = run[d].here
        /\ saved' = saved
    BY <1>1, <1>6, MakePlanDoes DEF SameStart
  <2>2. /\ Unknown(d) \cap Alive(run[d].drive) \subseteq run'[d].plan.take
        /\ run'[d].plan.take \cup run'[d].plan.takeBack \subseteq Alive(run[d].drive)
    BY <2>1, PlanTakes DEF Stored
  <2>3. run'[d].step = "planned" =>
          run'[d].plan.take \cup run'[d].plan.takeBack \subseteq run[d].bytes
    BY <2>1, <2>2 DEF Stored, Wanting
  <2>. QED BY <1>2, <2>1, <2>2, <2>3 DEF Stored
<1>7. CASE ReadAgain(d)
  <2>1. /\ run'[d].step = "planned" /\ run'[d].state = run[d].state
        /\ run'[d].plan = Planned(d, run'[d].drive, run[d].listed)
        /\ run'[d].bytes = {r \in Records : Held(run'[d].drive, r)}
        /\ run'[d].listed = run[d].listed /\ run'[d].here = run[d].here
        /\ saved' = saved
    BY <1>1, <1>7, ReadAgainDoes DEF SameStart
  <2>2. /\ Unknown(d) \cap Alive(run'[d].drive) \subseteq run'[d].plan.take
        /\ run'[d].plan.take \cup run'[d].plan.takeBack \subseteq Alive(run'[d].drive)
    BY <2>1, PlanTakes DEF Stored
  <2>3. run'[d].plan.take \cup run'[d].plan.takeBack \subseteq run'[d].bytes
    BY <2>1, <2>2 DEF Alive
  <2>. QED BY <1>2, <2>1, <2>2, <2>3 DEF Stored
<1>8. CASE Gather(d)
  <2>1. /\ run[d].step = "planned" /\ run'[d].step = "gathered"
        /\ run'[d].state = run[d].state /\ run'[d].plan = run[d].plan
        /\ run'[d].drive = run[d].drive /\ run'[d].bytes = run[d].bytes
        /\ run'[d].listed = run[d].listed /\ run'[d].here \subseteq Listed(d)
        /\ saved' = saved
    BY <1>1, <1>8, GatherDoes DEF SameStart
  <2>2. Unknown(d) \cap Listed(d) = {}
    BY DEF Unknown, Listed
  <2>. QED BY <1>2, <2>1, <2>2 DEF Stored
<1>9. CASE Change(d)
  <2>1. /\ run[d].step = "gathered" /\ run'[d].step = "sending"
        /\ run'[d].state = Noted(d) /\ run'[d].plan = Sends(d)
        /\ run'[d].listed = {} /\ run'[d].here = {}
        /\ store'[d] = Made(store[d], Taken(d), Undone(d), run[d].plan.letGo)
        /\ saved' = saved
    BY <1>1, <1>9, ChangeDoes
  <2>2. run'[d].state.drive = run[d].drive
    BY <2>1 DEF Noted
  <2>3. run[d].plan.take \subseteq Taken(d)
    BY <2>1 DEF Stored, Taken
  <2>4. Unknown(d)' \cap Taken(d) = {}
    <3>1. store[d] \in [Records -> Kinds] /\ Undone(d) \subseteq Taken(d)
      BY <1>1 DEF TypeOK, Kinds, Undone, Taken
    <3>. QED BY <2>1, <3>1, MadeHolds DEF Unknown
  <2>5. Unknown(d)' \cap Alive(run'[d].state.drive) = {}
    BY <1>2, <2>1, <2>2, <2>3, <2>4 DEF Stored
  <2>6. run'[d].plan.send \cup run'[d].plan.sendBack \subseteq run[d].here
    BY <2>1 DEF Sends, NoPlan
  <2>. QED BY <1>2, <2>1, <2>5, <2>6 DEF Stored
<1>10. CASE Send(d)
  <2>1. PICK put \in SUBSET run[d].plan.send :
          /\ run[d].step = "sending" /\ run'[d].step = "sending"
          /\ run'[d].state = Sent(d, NextPack(d, put))
          /\ run'[d].plan = [NoPlan EXCEPT !.send = run[d].plan.send \ put]
          /\ run'[d].listed = run[d].listed /\ run'[d].here = run[d].here
          /\ saved' = saved
    BY <1>1, <1>10, SendDoes
  <2> DEFINE pack == NextPack(d, put)
  <2>2. run'[d].state.drive = Take(run[d].state.drive, pack)
    BY <2>1 DEF Sent
  <2>3. \A r \in Records : /\ pack[r].put => r \in run[d].plan.send
                           /\ pack[r].revive > 0 => r \in run[d].plan.sendBack
    <3>1. \A r \in Records :
            /\ pack[r].put <=> r \in put
            /\ pack[r].revive =
                 IF r \in run[d].plan.sendBack THEN run[d].state.revived[r] ELSE 0
      BY DEF NextPack
    <3>2. \A r \in Records : pack[r].put => r \in run[d].plan.send
      BY <3>1
    <3>. HIDE DEF pack
    <3>3. \A r \in Records : pack[r].revive > 0 => r \in run[d].plan.sendBack
      BY <3>1
    <3>. QED BY <3>2, <3>3
  <2>4. pack \in Word /\ run[d].state.drive \in Word
    BY <1>1, NextPackType, RunFields
  <2>5. \A r \in Alive(run'[d].state.drive) :
          r \in Alive(run[d].state.drive) \cup run[d].plan.send \cup run[d].plan.sendBack
    <3>. HIDE DEF pack
    <3>. QED BY <2>2, <2>3, <2>4, TakeAlive DEF Alive
  <2>6. run'[d].plan.send \subseteq run[d].plan.send /\ run'[d].plan.sendBack = {}
    BY <2>1 DEF NoPlan
  <2>. QED BY <1>2, <2>1, <2>5, <2>6 DEF Stored
<1>11. CASE EndWell(d) \/ EndFailing(d)
  <2>1. run'[d] = NoRun /\ saved'[d].drive = run[d].state.drive
    BY <1>1, <1>11, EndDoes
  <2>2. /\ run'[d].step = "idle" /\ run'[d].listed = {} /\ run'[d].here = {}
        /\ Alive(run'[d].state.drive) = {}
    BY <2>1, NothingAlive DEF NoRun
  <2>. QED BY <1>2, <2>1, <2>2 DEF Stored
<1>. QED BY <1>3, <1>4, <1>5, <1>6, <1>7, <1>8, <1>9, <1>10, <1>11 DEF Sync


LEMMA FaultStores ==
  ASSUME TypeInv, NEW d \in Devices, Stored(d), Fault(d)
  PROVE  Stored(d)'
<1>1. TypeOK
  BY DEF TypeInv
<1>2. Unknown(d)' \subseteq Unknown(d)
  BY <1>1, UnknownShrinks
<1>3. CASE \E r \in Records : Lose(d, r)
  <2>1. saved' = saved /\ run' = run
    BY <1>3 DEF Lose
  <2>. QED BY <1>2, <2>1 DEF Stored
<1>4. CASE Fail(d) \/ AnswerLost(d) \/ ChangeFails(d)
  <2>1. /\ run'[d].step = "failing" /\ run'[d].state = run[d].state
        /\ run'[d].listed = run[d].listed /\ run'[d].here = run[d].here
        /\ saved' = saved
    BY <1>1, <1>4, FailDoes DEF Failing, SameStart
  <2>. QED BY <1>2, <2>1 DEF Stored
<1>5. CASE Crash(d)
  <2>1. run'[d] = NoRun /\ saved' = saved
    BY <1>1, <1>5, CrashDoes
  <2>2. /\ run'[d].step = "idle" /\ run'[d].listed = {} /\ run'[d].here = {}
        /\ Alive(run'[d].state.drive) = {}
    BY <2>1, NothingAlive DEF NoRun
  <2>. QED BY <1>2, <2>1, <2>2 DEF Stored
<1>6. CASE Rejoin(d)
  <2>1. run' = run /\ saved'[d] = NewState
    BY <1>1, <1>6, RejoinDoes
  <2>. QED BY <1>2, <2>1, NothingAlive DEF Stored
<1>. QED BY <1>3, <1>4, <1>5, <1>6 DEF Fault

LEMMA LearnerStores ==
  ASSUME TypeInv, NEW d \in Devices, Stored(d), Learner(d)
  PROVE  Stored(d)'
<1>1. TypeOK
  BY DEF TypeInv
<1>2. Unknown(d)' \subseteq Unknown(d)
  BY <1>1, UnknownShrinks
<1>3. run' = run /\ saved'[d].drive = saved[d].drive
  BY <1>1, LearnerLeaves
<1>. QED BY <1>2, <1>3 DEF Stored

LEMMA NextStores ==
  ASSUME TypeInv, DriveView, NotedIsStored, [Next]_vars
  PROVE  NotedIsStored'
<1>1. TypeOK
  BY DEF TypeInv
<1>2. CASE Tick \/ UNCHANGED vars
  <2>1. UNCHANGED <<store, saved, run, lost>>
    BY <1>2 DEF Tick, vars
  <2>2. ASSUME NEW d \in Devices PROVE Stored(d)'
    BY <2>1 DEF NotedIsStored, Stored, Unknown
  <2>. QED BY <2>2 DEF NotedIsStored
<1>3. ASSUME NEW d \in Devices, Sync(d) \/ Fault(d) \/ Learner(d)
      PROVE  NotedIsStored'
  <2>1. ASSUME NEW e \in Devices \ {d} PROVE Stored(e)'
    <3>1. Alone(e) /\ Stored(e)
      BY <1>1, <1>3, StepAlone DEF NotedIsStored
    <3>. QED BY <3>1 DEF Alone, Stored, Unknown
  <2>2. Stored(d)'
    BY <1>3, SyncStores, FaultStores, LearnerStores DEF NotedIsStored
  <2>. QED BY <2>1, <2>2 DEF NotedIsStored
<1>. QED BY <1>2, <1>3 DEF Next

LEMMA InitStores == Init => NotedIsStored
<1>. SUFFICES ASSUME Init, NEW d \in Devices PROVE Stored(d)
  BY DEF NotedIsStored
<1>1. saved[d] = NewState /\ run[d] = NoRun
  BY DEF Init
<1>2. run[d].step = "idle" /\ run[d].listed = {} /\ run[d].here = {}
  BY <1>1 DEF NoRun
<1>. QED BY <1>1, <1>2, NothingAlive DEF Stored

\* Packs are noted as read only once what they hold is in the store: of all
\* the drive holds by what a device noted, it lists each, or deleted it, or
\* lost it since; whatever failed, whenever the app stopped (run.rs,
\* sync_once).
THEOREM ReadIsStoredEver == Spec => []ReadIsStored
<1>1. NotedIsStored => ReadIsStored
  BY DEF NotedIsStored, Stored, ReadIsStored, Unknown, Alive
<1>2. IInv /\ NotedIsStored /\ [Next]_vars => NotedIsStored'
  BY NextStores DEF IInv
<1>. QED BY IInvInductive, InitStores, <1>1, <1>2, PTL DEF Spec


-----------------------------------------------------------------------------
(***************************************************************************)
(* A sync goes by its plan until its change: what it does then, it does as *)
(* planned of what it read and what its device noted.                      *)
(***************************************************************************)
Planning == {"planned", "gathered"}

AsPlanned(d) ==
  run[d].step \in Planning =>
    \E forgotten \in SUBSET Records :
      run[d].plan = Plan(run[d].drive, run[d].listed, forgotten,
                         run[d].state.applied, run[d].state.revived)

GoByPlans == \A d \in Devices : AsPlanned(d)

LEMMA StepGoesByPlan ==
  ASSUME TypeOK, NEW d \in Devices, AsPlanned(d), Sync(d) \/ Fault(d) \/ Learner(d)
  PROVE  AsPlanned(d)'
<1>1. CASE MakePlan(d) \/ ReadAgain(d)
  <2>1. run'[d].plan = Planned(d, run'[d].drive, run'[d].listed) /\ SameStart(d)
    BY <1>1, MakePlanDoes, ReadAgainDoes
  <2>2. run'[d].plan = Plan(run'[d].drive, run'[d].listed, Forgotten(d),
                            run'[d].state.applied, run'[d].state.revived)
    BY <2>1 DEF Planned, SameStart
  <2>3. Forgotten(d) \in SUBSET Records
    BY DEF Forgotten
  <2>. QED BY <2>2, <2>3 DEF AsPlanned
<1>2. CASE Gather(d)
  <2>1. /\ run[d].step \in Planning /\ run'[d].plan = run[d].plan
        /\ run'[d].drive = run[d].drive /\ run'[d].listed = run[d].listed
        /\ run'[d].state = run[d].state
    BY <1>2, GatherDoes DEF SameStart, Planning
  <2>. QED BY <2>1 DEF AsPlanned
<1>3. CASE \/ Start(d) \/ Look(d) \/ List(d) \/ Change(d) \/ Send(d)
           \/ Fail(d) \/ AnswerLost(d) \/ ChangeFails(d)
  <2>1. run'[d].step \notin Planning
    BY <1>3, StartDoes, LookDoes, ListDoes, ChangeDoes, SendDoes, FailDoes
       DEF Planning, Failing
  <2>. QED BY <2>1 DEF AsPlanned
<1>4. CASE EndWell(d) \/ EndFailing(d) \/ Crash(d)
  <2>1. run'[d].step = "idle"
    BY <1>4, EndDoes, CrashDoes DEF NoRun
  <2>. QED BY <2>1 DEF AsPlanned, Planning
<1>5. CASE (\E r \in Records : Lose(d, r)) \/ Rejoin(d) \/ Learner(d)
  <2>1. run' = run
    BY <1>5, LoseDoes, RejoinDoes, LearnerLeaves
  <2>. QED BY <2>1 DEF AsPlanned
<1>. QED BY <1>1, <1>2, <1>3, <1>4, <1>5 DEF Sync, Fault

\* What a plan says of each record.
LEMMA PlanSays ==
  ASSUME TypeOK, NEW d \in Devices, AsPlanned(d), run[d].step \in Planning, NEW r \in Records
  PROVE  /\ r \in run[d].plan.take \cup run[d].plan.takeBack \cup run[d].plan.sendDeleted =>
              Held(run[d].drive, r) /\ ~Deleted(run[d].drive, r) /\ r \notin run[d].listed
         /\ r \in run[d].plan.letGo =>
              /\ Deleted(run[d].drive, r) /\ r \in run[d].listed
              /\ run[d].state.revived[r] <= run[d].drive[r].tomb
         /\ r \in run[d].plan.takeBack => run[d].drive[r].revive > run[d].state.applied[r]
         /\ r \in run[d].plan.sendDeleted => run[d].state.applied[r] = 0
         /\ r \in run[d].plan.sendBack <=>
              /\ Deleted(run[d].drive, r) /\ r \in run[d].listed
              /\ run[d].state.revived[r] > run[d].drive[r].tomb
         /\ Held(run[d].drive, r) /\ ~Deleted(run[d].drive, r) /\ r \notin run[d].listed =>
              \/ r \in run[d].plan.take \cup run[d].plan.takeBack
              \/ run[d].state.applied[r] = 0
              \/ run[d].drive[r].revive <= run[d].state.applied[r]
<1>1. PICK forgotten \in SUBSET Records :
        run[d].plan = Plan(run[d].drive, run[d].listed, forgotten,
                           run[d].state.applied, run[d].state.revived)
  BY DEF AsPlanned
<1>2. /\ run[d].drive[r].revive \in Nat /\ run[d].drive[r].tomb \in Nat
      /\ run[d].state.applied[r] \in Nat /\ run[d].state.revived[r] \in Nat
      /\ run[d].listed \in SUBSET Records
  BY RunFields DEF Word, Entry, Times
<1>. QED BY <1>1, <1>2 DEF Plan, Alive

\* What a sync notes as it changes the store, record by record.
LEMMA NotedSays ==
  ASSUME TypeOK, NEW d \in Devices, AsPlanned(d), run[d].step \in Planning, NEW r \in Records
  PROVE  /\ Noted(d).read = run[d].read /\ Noted(d).drive = run[d].drive
         /\ Noted(d).applied[r] = IF r \in run[d].plan.letGo THEN run[d].drive[r].tomb
                                  ELSE IF r \in Undone(d) THEN 0
                                  ELSE run[d].state.applied[r]
         /\ Noted(d).revived[r] = IF r \in run[d].plan.sendBack THEN run[d].state.revived[r]
                                  ELSE 0
         /\ ~(r \in run[d].plan.letGo /\ r \in Taken(d))
<1>1. ~(r \in run[d].plan.letGo /\ r \in run[d].plan.take \cup run[d].plan.takeBack)
  BY PlanSays
<1>2. ~(r \in run[d].plan.letGo /\ r \in Undone(d)) /\ ~(r \in run[d].plan.letGo /\ r \in Taken(d))
  BY <1>1 DEF Undone, Taken
<1>3. Noted(d).applied[r] = IF r \in run[d].plan.letGo THEN run[d].drive[r].tomb
                            ELSE IF r \in Undone(d) THEN 0
                            ELSE run[d].state.applied[r]
  <2>1. CASE r \in run[d].plan.letGo
    BY <1>2, <2>1 DEF Noted
  <2>2. CASE r \in Undone(d)
    BY <1>2, <2>2 DEF Noted
  <2>3. CASE r \notin run[d].plan.letGo /\ r \notin Undone(d)
    BY <2>3 DEF Noted
  <2>. QED BY <1>2, <2>1, <2>2, <2>3
<1>. QED BY <1>2, <1>3 DEF Noted


-----------------------------------------------------------------------------
(***************************************************************************)
(* No device waits for what cannot come.                                   *)
(***************************************************************************)

\* A deletion a device took from the drive, the drive made, no sooner than
\* the device noted.
AppliedIsSaid(v) == \A r \in Records : v.applied[r] <= v.drive[r].tomb

Said == \A d \in Devices : AppliedIsSaid(saved[d]) /\ AppliedIsSaid(run[d].state)

LEMMA SaidOfNew == AppliedIsSaid(NewState) /\ AppliedIsSaid(NoRun.state)
BY DEF AppliedIsSaid, NewState, NoRun, None, Blank

LEMMA StepSaid ==
  ASSUME TypeInv, DriveView, FollowsDrive, GoByPlans, Said, NEW d \in Devices,
         Sync(d) \/ Fault(d) \/ Learner(d)
  PROVE  AppliedIsSaid(saved[d])' /\ AppliedIsSaid(run[d].state)'
<1>1. TypeOK /\ AppliedIsSaid(saved[d]) /\ AppliedIsSaid(run[d].state)
  BY DEF TypeInv, Said
<1>2. CASE Start(d)
  BY <1>1, <1>2, StartDoes DEF AppliedIsSaid
<1>3. CASE \/ Look(d) \/ List(d) \/ MakePlan(d) \/ ReadAgain(d) \/ Gather(d)
           \/ Fail(d) \/ AnswerLost(d) \/ ChangeFails(d)
  <2>1. saved' = saved /\ run'[d].state = run[d].state
    BY <1>1, <1>3, LookDoes, ListDoes, MakePlanDoes, ReadAgainDoes, GatherDoes, FailDoes
       DEF SameStart, Failing
  <2>. QED BY <1>1, <2>1 DEF AppliedIsSaid
<1>4. CASE Change(d)
  <2>1. run[d].step \in Planning /\ run'[d].state = Noted(d) /\ saved' = saved
    BY <1>1, <1>4, ChangeDoes DEF Planning
  <2>2. /\ run[d].drive = WordOf(run[d].read) /\ run[d].read \subseteq packs
        /\ run[d].state.drive = WordOf(run[d].state.read)
        /\ run[d].state.read \subseteq run[d].read
    BY <2>1 DEF DriveView, ViewOf, FollowsDrive, GoesBy, Planning, Reading
  <2>3. Leq(run[d].state.drive, run[d].drive)
    <3>1. run[d].read \in SUBSET Word /\ IsFiniteSet(run[d].read)
      BY <1>1, <2>2, PacksType, RunFields
    <3>. QED BY <2>2, <3>1, WordOfGrows
  <2>4. ASSUME NEW r \in Records PROVE Noted(d).applied[r] <= Noted(d).drive[r].tomb
    <3>1. /\ Noted(d).drive = run[d].drive
          /\ Noted(d).applied[r] = IF r \in run[d].plan.letGo THEN run[d].drive[r].tomb
                                   ELSE IF r \in Undone(d) THEN 0
                                   ELSE run[d].state.applied[r]
      BY <1>1, <2>1, NotedSays DEF GoByPlans
    <3>2. /\ run[d].drive[r].tomb \in Nat /\ run[d].state.drive[r].tomb \in Nat
          /\ run[d].state.applied[r] \in Nat
      BY <1>1, RunFields DEF Word, Entry, Times
    <3>3. /\ run[d].state.applied[r] <= run[d].state.drive[r].tomb
          /\ run[d].state.drive[r].tomb <= run[d].drive[r].tomb
      BY <1>1, <2>3 DEF AppliedIsSaid, Leq
    <3>. QED BY <3>1, <3>2, <3>3
  <2>. QED BY <1>1, <2>1, <2>4 DEF AppliedIsSaid
<1>5. CASE Send(d)
  <2>1. PICK put : run'[d].state = Sent(d, NextPack(d, put)) /\ saved' = saved
    BY <1>1, <1>5, SendDoes
  <2>2. /\ run'[d].state.drive = Take(run[d].state.drive, NextPack(d, put))
        /\ run'[d].state.applied = run[d].state.applied
    BY <2>1 DEF Sent
  <2>3. NextPack(d, put) \in Word /\ run[d].state.drive \in Word /\ run[d].state.applied \in Times
    BY <1>1, NextPackType, RunFields
  <2>4. ASSUME NEW r \in Records PROVE run'[d].state.applied[r] <= run'[d].state.drive[r].tomb
    <3> DEFINE pack == NextPack(d, put)
    <3>1. /\ run[d].state.applied[r] \in Nat /\ run[d].state.drive[r].tomb \in Nat
          /\ pack[r].tomb \in Nat
          /\ run'[d].state.drive[r].tomb = Later(run[d].state.drive[r].tomb, pack[r].tomb)
      BY <2>2, <2>3 DEF Word, Entry, Times, Take
    <3>2. run[d].state.applied[r] <= run[d].state.drive[r].tomb
      BY <1>1 DEF AppliedIsSaid
    <3>. HIDE DEF pack
    <3>. QED BY <2>2, <3>1, <3>2 DEF Later
  <2>. QED BY <1>1, <2>1, <2>4 DEF AppliedIsSaid
<1>6. CASE EndWell(d) \/ EndFailing(d)
  <2>1. /\ run'[d] = NoRun /\ saved'[d].applied = run[d].state.applied
        /\ saved'[d].drive = run[d].state.drive
    BY <1>1, <1>6, EndDoes
  <2>. QED BY <1>1, <2>1, SaidOfNew DEF AppliedIsSaid
<1>7. CASE Crash(d)
  <2>1. run'[d] = NoRun /\ saved' = saved
    BY <1>1, <1>7, CrashDoes
  <2>. QED BY <1>1, <2>1, SaidOfNew DEF AppliedIsSaid
<1>8. CASE Rejoin(d)
  <2>1. saved'[d] = NewState /\ run' = run
    BY <1>1, <1>8, RejoinDoes
  <2>. QED BY <1>1, <2>1, SaidOfNew DEF AppliedIsSaid
<1>9. CASE \E r \in Records : Lose(d, r)
  BY <1>1, <1>9 DEF Lose, AppliedIsSaid
<1>10. CASE Learner(d)
  <2>1. PICK put, forget, ids : ByLearner(d, put, forget, ids)
    BY <1>1, <1>10, LearnerDoes
  <2>2. /\ run' = run /\ saved'[d].applied = saved[d].applied
        /\ saved'[d].drive = saved[d].drive
    BY <2>1 DEF ByLearner, BackNoted
  <2>. QED BY <1>1, <2>2 DEF AppliedIsSaid
<1>. QED BY <1>2, <1>3, <1>4, <1>5, <1>6, <1>7, <1>8, <1>9, <1>10 DEF Sync, Fault

LEMMA NextSaid ==
  ASSUME TypeInv, DriveView, FollowsDrive, GoByPlans, Said, [Next]_vars
  PROVE  GoByPlans' /\ Said'
<1>1. TypeOK
  BY DEF TypeInv
<1>2. CASE Tick \/ UNCHANGED vars
  <2>1. UNCHANGED <<saved, run>>
    BY <1>2 DEF Tick, vars
  <2>2. GoByPlans'
    BY <2>1 DEF GoByPlans, AsPlanned
  <2>3. Said'
    BY <2>1 DEF Said, AppliedIsSaid
  <2>. QED BY <2>2, <2>3
<1>3. ASSUME NEW d \in Devices, Sync(d) \/ Fault(d) \/ Learner(d)
      PROVE  GoByPlans' /\ Said'
  <2>1. \A e \in Devices \ {d} : run'[e] = run[e] /\ saved'[e] = saved[e]
    BY <1>1, <1>3, OwnStep
  <2>2. AsPlanned(d)'
    BY <1>1, <1>3, StepGoesByPlan DEF GoByPlans
  <2>3. \A e \in Devices \ {d} : AsPlanned(e)'
    BY <2>1 DEF GoByPlans, AsPlanned
  <2>4. AppliedIsSaid(saved[d])' /\ AppliedIsSaid(run[d].state)'
    BY <1>3, StepSaid
  <2>5. \A e \in Devices \ {d} : AppliedIsSaid(saved[e])' /\ AppliedIsSaid(run[e].state)'
    BY <2>1 DEF Said, AppliedIsSaid
  <2>6. GoByPlans'
    BY <2>2, <2>3 DEF GoByPlans
  <2>. QED BY <2>4, <2>5, <2>6 DEF Said
<1>. QED BY <1>2, <1>3 DEF Next

LEMMA InitSaid == Init => GoByPlans /\ Said
<1>1. Init => Said
  BY SaidOfNew DEF Init, Said
<1>2. Init => GoByPlans
  BY DEF Init, GoByPlans, AsPlanned, Planning, NoRun
<1>. QED BY <1>1, <1>2


\* Where no clock is an odd time ahead, what is deleted is deleted at an even
\* time, and what is put back, at an odd one: no session is deleted and put
\* back in the same millisecond.
Even(n) == n % 2 = 0

EvenWord(w)  == \A r \in Records : Even(w[r].tomb) /\ (w[r].revive = 0 \/ ~Even(w[r].revive))
OddTimes(t)  == \A r \in Records : t[r] = 0 \/ ~Even(t[r])
EvenTimes(t) == \A r \in Records : Even(t[r])
EvenState(v) == EvenTimes(v.applied) /\ OddTimes(v.revived)
EvenRun(d)   == /\ EvenState(saved[d]) /\ EvenState(run[d].state)
                /\ Even(run[d].at) /\ OddTimes(overlay[d])

Apart == /\ Even(now)
         /\ \A p \in packs : EvenWord(p)
         /\ \A d \in Devices : EvenRun(d)

SkewIsEven == \A d \in Devices : Even(Skew[d])

LEMMA EvenSums ==
  /\ Even(0)
  /\ \A n \in Nat : Even(n) => Even(n + 2) /\ ~Even(n + 1)
BY DEF Even

LEMMA EvenClock ==
  ASSUME TypeOK, SkewIsEven, Even(now), NEW d \in Devices
  PROVE  Clock(d) \in Nat /\ Even(Clock(d)) /\ ~Even(Clock(d) + 1)
<1>1. now \in Nat /\ Skew[d] \in Nat /\ Even(Skew[d])
  BY SkewAssumption DEF TypeOK, SkewIsEven
<1>2. PICK m \in Nat, n \in Nat : m = now /\ n = Skew[d] /\ Even(m) /\ Even(n)
  BY <1>1
<1>3. m + n \in Nat /\ Even(m + n) /\ ~Even(m + n + 1)
  BY <1>2 DEF Even
<1>. QED BY <1>2, <1>3 DEF Clock

LEMMA EvenWordOf ==
  ASSUME NEW P \in SUBSET Word, IsFiniteSet(P), \A p \in P : EvenWord(p)
  PROVE  EvenWord(WordOf(P))
<1>. SUFFICES ASSUME NEW r \in Records
              PROVE  /\ Even(WordOf(P)[r].tomb)
                     /\ WordOf(P)[r].revive = 0 \/ ~Even(WordOf(P)[r].revive)
  BY DEF EvenWord
<1> DEFINE tombs == {p[r].tomb : p \in P}
           revives == {p[r].revive : p \in P}
<1>1. Latest(tombs) \in tombs \cup {0} /\ Latest(revives) \in revives \cup {0}
  BY TimesFinite, LatestIs
<1>2. \A t \in tombs : Even(t)
  BY DEF EvenWord
<1>3. \A t \in revives : t = 0 \/ ~Even(t)
  BY DEF EvenWord
<1>4. WordOf(P)[r].tomb = Latest(tombs) /\ WordOf(P)[r].revive = Latest(revives)
  BY DEF WordOf
<1>. HIDE DEF tombs, revives
<1>. QED BY <1>1, <1>2, <1>3, <1>4, EvenSums

LEMMA EvenOfNew == EvenState(NewState) /\ OddTimes(None) /\ EvenState(NoRun.state) /\ Even(NoRun.at)
BY EvenSums DEF EvenState, EvenTimes, OddTimes, NewState, NoRun, None

LEMMA ExtendOdd ==
  ASSUME NEW s, NEW t, OddTimes(s), OddTimes(t)
  PROVE  OddTimes(Extend(s, t))
BY DEF OddTimes, Extend

LEMMA StepApart ==
  ASSUME TypeInv, DriveView, GoByPlans, Apart, SkewIsEven, NEW d \in Devices,
         Sync(d) \/ Fault(d) \/ Learner(d)
  PROVE  /\ Even(now)'
         /\ \A p \in packs' : EvenWord(p)
         /\ EvenRun(d)'
<1>1. TypeOK /\ EvenRun(d) /\ Even(now) /\ \A p \in packs : EvenWord(p)
  BY DEF TypeInv, Apart
<1>2. CASE Start(d)
  <2>1. /\ run'[d].at = Clock(d) /\ run'[d].state.applied = saved[d].applied
        /\ run'[d].state.revived = Extend(saved[d].revived, overlay[d])
        /\ overlay'[d] = None
        /\ UNCHANGED <<packs, saved, now>>
    BY <1>1, <1>2, StartDoes
  <2>. QED BY <1>1, <2>1, EvenClock, ExtendOdd, EvenOfNew DEF EvenRun, EvenState
<1>3. CASE \/ Look(d) \/ List(d) \/ MakePlan(d) \/ ReadAgain(d) \/ Gather(d)
           \/ Fail(d) \/ ChangeFails(d)
  <2>1. UNCHANGED <<saved, overlay, now>> /\ SameStart(d)
    BY <1>1, <1>3, LookDoes, ListDoes, MakePlanDoes, ReadAgainDoes, GatherDoes, FailDoes
       DEF Failing
  <2>2. packs' = packs
    BY <1>3 DEF Look, List, MakePlan, ReadAgain, Gather, Fail, ChangeFails
  <2>. QED BY <1>1, <2>1, <2>2 DEF EvenRun, SameStart
<1>4. CASE Change(d)
  <2>1. /\ run[d].step \in Planning /\ run'[d].state = Noted(d) /\ run'[d].at = run[d].at
        /\ UNCHANGED <<packs, saved, overlay, now>>
    BY <1>1, <1>4, ChangeDoes DEF Planning
  <2>2. EvenWord(run[d].drive)
    <3>1. run[d].drive = WordOf(run[d].read) /\ run[d].read \in SUBSET packs
      BY DEF DriveView, ViewOf
    <3>2. IsFiniteSet(run[d].read) /\ run[d].read \in SUBSET Word
      BY <1>1, <3>1, PacksType, RunFields
    <3>. QED BY <1>1, <3>1, <3>2, EvenWordOf
  <2>3. ASSUME NEW r \in Records
        PROVE  /\ Even(Noted(d).applied[r])
               /\ Noted(d).revived[r] = 0 \/ ~Even(Noted(d).revived[r])
    <3>1. /\ Noted(d).applied[r] = IF r \in run[d].plan.letGo THEN run[d].drive[r].tomb
                                   ELSE IF r \in Undone(d) THEN 0
                                   ELSE run[d].state.applied[r]
          /\ Noted(d).revived[r] = IF r \in run[d].plan.sendBack THEN run[d].state.revived[r]
                                   ELSE 0
      BY <1>1, <2>1, NotedSays DEF GoByPlans
    <3>2. /\ Even(run[d].drive[r].tomb) /\ Even(run[d].state.applied[r])
          /\ run[d].state.revived[r] = 0 \/ ~Even(run[d].state.revived[r])
      BY <1>1, <2>2 DEF EvenWord, EvenRun, EvenState, EvenTimes, OddTimes
    <3>. QED BY <3>1, <3>2, EvenSums
  <2>. QED BY <1>1, <2>1, <2>3 DEF EvenRun, EvenState, EvenTimes, OddTimes
<1>5. ASSUME NEW put PROVE EvenWord(NextPack(d, put))
  <2>. SUFFICES ASSUME NEW r \in Records
                PROVE  /\ Even(NextPack(d, put)[r].tomb)
                       /\ \/ NextPack(d, put)[r].revive = 0
                          \/ ~Even(NextPack(d, put)[r].revive)
    BY DEF EvenWord
  <2>1. /\ NextPack(d, put)[r].tomb = IF r \in run[d].plan.sendDeleted THEN run[d].at ELSE 0
        /\ NextPack(d, put)[r].revive =
             IF r \in run[d].plan.sendBack THEN run[d].state.revived[r] ELSE 0
    BY DEF NextPack
  <2>2. Even(run[d].at) /\ (run[d].state.revived[r] = 0 \/ ~Even(run[d].state.revived[r]))
    BY <1>1 DEF EvenRun, EvenState, OddTimes
  <2>. QED BY <2>1, <2>2, EvenSums
<1>6. CASE Send(d)
  <2>1. PICK put : /\ packs' = packs \cup {NextPack(d, put)}
                   /\ run'[d].state = Sent(d, NextPack(d, put)) /\ run'[d].at = run[d].at
                   /\ UNCHANGED <<saved, overlay, now>>
    BY <1>1, <1>6, SendDoes
  <2>2. /\ run'[d].state.applied = run[d].state.applied
        /\ \A r \in Records : run'[d].state.revived[r] \in {0, run[d].state.revived[r]}
    BY <2>1 DEF Sent
  <2>3. \A p \in packs' : EvenWord(p)
    BY <1>1, <1>5, <2>1
  <2>4. EvenState(run'[d].state)
    BY <1>1, <2>2 DEF EvenRun, EvenState, OddTimes
  <2>. QED BY <1>1, <2>1, <2>3, <2>4 DEF EvenRun, EvenState, EvenTimes, OddTimes
<1>7. CASE AnswerLost(d)
  <2>1. PICK put : packs' = packs \cup {NextPack(d, put)}
    BY <1>7 DEF AnswerLost
  <2>2. UNCHANGED <<saved, overlay, now>> /\ SameStart(d)
    BY <1>1, <1>7, FailDoes DEF Failing
  <2>. QED BY <1>1, <1>5, <2>1, <2>2 DEF EvenRun, SameStart
<1>8. CASE EndWell(d) \/ EndFailing(d)
  <2>1. /\ run'[d] = NoRun /\ saved'[d].applied = run[d].state.applied
        /\ saved'[d].revived = Extend(run[d].state.revived, overlay[d])
        /\ overlay'[d] = None /\ packs' = packs /\ now' = now
    BY <1>1, <1>8, EndDoes
  <2>. QED BY <1>1, <2>1, ExtendOdd, EvenOfNew DEF EvenRun, EvenState
<1>9. CASE Crash(d)
  <2>1. /\ run'[d] = NoRun /\ overlay'[d] = None /\ UNCHANGED <<packs, saved, now>>
    BY <1>1, <1>9, CrashDoes
  <2>. QED BY <1>1, <2>1, EvenOfNew DEF EvenRun
<1>10. CASE Rejoin(d)
  <2>1. saved'[d] = NewState /\ UNCHANGED <<packs, run, overlay, now>>
    BY <1>1, <1>10, RejoinDoes
  <2>. QED BY <1>1, <2>1, EvenOfNew DEF EvenRun
<1>11. CASE \E r \in Records : Lose(d, r)
  BY <1>1, <1>11 DEF Lose, EvenRun
<1>12. CASE Learner(d)
  <2>1. PICK put, forget, ids : ByLearner(d, put, forget, ids)
    BY <1>1, <1>12, LearnerDoes
  <2>2. packs' = packs /\ run' = run
    BY <2>1 DEF ByLearner
  <2>3. CASE UNCHANGED <<saved, overlay, now>>
    BY <1>1, <2>2, <2>3 DEF EvenRun
  <2>4. CASE BackNoted(d, ids)
    <3>1. now' = now + 2 /\ saved'[d].applied = saved[d].applied
      BY <2>4 DEF BackNoted
    <3>2. Even(now')
      BY <1>1, <3>1, EvenSums DEF TypeOK
    <3>3. \A r \in Records :
            /\ overlay'[d][r] \in {Clock(d) + 1, overlay[d][r]}
            /\ saved'[d].revived[r] \in {Clock(d) + 1, saved[d].revived[r]}
      BY <2>4 DEF BackNoted
    <3>4. OddTimes(overlay'[d]) /\ OddTimes(saved'[d].revived)
      BY <1>1, <3>3, EvenClock DEF EvenRun, EvenState, OddTimes
    <3>. QED BY <1>1, <2>2, <3>1, <3>2, <3>4 DEF EvenRun, EvenState
  <2>. QED BY <2>1, <2>3, <2>4 DEF ByLearner
<1>. QED BY <1>2, <1>3, <1>4, <1>6, <1>7, <1>8, <1>9, <1>10, <1>11, <1>12 DEF Sync, Fault


LEMMA NextApart ==
  ASSUME TypeInv, DriveView, GoByPlans, Apart, SkewIsEven, [Next]_vars
  PROVE  Apart'
<1>1. TypeOK
  BY DEF TypeInv
<1>2. CASE Tick \/ UNCHANGED vars
  <2>1. /\ UNCHANGED <<packs, saved, run, overlay>>
        /\ now' = now \/ now' = now + 2
    BY <1>2 DEF Tick, vars
  <2>2. Even(now')
    BY <1>1, <2>1, EvenSums DEF Apart, TypeOK
  <2>. QED BY <2>1, <2>2 DEF Apart, EvenRun
<1>3. ASSUME NEW d \in Devices, Sync(d) \/ Fault(d) \/ Learner(d)
      PROVE  Apart'
  <2>1. Even(now)' /\ (\A p \in packs' : EvenWord(p)) /\ EvenRun(d)'
    BY <1>3, StepApart
  <2>2. \A e \in Devices \ {d} : EvenRun(e)'
    BY <1>1, <1>3, StepAlone DEF Alone, Apart, EvenRun
  <2>. QED BY <2>1, <2>2 DEF Apart
<1>. QED BY <1>2, <1>3 DEF Next

LEMMA InitApart == Init => Apart
<1>1. Even(2)
  BY DEF Even
<1>. QED BY <1>1, EvenOfNew DEF Init, Apart, EvenRun

\* A device never waits for what cannot come: of every record alive in the
\* drive and deleted here, either it tells the drive or the drive tells it.
\* So it is where no session is deleted and put back in the same millisecond,
\* which a clock an odd time ahead of the others would let be.
THEOREM NoneIsStuckEver == ASSUME SkewIsEven PROVE Spec => []NoneIsStuck
<1>1. TypeInv /\ DriveView /\ Said /\ Apart => NoneIsStuck
  <2>. SUFFICES ASSUME TypeInv, DriveView, Said, Apart, NEW d \in Devices,
                       NEW r \in Alive(saved[d].drive), saved[d].applied[r] > 0
                PROVE  saved[d].drive[r].revive > saved[d].applied[r]
    BY DEF NoneIsStuck
  <2>1. r \in Records /\ ~(saved[d].drive[r].tomb > saved[d].drive[r].revive)
    BY DEF Alive, Deleted
  <2>2. /\ saved[d].drive[r].tomb \in Nat /\ saved[d].drive[r].revive \in Nat
        /\ saved[d].applied[r] \in Nat
    BY <2>1, RunFields DEF TypeInv, Word, Entry, Times
  <2>3. saved[d].applied[r] <= saved[d].drive[r].tomb
    BY <2>1 DEF Said, AppliedIsSaid
  <2>4. saved[d].drive[r].revive # 0 /\ saved[d].drive[r].revive >= saved[d].applied[r]
    BY <2>1, <2>2, <2>3
  <2>5. ~Even(saved[d].drive[r].revive)
    <3>1. saved[d].drive = WordOf(saved[d].read) /\ saved[d].read \in SUBSET packs
      BY DEF DriveView, ViewOf
    <3>2. IsFiniteSet(saved[d].read) /\ saved[d].read \in SUBSET Word
      BY <3>1, PacksType, RunFields DEF TypeInv
    <3>3. \A p \in saved[d].read : EvenWord(p)
      BY <3>1 DEF Apart
    <3>4. EvenWord(saved[d].drive)
      BY <3>1, <3>2, <3>3, EvenWordOf
    <3>. QED BY <2>1, <2>4, <3>4 DEF EvenWord
  <2>6. Even(saved[d].applied[r])
    BY <2>1 DEF Apart, EvenRun, EvenState, EvenTimes
  <2>7. saved[d].drive[r].revive # saved[d].applied[r]
    BY <2>5, <2>6
  <2>. QED BY <2>2, <2>4, <2>7
<1> DEFINE All == IInv /\ GoByPlans /\ Said /\ Apart
<1>2. Init => All
  BY IInvInductive, InitSaid, InitApart
<1>3. All /\ [Next]_vars => All'
  BY IInvInductive, NextSaid, NextApart DEF IInv
<1>4. All => NoneIsStuck
  BY <1>1 DEF IInv
<1>. HIDE DEF All
<1>. QED BY <1>2, <1>3, <1>4, PTL DEF Spec


-----------------------------------------------------------------------------
(***************************************************************************)
(* A device tells the drive of its own deletions only.                     *)
(***************************************************************************)

\* When each deletion d took from the drive was made, as it has it now.
AppliedNow(d) == IF Running(d) THEN run[d].state.applied ELSE saved[d].applied

\* A deletion here that is not the learner's is one the device has noted it
\* took; and none such is among those a sync is to tell of.
OwnDeletions(d) ==
  /\ \A r \in Forgotten(d) : mine[d][r] = "no" => AppliedNow(d)[r] > 0
  /\ run[d].step \in Planning \cup {"sending"} =>
       \A r \in run[d].plan.sendDeleted : mine[d][r] # "no"

DeletionsNoted == \A d \in Devices : OwnDeletions(d)

\* A step at which the store and the deletions of d stay, and its run goes on.
LEMMA OwnStays ==
  ASSUME TypeOK, NEW d \in Devices, OwnDeletions(d),
         store'[d] = store[d], \A r \in Records : mine'[d][r] = "no" => mine[d][r] = "no",
         AppliedNow(d)' = AppliedNow(d),
         run'[d].step \in Planning \cup {"sending"} =>
           \A r \in run'[d].plan.sendDeleted : r \in Records /\ mine[d][r] # "no"
  PROVE  OwnDeletions(d)'
BY DEF OwnDeletions, Forgotten

LEMMA SyncIsOwn ==
  ASSUME TypeInv, GoByPlans, NEW d \in Devices, OwnDeletions(d), Sync(d)
  PROVE  OwnDeletions(d)'
<1>1. TypeOK
  BY DEF TypeInv
<1>2. CASE Start(d)
  <2>1. /\ run[d].step = "idle" /\ run'[d].step = "started"
        /\ run'[d].state.applied = saved[d].applied
        /\ UNCHANGED <<store, mine>>
    BY <1>1, <1>2, StartDoes
  <2>. QED BY <1>1, <2>1, OwnStays DEF AppliedNow, Running, Planning
<1>3. CASE Look(d) \/ List(d)
  <2>1. /\ run[d].step # "idle" /\ run'[d].step \in {"read", "listed"}
        /\ run'[d].state = run[d].state
        /\ UNCHANGED <<store, mine>>
    BY <1>1, <1>3, LookDoes, ListDoes DEF SameStart
  <2>. QED BY <1>1, <2>1, OwnStays DEF AppliedNow, Running, Planning
<1>4. CASE MakePlan(d) \/ ReadAgain(d)
  <2>1. /\ run[d].step # "idle" /\ run'[d].step # "idle"
        /\ run'[d].state = run[d].state
        /\ run'[d].plan = Planned(d, run'[d].drive, run[d].listed)
        /\ UNCHANGED <<store, mine>>
    BY <1>1, <1>4, MakePlanDoes, ReadAgainDoes DEF SameStart
  <2>2. \A r \in run'[d].plan.sendDeleted :
          r \in Forgotten(d) /\ run[d].state.applied[r] = 0
    BY <2>1 DEF Planned, Plan
  <2>3. \A r \in run'[d].plan.sendDeleted : r \in Records /\ mine[d][r] # "no"
    BY <2>1, <2>2 DEF OwnDeletions, AppliedNow, Running, Forgotten
  <2>. QED BY <1>1, <2>1, <2>3, OwnStays DEF AppliedNow, Running
<1>5. CASE Gather(d)
  <2>1. /\ run[d].step = "planned" /\ run'[d].step = "gathered"
        /\ run'[d].state = run[d].state /\ run'[d].plan = run[d].plan
        /\ UNCHANGED <<store, mine>>
    BY <1>1, <1>5, GatherDoes DEF SameStart
  <2>. QED BY <1>1, <2>1, OwnStays, RunFields DEF AppliedNow, Running, Planning, OwnDeletions
<1>6. CASE Change(d)
  <2>1. /\ run[d].step \in Planning /\ run[d].step = "gathered" /\ run'[d].step = "sending"
        /\ run'[d].state = Noted(d) /\ run'[d].plan = Sends(d)
        /\ store'[d] = Made(store[d], Taken(d), Undone(d), run[d].plan.letGo)
        /\ \A r \in Records :
             mine'[d][r] = IF r \in run[d].plan.letGo /\ store[d][r] = "live"
                             THEN "no" ELSE mine[d][r]
    BY <1>1, <1>6, ChangeDoes DEF Planning
  <2>2. ASSUME NEW r \in Records, store'[d][r] = "forgotten", mine'[d][r] = "no"
        PROVE  run'[d].state.applied[r] > 0
    <3>1. Noted(d).applied[r] = IF r \in run[d].plan.letGo THEN run[d].drive[r].tomb
                                ELSE IF r \in Undone(d) THEN 0
                                ELSE run[d].state.applied[r]
      BY <1>1, <2>1, NotedSays DEF GoByPlans
    <3>2. CASE r \in run[d].plan.letGo
      <4>1. run[d].drive[r].tomb > run[d].drive[r].revive
        BY <1>1, <2>1, <3>2, PlanSays DEF GoByPlans, Deleted
      <4>2. run[d].drive[r].tomb \in Nat /\ run[d].drive[r].revive \in Nat
        BY <1>1, RunFields DEF Word, Entry
      <4>. QED BY <2>1, <3>1, <3>2, <4>1, <4>2
    <3>3. CASE r \notin run[d].plan.letGo
      <4>1. mine[d][r] = "no"
        BY <2>1, <2>2, <3>3
      <4>2. store[d][r] = "forgotten" /\ r \notin Undone(d)
        <5>1. store[d] \in [Records -> Kinds] /\ Undone(d) \subseteq Taken(d)
          BY <1>1 DEF TypeOK, Kinds, Undone, Taken
        <5>2. Made(store[d], Taken(d), Undone(d), run[d].plan.letGo)[r] = "forgotten"
          BY <2>1, <2>2
        <5>. QED BY <3>3, <5>1, <5>2 DEF Made, Kinds
      <4>3. run[d].state.applied[r] > 0
        BY <2>1, <4>1, <4>2 DEF OwnDeletions, Forgotten, AppliedNow, Running
      <4>. QED BY <2>1, <3>1, <3>3, <4>2, <4>3
    <3>. QED BY <3>2, <3>3
  <2>3. ASSUME NEW r \in run'[d].plan.sendDeleted
        PROVE  mine'[d][r] # "no"
    <3>1. r \in run[d].plan.sendDeleted /\ r \in Records
      BY <1>1, <2>1, RunFields DEF Sends, NoPlan
    <3>2. r \notin run[d].plan.letGo
      BY <1>1, <2>1, <3>1, PlanSays DEF GoByPlans
    <3>3. mine[d][r] # "no"
      BY <2>1, <3>1 DEF OwnDeletions
    <3>. QED BY <2>1, <3>1, <3>2, <3>3
  <2>. QED BY <2>1, <2>2, <2>3 DEF OwnDeletions, Forgotten, AppliedNow, Running
<1>7. CASE Send(d)
  <2>1. PICK put : /\ run[d].step = "sending" /\ run'[d].step = "sending"
                   /\ run'[d].state = Sent(d, NextPack(d, put))
                   /\ run'[d].plan = [NoPlan EXCEPT !.send = run[d].plan.send \ put]
                   /\ Tell(d) /\ store' = store
    BY <1>1, <1>7, SendDoes
  <2>2. run'[d].state.applied = run[d].state.applied /\ run'[d].plan.sendDeleted = {}
    BY <2>1 DEF Sent, NoPlan
  <2>3. \A r \in Records : mine'[d][r] = "no" => mine[d][r] = "no"
    BY <1>1, <2>1 DEF Tell, TypeOK
  <2>. QED BY <1>1, <2>1, <2>2, <2>3, OwnStays DEF AppliedNow, Running
<1>8. CASE EndWell(d) \/ EndFailing(d)
  <2>1. /\ run[d].step # "idle" /\ run'[d].step = "idle"
        /\ saved'[d].applied = run[d].state.applied
        /\ UNCHANGED <<store, mine>>
    BY <1>1, <1>8, EndDoes DEF NoRun
  <2>. QED BY <1>1, <2>1, OwnStays DEF AppliedNow, Running, Planning
<1>. QED BY <1>2, <1>3, <1>4, <1>5, <1>6, <1>7, <1>8 DEF Sync

LEMMA FaultIsOwn ==
  ASSUME TypeInv, NEW d \in Devices, OwnDeletions(d), Fault(d)
  PROVE  OwnDeletions(d)'
<1>1. TypeOK
  BY DEF TypeInv
<1>2. CASE \E r \in Records : Lose(d, r)
  <2>1. UNCHANGED <<saved, run, mine>> /\ Forgotten(d)' \subseteq Forgotten(d)
    BY <1>1, <1>2 DEF Lose, Forgotten, TypeOK
  <2>. QED BY <2>1 DEF OwnDeletions, AppliedNow, Running
<1>3. CASE Fail(d) \/ AnswerLost(d) \/ ChangeFails(d)
  <2>1. /\ run[d].step # "idle" /\ run'[d].step = "failing" /\ run'[d].state = run[d].state
    BY <1>1, <1>3, FailDoes DEF Failing, SameStart
  <2>2. \A r \in Records : mine'[d][r] = "no" => mine[d][r] = "no"
    BY <1>1, <1>3 DEF Fail, AnswerLost, ChangeFails, Tell, TypeOK
  <2>3. Forgotten(d)' \subseteq Forgotten(d)
    <3>1. CASE ChangeFails(d)
      <4>1. PICK undone, put : store'[d] = Made(store[d], put, undone, {})
        BY <1>1, <3>1 DEF ChangeFails, TypeOK
      <4>. QED BY <1>1, <4>1, MadeDeletes DEF Forgotten, TypeOK, Kinds
    <3>2. CASE Fail(d) \/ AnswerLost(d)
      BY <3>2 DEF Fail, AnswerLost, Forgotten
    <3>. QED BY <1>3, <3>1, <3>2
  <2>. QED BY <2>1, <2>2, <2>3 DEF OwnDeletions, AppliedNow, Running, Planning, Forgotten
<1>4. CASE Crash(d)
  <2>1. /\ run'[d].step = "idle" /\ UNCHANGED <<store, saved>>
        /\ \A r \in Records :
             mine'[d][r] = IF mine[d][r] = "no" /\ run[d].state.applied[r] > saved[d].applied[r]
                             THEN "untold" ELSE mine[d][r]
    BY <1>1, <1>4, CrashDoes DEF NoRun
  <2>2. ASSUME NEW r \in Records, store[d][r] = "forgotten", mine'[d][r] = "no"
        PROVE  saved[d].applied[r] > 0
    <3>1. mine[d][r] = "no" /\ ~(run[d].state.applied[r] > saved[d].applied[r])
      BY <2>1, <2>2
    <3>2. run[d].state.applied[r] \in Nat /\ saved[d].applied[r] \in Nat
      BY <1>1, RunFields DEF Times
    <3>3. AppliedNow(d)[r] > 0
      BY <2>2, <3>1 DEF OwnDeletions, Forgotten
    <3>. QED BY <3>1, <3>2, <3>3 DEF AppliedNow
  <2>. QED BY <2>1, <2>2 DEF OwnDeletions, AppliedNow, Running, Planning, Forgotten
<1>5. CASE Rejoin(d)
  <2>1. /\ run[d].step = "idle" /\ UNCHANGED <<store, run>>
        /\ \A r \in Records :
             mine'[d][r] = IF mine[d][r] = "no" /\ saved[d].applied[r] > 0
                             THEN "untold" ELSE mine[d][r]
    BY <1>1, <1>5, RejoinDoes
  <2>. QED BY <2>1 DEF OwnDeletions, AppliedNow, Running, Planning, Forgotten
<1>. QED BY <1>2, <1>3, <1>4, <1>5 DEF Fault

LEMMA LearnerIsOwn ==
  ASSUME TypeInv, NEW d \in Devices, OwnDeletions(d), Learner(d)
  PROVE  OwnDeletions(d)'
<1>1. TypeOK
  BY DEF TypeInv
<1>2. PICK put, forget, ids : ByLearner(d, put, forget, ids)
  BY <1>1, LearnerDoes
<1>3. /\ store'[d] = Made(store[d], put, put, forget) /\ run' = run
      /\ \A r \in Records : mine'[d][r] = IF r \in forget THEN "untold" ELSE mine[d][r]
      /\ saved'[d].applied = saved[d].applied
  BY <1>2 DEF ByLearner, BackNoted
<1>4. \A r \in Records : mine'[d][r] = "no" => mine[d][r] = "no" /\ r \notin forget
  BY <1>3
<1>5. \A r \in Forgotten(d)' : r \in Forgotten(d) \/ r \in forget
  BY <1>1, <1>3, MadeDeletes DEF Forgotten, TypeOK, Kinds
<1>6. AppliedNow(d)' = AppliedNow(d)
  BY <1>3 DEF AppliedNow, Running
<1>7. \A r \in Forgotten(d)' : mine'[d][r] = "no" => AppliedNow(d)'[r] > 0
  BY <1>4, <1>5, <1>6 DEF OwnDeletions, Forgotten
<1>8. run'[d].step \in Planning \cup {"sending"} =>
        \A r \in run'[d].plan.sendDeleted : mine'[d][r] # "no"
  BY <1>1, <1>3, <1>4, RunFields DEF OwnDeletions
<1>. QED BY <1>7, <1>8 DEF OwnDeletions

LEMMA NextIsOwn ==
  ASSUME TypeInv, GoByPlans, DeletionsNoted, [Next]_vars
  PROVE  DeletionsNoted'
<1>1. TypeOK
  BY DEF TypeInv
<1>2. CASE Tick \/ UNCHANGED vars
  <2>1. UNCHANGED <<store, saved, run, mine>>
    BY <1>2 DEF Tick, vars
  <2>2. ASSUME NEW d \in Devices PROVE OwnDeletions(d)'
    BY <2>1 DEF DeletionsNoted, OwnDeletions, Forgotten, AppliedNow, Running
  <2>. QED BY <2>2 DEF DeletionsNoted
<1>3. ASSUME NEW d \in Devices, Sync(d) \/ Fault(d) \/ Learner(d)
      PROVE  DeletionsNoted'
  <2>1. ASSUME NEW e \in Devices \ {d} PROVE OwnDeletions(e)'
    <3>1. Alone(e) /\ OwnDeletions(e)
      BY <1>1, <1>3, StepAlone DEF DeletionsNoted
    <3>. QED BY <3>1 DEF Alone, OwnDeletions, Forgotten, AppliedNow, Running
  <2>2. OwnDeletions(d)'
    BY <1>3, SyncIsOwn, FaultIsOwn, LearnerIsOwn DEF DeletionsNoted
  <2>. QED BY <2>1, <2>2 DEF DeletionsNoted
<1>. QED BY <1>2, <1>3 DEF Next

LEMMA InitIsOwn == Init => DeletionsNoted
<1>. SUFFICES ASSUME Init, NEW d \in Devices PROVE OwnDeletions(d)
  BY DEF DeletionsNoted
<1>1. \A r \in Forgotten(d) : mine[d][r] = "untold"
  BY DEF Init, Forgotten
<1>2. run[d].step = "idle"
  BY DEF Init, NoRun
<1>. QED BY <1>1, <1>2 DEF OwnDeletions, Planning

\* A device tells the drive of a deletion only where the learner deleted the
\* record on it by hand: not where it let the record go for another's deletion
\* and has the note of that still (plan.rs, send_deleted).
THEOREM OnlyByHandEver == Spec => OnlyByHand
<1>1. TypeInv /\ DeletionsNoted /\ [Next]_vars =>
        [\A d \in Devices, r \in Records : SendsDeleted(d, r) => mine[d][r] # "no"]_vars
  <2>. SUFFICES ASSUME TypeInv, DeletionsNoted, [Next]_vars,
                       NEW d \in Devices, NEW r \in Records, SendsDeleted(d, r)
                PROVE  mine[d][r] # "no"
    OBVIOUS
  <2>1. TypeOK /\ packs' # packs /\ run'[d] # run[d] /\ r \in run[d].plan.sendDeleted
    BY DEF TypeInv, SendsDeleted
  <2>2. PICK e \in Devices : Sync(e) \/ Fault(e) \/ Learner(e)
    BY <2>1 DEF Next, Tick, vars
  <2>3. e = d
    BY <2>1, <2>2, OwnStep
  <2>4. Send(d) \/ AnswerLost(d)
    BY <2>1, <2>2, <2>3, LearnerLeaves
       DEF Sync, Fault, Start, Look, List, MakePlan, ReadAgain, Gather, Change, EndWell,
           EndFailing, End, Lose, ChangeFails, Fail, Crash, Rejoin
  <2>5. run[d].step = "sending"
    BY <2>4 DEF Send, AnswerLost, MayPack
  <2>. QED BY <2>1, <2>5 DEF DeletionsNoted, OwnDeletions
<1> DEFINE All == IInv /\ GoByPlans /\ Said /\ DeletionsNoted
<1>2. Init => All
  BY IInvInductive, InitSaid, InitIsOwn
<1>3. All /\ [Next]_vars => All'
  BY IInvInductive, NextSaid, NextIsOwn DEF IInv
<1>4. All => TypeInv /\ DeletionsNoted
  BY DEF IInv
<1>. HIDE DEF All
<1>. QED BY <1>1, <1>2, <1>3, <1>4, PTL DEF Spec, OnlyByHand


-----------------------------------------------------------------------------
(***************************************************************************)
(* The note of a session put back stays until it is of no use.             *)
(***************************************************************************)

\* The steps of a sync before it changes what it notes, and those of them by
\* which it has listed the store.
Listing == {"listed", "again", "planned", "gathered"}
Looking == {"started", "read"} \cup Listing

\* No note is of the time to come, and each is of what was in the store.
Dated(d) ==
  \A r \in Records :
    /\ saved[d].revived[r] <= Clock(d) /\ run[d].state.revived[r] <= Clock(d)
    /\ overlay[d][r] <= Clock(d)
    /\ r \in Unknown(d) => /\ saved[d].revived[r] = 0 /\ run[d].state.revived[r] = 0
                           /\ overlay[d][r] = 0

\* Notes are set beside the state only while a sync has it, and are of later
\* than the sync, which began later than what the state notes.
Beside(d) ==
  \A r \in Records :
    IF Running(d)
      THEN /\ saved[d].revived[r] <= run[d].at
           /\ run[d].at <= Clock(d)
           /\ overlay[d][r] > 0 => overlay[d][r] > run[d].at
      ELSE overlay[d][r] = 0

\* The note of r in the state d has saved is not gone from the state its sync
\* will save, or is of no use.
Due(d, r) ==
  \/ saved[d].revived[r] <= run[d].state.revived[r]
  \/ \E p \in packs : p[r].revive >= saved[d].revived[r]
  \/ ~Deleted(run[d].state.drive, r)
  \/ run[d].state.drive[r].tomb >= saved[d].revived[r]
  \/ r \notin Listed(d)
  \/ overlay[d][r] > 0

\* The notes a sync goes by are those saved, each of a session it listed, or
\* that is not listed still, or was put back since; once it changes its notes,
\* those that go are of no use.
Kept(d) ==
  \A r \in Records :
    /\ run[d].step \in Looking => run[d].state.revived[r] = saved[d].revived[r]
    /\ run[d].step \in Listing =>
         \/ r \in run[d].listed
         \/ saved[d].revived[r] = 0
         \/ r \notin Listed(d)
         \/ overlay[d][r] > 0
    /\ Running(d) => Due(d, r)

NotesStand == \A d \in Devices : Dated(d) /\ Beside(d) /\ Kept(d)

LEMMA ClockType ==
  ASSUME TypeOK, NEW d \in Devices
  PROVE  Clock(d) \in Nat
BY SkewAssumption DEF TypeOK, Clock

\* The time of a note d has after a step is one it had, or none, or of a
\* session just put back.
Moved(d, r, time) ==
  \/ time \in {0, saved[d].revived[r], run[d].state.revived[r], overlay[d][r]}
  \/ time = Clock(d) + 1 /\ now' = now + 2 /\ r \notin Unknown(d)'

LEMMA NotesMove ==
  ASSUME TypeOK, GoByPlans, NEW d \in Devices, NEW r \in Records,
         Sync(d) \/ Fault(d) \/ Learner(d)
  PROVE  /\ Moved(d, r, saved'[d].revived[r])
         /\ Moved(d, r, run'[d].state.revived[r])
         /\ Moved(d, r, overlay'[d][r])
<1>1. None[r] = 0 /\ NewState.revived[r] = 0 /\ NoRun.state.revived[r] = 0
  BY DEF None, NewState, NoRun
<1>2. \A s, t \in Times : Extend(s, t)[r] \in {s[r], t[r]}
  BY DEF Extend
<1>3. CASE Start(d)
  <2>1. /\ run'[d].state.revived = Extend(saved[d].revived, overlay[d])
        /\ overlay'[d] = None /\ saved' = saved
    BY <1>3, StartDoes
  <2>2. run'[d].state.revived[r] \in {saved[d].revived[r], overlay[d][r]}
    BY <1>2, <2>1, RunFields
  <2>. QED BY <1>1, <2>1, <2>2 DEF Moved
<1>4. CASE \/ Look(d) \/ List(d) \/ MakePlan(d) \/ ReadAgain(d) \/ Gather(d)
           \/ Fail(d) \/ AnswerLost(d) \/ ChangeFails(d)
  <2>1. UNCHANGED <<saved, overlay>> /\ run'[d].state = run[d].state
    BY <1>4, LookDoes, ListDoes, MakePlanDoes, ReadAgainDoes, GatherDoes, FailDoes
       DEF Failing, SameStart
  <2>. QED BY <2>1 DEF Moved
<1>5. CASE Change(d)
  <2>1. /\ run[d].step \in Planning /\ run'[d].state = Noted(d)
        /\ UNCHANGED <<saved, overlay>>
    BY <1>5, ChangeDoes DEF Planning
  <2>2. run'[d].state.revived[r] \in {0, run[d].state.revived[r]}
    BY <2>1, NotedSays DEF GoByPlans
  <2>. QED BY <2>1, <2>2 DEF Moved
<1>6. CASE Send(d)
  <2>1. PICK put : /\ run'[d].state = Sent(d, NextPack(d, put))
                   /\ UNCHANGED <<saved, overlay>>
    BY <1>6, SendDoes
  <2>2. run'[d].state.revived[r] \in {0, run[d].state.revived[r]}
    BY <2>1 DEF Sent
  <2>. QED BY <2>1, <2>2 DEF Moved
<1>7. CASE EndWell(d) \/ EndFailing(d)
  <2>1. /\ run'[d] = NoRun /\ overlay'[d] = None
        /\ saved'[d].revived = Extend(run[d].state.revived, overlay[d])
    BY <1>7, EndDoes
  <2>2. saved'[d].revived[r] \in {run[d].state.revived[r], overlay[d][r]}
    BY <1>2, <2>1, RunFields
  <2>. QED BY <1>1, <2>1, <2>2 DEF Moved
<1>8. CASE Crash(d) \/ Rejoin(d) \/ \E s \in Records : Lose(d, s)
  <2>1. /\ saved'[d] \in {saved[d], NewState}
        /\ run'[d] \in {run[d], NoRun} /\ overlay'[d] \in {overlay[d], None}
    BY <1>8, CrashDoes, RejoinDoes, LoseDoes
  <2>. QED BY <1>1, <2>1 DEF Moved
<1>9. CASE Learner(d)
  <2>1. PICK put, forget, ids : ByLearner(d, put, forget, ids)
    BY <1>9, LearnerDoes
  <2>2. run' = run /\ store'[d] = Made(store[d], put, put, forget) /\ ids \subseteq put
    BY <2>1 DEF ByLearner
  <2>3. r \in ids => r \notin Unknown(d)'
    <3>1. store[d] \in [Records -> Kinds]
      BY DEF TypeOK, Kinds
    <3>. QED BY <2>2, <3>1, MadeHolds DEF Unknown
  <2>4. CASE UNCHANGED <<saved, overlay>>
    BY <2>2, <2>4 DEF Moved
  <2>5. CASE BackNoted(d, ids)
    <3>1. /\ now' = now + 2
          /\ overlay'[d][r] = overlay[d][r] \/ (overlay'[d][r] = Clock(d) + 1 /\ r \in ids)
          /\ \/ saved'[d].revived[r] = saved[d].revived[r]
             \/ saved'[d].revived[r] = Clock(d) + 1 /\ r \in ids
      BY <2>5 DEF BackNoted
    <3>. QED BY <2>2, <2>3, <3>1 DEF Moved
  <2>. QED BY <2>1, <2>4, <2>5 DEF ByLearner
<1>. QED BY <1>3, <1>4, <1>5, <1>6, <1>7, <1>8, <1>9 DEF Sync, Fault

LEMMA StepDates ==
  ASSUME TypeOK, TypeOK', Onward, GoByPlans, NEW d \in Devices, Dated(d),
         Sync(d) \/ Fault(d) \/ Learner(d)
  PROVE  Dated(d)'
<1>. SUFFICES ASSUME NEW r \in Records
              PROVE  /\ saved'[d].revived[r] <= Clock(d)' /\ run'[d].state.revived[r] <= Clock(d)'
                     /\ overlay'[d][r] <= Clock(d)'
                     /\ r \in Unknown(d)' => /\ saved'[d].revived[r] = 0
                                             /\ run'[d].state.revived[r] = 0
                                             /\ overlay'[d][r] = 0
  BY DEF Dated
<1>1. /\ Moved(d, r, saved'[d].revived[r]) /\ Moved(d, r, run'[d].state.revived[r])
      /\ Moved(d, r, overlay'[d][r])
  BY NotesMove
<1>2. /\ Clock(d) \in Nat /\ Clock(d)' \in Nat /\ Clock(d) <= Clock(d)'
      /\ now' = now + 2 => Clock(d) + 1 <= Clock(d)'
  BY ClockType, SkewAssumption DEF Onward, Clock
<1>3. /\ saved[d].revived[r] \in Nat /\ run[d].state.revived[r] \in Nat /\ overlay[d][r] \in Nat
      /\ saved[d].revived[r] <= Clock(d) /\ run[d].state.revived[r] <= Clock(d)
      /\ overlay[d][r] <= Clock(d)
  BY RunFields DEF Times, Dated
<1>4. ASSUME NEW time, Moved(d, r, time)
      PROVE  time <= Clock(d)' /\ (r \in Unknown(d)' => time = 0)
  <2>1. r \in Unknown(d)' => r \in Unknown(d)
    BY UnknownShrinks
  <2>2. r \in Unknown(d)' => time = 0
    BY <1>4, <2>1 DEF Moved, Dated
  <2>3. time <= Clock(d)'
    BY <1>2, <1>3, <1>4 DEF Moved
  <2>. QED BY <2>2, <2>3
<1>. QED BY <1>1, <1>4


LEMMA StepBeside ==
  ASSUME TypeOK, TypeOK', Onward, NEW d \in Devices, Dated(d), Beside(d),
         Sync(d) \/ Fault(d) \/ Learner(d)
  PROVE  Beside(d)'
<1>. SUFFICES ASSUME NEW r \in Records
              PROVE  IF Running(d)'
                       THEN /\ saved'[d].revived[r] <= run'[d].at
                            /\ run'[d].at <= Clock(d)'
                            /\ overlay'[d][r] > 0 => overlay'[d][r] > run'[d].at
                       ELSE overlay'[d][r] = 0
  BY DEF Beside
<1>1. /\ Clock(d) \in Nat /\ Clock(d)' \in Nat /\ Clock(d) <= Clock(d)'
      /\ run[d].at \in Nat
  BY ClockType, SkewAssumption, RunFields DEF Onward, Clock
<1>2. None[r] = 0
  BY DEF None
<1>3. CASE Start(d)
  <2>1. /\ run'[d].at = Clock(d) /\ overlay'[d] = None /\ saved' = saved
        /\ run'[d].step = "started"
    BY <1>3, StartDoes
  <2>2. saved[d].revived[r] <= Clock(d)
    BY DEF Dated
  <2>. QED BY <1>1, <1>2, <2>1, <2>2 DEF Running
<1>4. CASE \/ Look(d) \/ List(d) \/ MakePlan(d) \/ ReadAgain(d) \/ Gather(d)
           \/ Change(d) \/ Send(d) \/ Fail(d) \/ AnswerLost(d) \/ ChangeFails(d)
  <2>1. /\ UNCHANGED <<saved, overlay>> /\ run'[d].at = run[d].at
        /\ run[d].step # "idle" /\ run'[d].step # "idle"
    BY <1>4, LookDoes, ListDoes, MakePlanDoes, ReadAgainDoes, GatherDoes, ChangeDoes,
       SendDoes, FailDoes
       DEF Failing, SameStart
  <2>. QED BY <1>1, <2>1 DEF Running, Beside
<1>5. CASE EndWell(d) \/ EndFailing(d) \/ Crash(d)
  <2>1. run'[d].step = "idle" /\ overlay'[d] = None
    BY <1>5, EndDoes, CrashDoes DEF NoRun
  <2>. QED BY <1>2, <2>1 DEF Running
<1>6. CASE Rejoin(d)
  <2>1. run[d].step = "idle" /\ UNCHANGED <<run, overlay>>
    BY <1>6, RejoinDoes
  <2>. QED BY <2>1 DEF Running, Beside
<1>7. CASE \E s \in Records : Lose(d, s)
  <2>1. UNCHANGED <<saved, run, overlay>>
    BY <1>7 DEF Lose
  <2>. QED BY <1>1, <2>1 DEF Running, Beside
<1>8. CASE Learner(d)
  <2>1. PICK put, forget, ids : ByLearner(d, put, forget, ids)
    BY <1>8, LearnerDoes
  <2>2. run' = run
    BY <2>1 DEF ByLearner
  <2>3. CASE UNCHANGED <<saved, overlay>>
    BY <1>1, <2>2, <2>3 DEF Running, Beside
  <2>4. CASE BackNoted(d, ids)
    <3>1. IF Running(d)
            THEN /\ overlay'[d][r] = Clock(d) + 1 \/ overlay'[d][r] = overlay[d][r]
                 /\ saved'[d] = saved[d]
            ELSE overlay'[d] = overlay[d]
      BY <2>4 DEF BackNoted
    <3>2. Running(d) => run[d].at <= Clock(d)
      BY DEF Beside
    <3>3. Running(d) => Clock(d) + 1 > run[d].at /\ run[d].at <= Clock(d)'
      BY <1>1, <3>2
    <3>. QED BY <2>2, <3>1, <3>3 DEF Running, Beside
  <2>. QED BY <2>1, <2>3, <2>4 DEF ByLearner
<1>. QED BY <1>3, <1>4, <1>5, <1>6, <1>7, <1>8 DEF Sync, Fault

\* What d had to say of a session put back stays due, or becomes so, where
\* what the drive and the store say only goes on.
LEMMA DueStays ==
  ASSUME TypeOK, NEW d \in Devices, NEW r \in Records, Due(d, r),
         packs \subseteq packs', saved'[d] = saved[d], run'[d].state = run[d].state,
         r \in Listed(d)' => r \in Listed(d),
         overlay[d][r] > 0 => overlay'[d][r] > 0
  PROVE  Due(d, r)'
BY DEF Due

LEMMA DueOfChange ==
  ASSUME TypeInv, GoByPlans, NEW d \in Devices, Kept(d), Change(d), NEW r \in Records
  PROVE  Due(d, r)'
<1>1. TypeOK
  BY DEF TypeInv
<1>2. /\ run[d].step = "gathered" /\ run[d].step \in Planning
      /\ run'[d].state = Noted(d)
      /\ store'[d] = Made(store[d], Taken(d), Undone(d), run[d].plan.letGo)
      /\ UNCHANGED <<saved, overlay>>
  BY <1>1, ChangeDoes DEF Planning
<1>3. run[d].state.revived[r] = saved[d].revived[r] /\ saved[d].revived[r] \in Nat
  BY <1>1, <1>2, RunFields DEF Kept, Looking, Listing, Times
<1>4. /\ run'[d].state.drive = run[d].drive
      /\ run'[d].state.revived[r] = IF r \in run[d].plan.sendBack THEN saved[d].revived[r] ELSE 0
  BY <1>1, <1>2, <1>3, NotedSays DEF GoByPlans
<1>5. CASE r \in run[d].plan.sendBack \/ saved[d].revived[r] = 0 \/ overlay[d][r] > 0
  BY <1>2, <1>3, <1>4, <1>5 DEF Due
<1>6. CASE r \in run[d].listed /\ r \notin run[d].plan.sendBack
  <2>1. \/ ~Deleted(run[d].drive, r)
        \/ ~(run[d].state.revived[r] > run[d].drive[r].tomb)
    BY <1>1, <1>2, <1>6, PlanSays DEF GoByPlans
  <2>2. run[d].drive[r].tomb \in Nat
    BY <1>1, RunFields DEF Word, Entry
  <2>3. ~Deleted(run[d].drive, r) \/ run[d].drive[r].tomb >= saved[d].revived[r]
    BY <1>3, <2>1, <2>2
  <2>. QED BY <1>2, <1>4, <2>3 DEF Due
<1>7. CASE r \notin Listed(d)
  <2>1. store[d] \in [Records -> Kinds] /\ store[d][r] # "live"
    BY <1>1, <1>7 DEF TypeOK, Kinds, Listed
  <2>2. r \in Listed(d)' => r \in Taken(d)
    BY <1>2, <2>1 DEF Listed, Made
  <2>3. r \in Taken(d) => ~Deleted(run[d].drive, r)
    BY <1>1, <1>2, PlanSays DEF GoByPlans, Taken
  <2>. QED BY <1>4, <2>2, <2>3 DEF Due
<1>. QED BY <1>2, <1>5, <1>6, <1>7 DEF Kept, Listing

LEMMA DueOfSend ==
  ASSUME TypeInv, NEW d \in Devices, Beside(d), NEW r \in Records, Due(d, r), Send(d)
  PROVE  Due(d, r)'
<1>1. TypeOK
  BY DEF TypeInv
<1>2. PICK put : /\ run[d].step = "sending"
                 /\ packs' = packs \cup {NextPack(d, put)}
                 /\ run'[d].state = Sent(d, NextPack(d, put))
                 /\ UNCHANGED <<store, saved, overlay>>
  BY <1>1, SendDoes
<1> DEFINE pack == NextPack(d, put)
<1>3. /\ pack \in packs' /\ packs \subseteq packs'
      /\ pack[r].tomb = IF r \in run[d].plan.sendDeleted THEN run[d].at ELSE 0
      /\ pack[r].revive = IF r \in run[d].plan.sendBack THEN run[d].state.revived[r] ELSE 0
  BY <1>2 DEF NextPack
<1>4. /\ run'[d].state.drive = Take(run[d].state.drive, pack)
      /\ run'[d].state.revived[r] = IF r \in run[d].plan.sendBack THEN 0
                                    ELSE run[d].state.revived[r]
  BY <1>2 DEF Sent
<1>5. pack \in Word /\ run[d].state.drive \in Word
  BY <1>1, NextPackType, RunFields
<1>. HIDE DEF pack
<1>6. /\ run'[d].state.drive[r].tomb = Later(run[d].state.drive[r].tomb, pack[r].tomb)
      /\ run'[d].state.drive[r].revive = Later(run[d].state.drive[r].revive, pack[r].revive)
  BY <1>4, <1>5 DEF Take
<1>7. /\ run[d].state.drive[r].tomb \in Nat /\ run[d].state.drive[r].revive \in Nat
      /\ pack[r].tomb \in Nat /\ pack[r].revive \in Nat
      /\ saved[d].revived[r] \in Nat /\ run[d].at \in Nat
      /\ saved[d].revived[r] <= run[d].at
  BY <1>1, <1>2, <1>5, RunFields DEF Word, Entry, Times, Beside, Running
<1>8. CASE saved[d].revived[r] <= run[d].state.revived[r]
  <2>1. CASE r \in run[d].plan.sendBack
    <3>1. pack[r].revive >= saved[d].revived[r]
      BY <1>3, <1>7, <1>8, <2>1
    <3>. QED BY <1>2, <1>3, <3>1 DEF Due
  <2>2. CASE r \notin run[d].plan.sendBack
    BY <1>2, <1>4, <1>8, <2>2 DEF Due
  <2>. QED BY <2>1, <2>2
<1>9. CASE \E p \in packs : p[r].revive >= saved[d].revived[r]
  BY <1>2, <1>3, <1>9 DEF Due
<1>10. CASE ~Deleted(run[d].state.drive, r)
  <2>1. CASE r \in run[d].plan.sendDeleted
    <3>1. run'[d].state.drive[r].tomb >= saved[d].revived[r]
      BY <1>3, <1>6, <1>7, <2>1 DEF Later
    <3>. QED BY <1>2, <3>1 DEF Due
  <2>2. CASE r \notin run[d].plan.sendDeleted
    <3>1. ~Deleted(run'[d].state.drive, r)
      BY <1>3, <1>6, <1>7, <1>10, <2>2 DEF Later, Deleted
    <3>. QED BY <3>1 DEF Due
  <2>. QED BY <2>1, <2>2
<1>11. CASE run[d].state.drive[r].tomb >= saved[d].revived[r]
  <2>1. run'[d].state.drive[r].tomb >= saved[d].revived[r]
    BY <1>6, <1>7, <1>11 DEF Later
  <2>. QED BY <1>2, <2>1 DEF Due
<1>12. CASE r \notin Listed(d) \/ overlay[d][r] > 0
  BY <1>2, <1>12 DEF Due, Listed
<1>. QED BY <1>8, <1>9, <1>10, <1>11, <1>12 DEF Due

LEMMA StepKeeps ==
  ASSUME TypeInv, GoByPlans, NEW d \in Devices, Dated(d), Beside(d), Kept(d), Fills = {},
         packs \subseteq packs', Sync(d) \/ Fault(d) \/ Learner(d)
  PROVE  Kept(d)'
<1>1. TypeOK
  BY DEF TypeInv
<1>. SUFFICES ASSUME NEW r \in Records
              PROVE  /\ run'[d].step \in Looking =>
                          run'[d].state.revived[r] = saved'[d].revived[r]
                     /\ run'[d].step \in Listing =>
                          \/ r \in run'[d].listed
                          \/ saved'[d].revived[r] = 0
                          \/ r \notin Listed(d)'
                          \/ overlay'[d][r] > 0
                     /\ Running(d)' => Due(d, r)'
  BY DEF Kept
<1>2. /\ saved[d].revived[r] \in Nat /\ run[d].state.revived[r] \in Nat
      /\ overlay[d][r] \in Nat
  BY <1>1, RunFields DEF Times
<1>3. CASE Start(d)
  <2>1. /\ run[d].step = "idle" /\ run'[d].step = "started"
        /\ run'[d].state.revived = Extend(saved[d].revived, overlay[d])
        /\ saved' = saved
    BY <1>1, <1>3, StartDoes
  <2>2. overlay[d][r] = 0
    BY <2>1 DEF Beside, Running
  <2>3. run'[d].state.revived[r] = saved'[d].revived[r]
    BY <2>1, <2>2 DEF Extend
  <2>4. Due(d, r)'
    BY <1>2, <2>1, <2>3 DEF Due
  <2>. QED BY <2>1, <2>3, <2>4 DEF Listing
<1>4. CASE Look(d)
  <2>1. /\ run[d].step \in Looking /\ run'[d].step = "read"
        /\ run'[d].state = run[d].state /\ saved' = saved
    BY <1>1, <1>4, LookDoes DEF SameStart, Looking
  <2>2. run'[d].state.revived[r] = saved'[d].revived[r]
    BY <2>1 DEF Kept
  <2>. QED BY <1>2, <2>1, <2>2 DEF Due, Listing
<1>5. CASE List(d)
  <2>1. /\ run[d].step \in Looking /\ run'[d].listed = Listed(d)
        /\ run'[d].state = run[d].state /\ UNCHANGED <<saved, store>>
    BY <1>1, <1>5, ListDoes DEF SameStart, Looking
  <2>2. run'[d].state.revived[r] = saved'[d].revived[r]
    BY <2>1 DEF Kept
  <2>3. r \in run'[d].listed \/ r \notin Listed(d)'
    BY <2>1 DEF Listed
  <2>. QED BY <1>2, <2>1, <2>2, <2>3 DEF Due
<1>6. CASE MakePlan(d) \/ ReadAgain(d) \/ Gather(d)
  <2>1. /\ run[d].step \in Listing /\ run'[d].listed = run[d].listed
        /\ run'[d].state = run[d].state /\ UNCHANGED <<saved, store, overlay>>
    BY <1>1, <1>6, MakePlanDoes, ReadAgainDoes, GatherDoes DEF SameStart, Listing
  <2>2. run'[d].state.revived[r] = saved'[d].revived[r]
    BY <2>1 DEF Kept, Looking
  <2>3. \/ r \in run'[d].listed \/ saved'[d].revived[r] = 0
        \/ r \notin Listed(d)' \/ overlay'[d][r] > 0
    BY <2>1 DEF Kept, Listed
  <2>. QED BY <1>2, <2>1, <2>2, <2>3 DEF Due
<1>7. CASE Change(d)
  <2>1. run'[d].step = "sending"
    BY <1>1, <1>7, ChangeDoes
  <2>2. Due(d, r)'
    BY <1>7, DueOfChange
  <2>. QED BY <2>1, <2>2 DEF Looking, Listing
<1>8. CASE Send(d)
  <2>1. run[d].step = "sending" /\ run'[d].step = "sending"
    BY <1>1, <1>8, SendDoes
  <2>2. Due(d, r)'
    BY <1>8, <2>1, DueOfSend DEF Kept, Running
  <2>. QED BY <2>1, <2>2 DEF Looking, Listing
<1>9. CASE EndWell(d) \/ EndFailing(d) \/ Crash(d)
  <2>1. run'[d].step = "idle"
    BY <1>1, <1>9, EndDoes, CrashDoes DEF NoRun
  <2>. QED BY <2>1 DEF Looking, Listing, Running
<1>10. CASE Rejoin(d)
  <2>1. run'[d].step = "idle"
    BY <1>1, <1>10, RejoinDoes
  <2>. QED BY <2>1 DEF Looking, Listing, Running
<1>11. CASE \E s \in Records : Lose(d, s)
  <2>1. /\ UNCHANGED <<packs, saved, run, overlay>>
        /\ r \in Listed(d)' => r \in Listed(d)
    BY <1>1, <1>11 DEF Lose, Listed, TypeOK
  <2>2. Due(d, r) => Due(d, r)'
    BY <1>1, <2>1, DueStays
  <2>. QED BY <2>1, <2>2 DEF Kept, Running
<1>12. CASE Fail(d) \/ AnswerLost(d) \/ ChangeFails(d)
  <2>1. /\ Running(d) /\ run'[d].step = "failing" /\ run'[d].state = run[d].state
        /\ UNCHANGED <<saved, overlay>>
    BY <1>1, <1>12, FailDoes DEF Failing, SameStart, Running
  <2>2. CASE ChangeFails(d)
    <3>1. run[d].step = "gathered"
      BY <2>2 DEF ChangeFails
    <3>2. run'[d].state.revived[r] = saved'[d].revived[r]
      BY <2>1, <3>1 DEF Kept, Looking, Listing
    <3>. QED BY <1>2, <2>1, <3>2 DEF Due, Looking, Listing
  <2>3. CASE Fail(d) \/ AnswerLost(d)
    <3>1. store' = store
      BY <2>3 DEF Fail, AnswerLost
    <3>2. Due(d, r)'
      BY <1>1, <2>1, <3>1, DueStays DEF Kept, Listed
    <3>. QED BY <2>1, <3>2 DEF Looking, Listing
  <2>. QED BY <1>12, <2>2, <2>3
<1>13. CASE Learner(d)
  <2>1. PICK put, forget, ids : ByLearner(d, put, forget, ids)
    BY <1>1, <1>13, LearnerDoes
  <2>2. /\ store'[d] = Made(store[d], put, put, forget) /\ ids \subseteq put
        /\ run' = run /\ packs' = packs
        /\ \A s \in put \ ids : s \in Records => s \in Unknown(d)
    BY <2>1 DEF ByLearner, Unknown
  <2>3. CASE ~Running(d)
    BY <2>2, <2>3 DEF Running, Looking, Listing
  <2>4. CASE Running(d)
    <3>1. /\ saved'[d] = saved[d]
          /\ overlay[d][r] > 0 => overlay'[d][r] > 0
          /\ r \in ids => overlay'[d][r] > 0
      <4>1. CASE BackNoted(d, ids)
        <5>1. /\ saved'[d] = saved[d]
              /\ overlay'[d][r] = IF r \in ids THEN Clock(d) + 1 ELSE overlay[d][r]
          BY <2>4, <4>1 DEF BackNoted
        <5>2. Clock(d) + 1 > 0
          BY <1>1, ClockType
        <5>. QED BY <5>1, <5>2
      <4>2. CASE ids = {} /\ UNCHANGED <<saved, overlay>>
        BY <4>2
      <4>. QED BY <2>1, <4>1, <4>2 DEF ByLearner
    <3>2. CASE r \in Listed(d)' => r \in Listed(d)
      <4>1. Due(d, r)'
        BY <1>1, <2>2, <2>4, <3>1, <3>2, DueStays DEF Kept
      <4>. QED BY <2>2, <2>4, <3>1, <3>2, <4>1 DEF Kept
    <3>3. CASE r \in ids
      BY <2>2, <2>4, <3>1, <3>3 DEF Kept, Due
    <3>4. CASE r \in put \ ids
      <4>1. saved[d].revived[r] = 0
        BY <2>2, <3>4 DEF Dated
      <4>. QED BY <1>2, <2>2, <2>4, <3>1, <4>1 DEF Kept, Due
    <3>5. r \in Listed(d)' => r \in Listed(d) \/ r \in put
      <4>1. store[d] \in [Records -> Kinds]
        BY <1>1 DEF TypeOK, Kinds
      <4>. QED BY <2>2, <4>1 DEF Listed, Made, Kinds
    <3>. QED BY <3>2, <3>3, <3>4, <3>5
  <2>. QED BY <2>3, <2>4
<1>. QED BY <1>3, <1>4, <1>5, <1>6, <1>7, <1>8, <1>9, <1>10, <1>11, <1>12, <1>13 DEF Sync, Fault


\* Notes stand where another device takes the step, or none does.
LEMMA NotesStay ==
  ASSUME TypeOK, TypeOK', Onward, NEW d \in Devices, Dated(d), Beside(d), Kept(d), Alone(d)
  PROVE  Dated(d)' /\ Beside(d)' /\ Kept(d)'
<1>1. Clock(d) \in Nat /\ Clock(d)' \in Nat /\ Clock(d) <= Clock(d)'
  BY ClockType, SkewAssumption DEF Onward, Clock
<1>2. /\ Unknown(d)' = Unknown(d) /\ Listed(d)' = Listed(d) /\ packs \subseteq packs'
      /\ run'[d] = run[d] /\ saved'[d] = saved[d] /\ overlay'[d] = overlay[d]
  BY DEF Alone, Onward, Unknown, Listed
<1>3. \A r \in Records : /\ saved[d].revived[r] \in Nat /\ run[d].state.revived[r] \in Nat
                         /\ overlay[d][r] \in Nat /\ run[d].at \in Nat
  BY RunFields DEF Times
<1>4. Dated(d)'
  BY <1>1, <1>2, <1>3 DEF Dated
<1>5. Beside(d)'
  BY <1>1, <1>2, <1>3 DEF Beside, Running
<1>6. ASSUME NEW r \in Records, Due(d, r) PROVE Due(d, r)'
  BY <1>2, <1>6, DueStays
<1>7. Kept(d)'
  BY <1>2, <1>6 DEF Kept, Running
<1>. QED BY <1>4, <1>5, <1>7

LEMMA NextNotes ==
  ASSUME TypeInv, TypeInv', GoByPlans, NotesStand, Fills = {}, [Next]_vars
  PROVE  NotesStand'
<1>1. TypeOK /\ TypeOK' /\ Onward
  BY StepOnward DEF TypeInv
<1>2. CASE Tick \/ UNCHANGED vars
  <2>1. \A d \in Devices : Alone(d)
    BY <1>2 DEF Tick, vars, Alone
  <2>. QED BY <1>1, <2>1, NotesStay DEF NotesStand
<1>3. ASSUME NEW d \in Devices, Sync(d) \/ Fault(d) \/ Learner(d)
      PROVE  NotesStand'
  <2>1. ASSUME NEW e \in Devices \ {d} PROVE Dated(e)' /\ Beside(e)' /\ Kept(e)'
    <3>1. Alone(e) /\ Dated(e) /\ Beside(e) /\ Kept(e)
      BY <1>1, <1>3, StepAlone DEF NotesStand
    <3>. QED BY <1>1, <3>1, NotesStay
  <2>2. Dated(d) /\ Beside(d) /\ Kept(d) /\ packs \subseteq packs'
    BY <1>1 DEF NotesStand, Onward
  <2>3. Dated(d)' /\ Beside(d)' /\ Kept(d)'
    BY <1>1, <1>3, <2>2, StepDates, StepBeside, StepKeeps
  <2>. QED BY <2>1, <2>3 DEF NotesStand
<1>. QED BY <1>2, <1>3 DEF Next

LEMMA InitNotes == Init => NotesStand
<1>. SUFFICES ASSUME Init, NEW d \in Devices PROVE Dated(d) /\ Beside(d) /\ Kept(d)
  BY DEF NotesStand
<1>1. /\ saved[d].revived = None /\ overlay[d] = None /\ run[d].state.revived = None
      /\ run[d].step = "idle" /\ now = 2
  BY DEF Init, NewState, NoRun
<1>2. \A r \in Records : None[r] = 0
  BY DEF None
<1>3. Clock(d) \in Nat
  BY <1>1, SkewAssumption DEF Clock
<1>4. Dated(d)
  BY <1>1, <1>2, <1>3 DEF Dated
<1>. QED BY <1>1, <1>2, <1>4 DEF Beside, Kept, Running, Looking, Listing

\* A note goes at the end of a sync only, and only where it is of no use.
LEMMA DropIsDue ==
  ASSUME TypeInv, GoByPlans, NotesStand, [Next]_vars,
         NEW d \in Devices, NEW r \in Records, NoteDropped(d, r)
  PROVE  /\ run[d].step \in {"sending", "failing"}
         /\ saved'[d].drive = run[d].state.drive
         /\ saved[d].revived[r] > run[d].state.revived[r]
         /\ overlay[d][r] = 0
<1>1. TypeOK
  BY DEF TypeInv
<1>2. /\ saved'[d] # saved[d] /\ saved'[d] # NewState
      /\ saved[d].revived[r] > saved'[d].revived[r]
  BY RunFields DEF NoteDropped, TypeInv, Times
<1>3. PICK e \in Devices : Sync(e) \/ Fault(e) \/ Learner(e)
  BY <1>2 DEF Next, Tick, vars
<1>4. e = d
  BY <1>1, <1>2, <1>3, OwnStep
<1>5. /\ saved[d].revived[r] \in Nat /\ run[d].state.revived[r] \in Nat /\ overlay[d][r] \in Nat
      /\ saved[d].revived[r] <= Clock(d) /\ Clock(d) \in Nat
  BY <1>1, RunFields, ClockType DEF Times, NotesStand, Dated
<1>6. ~Learner(d)
  <2>. SUFFICES ASSUME Learner(d) PROVE FALSE
    OBVIOUS
  <2>1. PICK put, forget, ids : ByLearner(d, put, forget, ids)
    BY <1>1, LearnerDoes
  <2>2. BackNoted(d, ids)
    BY <1>2, <2>1 DEF ByLearner
  <2>3. \/ saved'[d].revived[r] = saved[d].revived[r]
        \/ saved'[d].revived[r] = Clock(d) + 1
    BY <2>2 DEF BackNoted
  <2>. QED BY <1>2, <1>5, <2>3
<1>7. EndWell(d) \/ EndFailing(d)
  <2>1. Sync(d) \/ Fault(d)
    BY <1>3, <1>4, <1>6
  <2>2. ~Rejoin(d)
    BY <1>1, <1>2, RejoinDoes
  <2>. QED BY <1>2, <2>1, <2>2
       DEF Sync, Fault, Start, Look, List, MakePlan, ReadAgain, Gather, Change, Send,
           Lose, ChangeFails, AnswerLost, Fail, Crash
<1>8. /\ run[d].step \in {"sending", "failing"}
      /\ saved'[d].drive = run[d].state.drive
      /\ saved'[d].revived = Extend(run[d].state.revived, overlay[d])
  BY <1>1, <1>7, EndDoes
<1>9. saved'[d].revived[r] = IF overlay[d][r] > 0 THEN overlay[d][r]
                             ELSE run[d].state.revived[r]
  BY <1>8 DEF Extend
<1>10. saved[d].revived[r] <= run[d].at /\ (overlay[d][r] > 0 => overlay[d][r] > run[d].at)
  BY <1>8 DEF NotesStand, Beside, Running
<1>11. run[d].at \in Nat
  BY <1>1, RunFields
<1>. QED BY <1>2, <1>5, <1>8, <1>9, <1>10, <1>11

\* The note that a session was put back stays until the drive has been told,
\* or has nothing to be told, whatever failed or stopped (run.rs, "each note of
\* one goes once sent, or once there is nothing to send of it").  So it is
\* where no restore fills sessions in: the Undo of one puts a session back with
\* no note of its own, and an older note of it may then be gone.
THEOREM NoteKeptEver == ASSUME Fills = {} PROVE Spec => NoteKept
<1>1. /\ TypeInv /\ GoByPlans /\ NotesStand /\ [Next]_vars
      => [\A d \in Devices, r \in Records : NoteDropped(d, r) =>
            \/ \E p \in packs : p[r].revive >= saved[d].revived[r]
            \/ ~Deleted(saved'[d].drive, r)
            \/ saved'[d].drive[r].tomb >= saved[d].revived[r]
            \/ r \notin Listed(d)]_vars
  <2>. SUFFICES ASSUME TypeInv, GoByPlans, NotesStand, [Next]_vars,
                       NEW d \in Devices, NEW r \in Records, NoteDropped(d, r)
                PROVE  \/ \E p \in packs : p[r].revive >= saved[d].revived[r]
                       \/ ~Deleted(saved'[d].drive, r)
                       \/ saved'[d].drive[r].tomb >= saved[d].revived[r]
                       \/ r \notin Listed(d)
    OBVIOUS
  <2>1. /\ run[d].step \in {"sending", "failing"}
        /\ saved'[d].drive = run[d].state.drive
        /\ saved[d].revived[r] > run[d].state.revived[r]
        /\ overlay[d][r] = 0
    BY DropIsDue
  <2>2. Due(d, r)
    BY <2>1 DEF NotesStand, Kept, Running
  <2>3. ~(saved[d].revived[r] <= run[d].state.revived[r]) /\ ~(overlay[d][r] > 0)
    BY <2>1, RunFields DEF TypeInv, Times
  <2>. QED BY <2>1, <2>2, <2>3 DEF Due
<1> DEFINE All == IInv /\ GoByPlans /\ Said /\ NotesStand
<1>2. Init => All
  BY IInvInductive, InitSaid, InitNotes
<1>3. All /\ [Next]_vars => All'
  <2>. SUFFICES ASSUME All, [Next]_vars PROVE All'
    OBVIOUS
  <2>1. IInv'
    BY IInvInductive
  <2>2. GoByPlans' /\ Said'
    BY NextSaid DEF IInv
  <2>3. NotesStand'
    BY <2>1, NextNotes DEF IInv
  <2>. QED BY <2>1, <2>2, <2>3
<1>4. All => TypeInv /\ GoByPlans /\ NotesStand
  BY DEF IInv
<1>. HIDE DEF All
<1>. QED BY <1>1, <1>2, <1>3, <1>4, PTL DEF Spec, NoteKept

=============================================================================
