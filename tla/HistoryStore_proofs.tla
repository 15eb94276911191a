------------------------- MODULE HistoryStore_proofs -------------------------
(***************************************************************************)
(* That the history on disk is as the app was told it is, for any copies   *)
(* of the app, any sessions and bounds, whatever step fails, wherever a    *)
(* copy stops and whenever the power goes.                                 *)
(*                                                                         *)
(* What makes it so is that a change knows what the others did meanwhile:  *)
(* all another copy deletes or undoes while a change is under way is among *)
(* its `dying` or `rising`, and what it stored, or deleted, but for those, *)
(* is on disk as it left it, step by step.                                 *)
(***************************************************************************)
EXTENDS HistoryStore, SequenceTheorems, TLAPS

-----------------------------------------------------------------------------
(***************************************************************************)
(* Types, of sets of some sessions.                                        *)
(***************************************************************************)
ChangeWhys == {"keep", "delete", "undo", "retry"}
Whys == ChangeWhys \cup {"list", "read", "forgotten", "cut_off"}
ChangeSteps == {"unforget", "put", "forget", "roll_back", "remove"}
Steps == ChangeSteps \cup {"idle", "listed"}

Folders(some) == [records : SUBSET some, tombstones : SUBSET some,
                  records_synced : SUBSET some, tombstones_synced : SUBSET some]
Jobs(some)    == [why : Whys, put : SUBSET some, unforget : SUBSET some,
                  forget : SUBSET some, unsaved : SUBSET some]
Answers(some) == [job : Jobs(some), ok : BOOLEAN, got : SUBSET some]
Works(some)   == [at : Steps, remaining : SUBSET some, placed : SUBSET some,
                  dying : SUBSET some, rising : SUBSET some]
Apps(some)    == [up : BOOLEAN, here : SUBSET some, unsaved : SUBSET some,
                  trash : SUBSET some, mark : SUBSET some, own : SUBSET some,
                  looking : BOOLEAN, retrying : BOOLEAN]

TypesIn(some) ==
  /\ disk \in Folders(some)
  /\ changed \in [Copies -> BOOLEAN]
  /\ app \in [Copies -> Apps(some)]
  /\ queue \in [Copies -> Seq(Jobs(some))]
  /\ work \in [Copies -> Works(some)]
  /\ answers \in [Copies -> SUBSET Answers(some)]
  /\ \A s \in {left, deleted, sure, gone, rolled, lost} : s \subseteq some
  /\ asks \in Nat /\ troubles \in Nat

Types == finished \subseteq Records /\ TypesIn(finished)

-----------------------------------------------------------------------------
(***************************************************************************)
(* The invariant.                                                          *)
(***************************************************************************)
\* The jobs of a queue, and all a copy has asked for and not settled.
In(q) == {q[i] : i \in 1..Len(q)}
Asked(c) == In(queue[c]) \cup {answer.job : answer \in answers[c]}

\* What a thread is at, it is at for the job at the head of its queue.
WorkFits ==
  \A c \in Copies :
    /\ work[c].at \in ChangeSteps => queue[c] # <<>> /\ IsChange(Head(queue[c]))
    /\ work[c].at = "listed" => queue[c] # <<>> /\ Head(queue[c]).why = "list"
    /\ work[c].at = "unforget" => work[c].remaining \subseteq Head(queue[c]).unforget
    /\ work[c].at = "put" => work[c].remaining \subseteq Head(queue[c]).put
    /\ work[c].at \in {"forget", "roll_back", "remove"} =>
         work[c].remaining \cup work[c].placed \subseteq Head(queue[c]).forget
    /\ work[c].at \in {"unforget", "put"} => work[c].placed = {}

\* A copy that is down has nothing asked.
DownIsIdle ==
  \A c \in Copies : ~app[c].up => queue[c] = <<>> /\ answers[c] = {} /\ work[c].at = "idle"

\* What a copy has yet to store it shows, and its own session its mark holds.
AppFits == \A c \in Copies : app[c].unsaved \subseteq app[c].here /\ app[c].own \subseteq app[c].mark

\* What a change took from those to be stored it deletes.
ChangeFits ==
  \A c \in Copies : \A job \in Asked(c) : IsChange(job) => job.unsaved \subseteq job.forget

\* A copy that opens is not open, and what it will take away was deleted.
Loads == [on : BOOLEAN, doomed : SUBSET Records, live : SUBSET Records, unlinked : BOOLEAN]

Opening ==
  /\ loading \in [Copies -> Loads]
  /\ \A c \in Copies :
       /\ loading[c].on => ~app[c].up
       /\ loading[c].doomed \subseteq deleted /\ loading[c].live \subseteq finished

Shape == Types /\ WorkFits /\ DownIsIdle /\ AppFits /\ ChangeFits

\* Another's deletions, and undoing, under way are known to every change.
Aware ==
  \A c, d \in Copies : c # d /\ work[c].at \in ChangeSteps =>
    Deleting(d) \subseteq work[c].dying /\ Undoing(d) \subseteq work[c].rising

\* What a change has undone, and stored, so far, but for what others delete.
Undone(c) == CASE work[c].at = "unforget" -> Head(queue[c]).unforget \ work[c].remaining
               [] work[c].at = "put"      -> Head(queue[c]).unforget
               [] OTHER -> {}
PutBy(c)  == CASE work[c].at = "put" -> Head(queue[c]).put \ work[c].remaining
               [] work[c].at \in {"forget", "remove"} ->
                    Head(queue[c]).put \ Head(queue[c]).forget
               [] OTHER -> {}

\* What it deleted so far, but for what others undo or take back.
Forgot(c) == CASE work[c].at = "forget" -> Head(queue[c]).forget \ work[c].remaining
               [] work[c].at = "remove" -> Head(queue[c]).forget
               [] OTHER -> {}

\* What is stored, with no tombstone, but for what a copy that was opening
\* took away.
Safe == (disk.records \cup swept) \ disk.tombstones

StoredSoFar ==
  \A c \in Copies :
    /\ (Undone(c) \ work[c].dying) \cap disk.tombstones = {}
    /\ PutBy(c) \ work[c].dying \subseteq Safe
    /\ sure \cap Deleting(c) = {}

DeletedSoFar ==
  \A c \in Copies :
    /\ (Forgot(c) \ work[c].rising) \ rolled \subseteq disk.tombstones
    /\ work[c].at = "remove" =>
         (Forgot(c) \ work[c].rising) \ rolled \subseteq disk.tombstones_synced
    /\ gone \cap Undoing(c) = {}

\* What no learner deleted, and no stop took.
Owed == (finished \ deleted) \ lost

\* Nothing goes but what was deleted.
ByHand ==
  /\ disk.tombstones \cup disk.tombstones_synced \subseteq deleted
  /\ \A c \in Copies :
       /\ app[c].trash \subseteq deleted
       /\ \A job \in Asked(c) : IsChange(job) => job.forget \cup job.unforget \subseteq deleted
       /\ \A answer \in answers[c] : answer.job.why = "cut_off" => answer.got \subseteq deleted

\* What a copy shows is stored, or its mark holds it; what the mark holds no
\* longer is stored; and what it was told of, and what it found, is.
Holds ==
  \A c \in Copies :
    /\ app[c].here \cap Owed \subseteq disk.records \cup app[c].mark
    /\ (app[c].mark \ app[c].unsaved) \cap Owed \subseteq disk.records
    /\ \A job \in Asked(c) : job.why = "forgotten" => job.unforget \cap Owed \subseteq disk.records
    /\ \A answer \in answers[c] :
         /\ answer.job.why = "read" => answer.got \cap Owed \subseteq disk.records
         /\ IsChange(answer.job) /\ answer.ok => answer.job.put \cap Owed \subseteq disk.records
    /\ work[c].at = "put" =>
         (Head(queue[c]).put \ work[c].remaining) \cap Owed \subseteq disk.records
    /\ work[c].at \in {"forget", "remove"} =>
         Head(queue[c]).put \cap Owed \subseteq disk.records

-----------------------------------------------------------------------------
(***************************************************************************)
(* Queues.                                                                 *)
(***************************************************************************)
LEMMA Elements ==
  ASSUME NEW S, NEW q \in Seq(S)
  PROVE  In(q) \subseteq S /\ In(<<>>) = {}
BY DEF In

LEMMA Appended ==
  ASSUME NEW S, NEW q \in Seq(S), NEW job \in S
  PROVE  /\ Append(q, job) \in Seq(S) /\ Append(q, job) # <<>>
         /\ In(Append(q, job)) = In(q) \cup {job}
         /\ q # <<>> => Head(Append(q, job)) = Head(q)
<1>1. /\ Append(q, job) \in Seq(S) /\ Len(Append(q, job)) = Len(q) + 1 /\ Len(q) \in Nat
      /\ Append(q, job)[Len(q) + 1] = job
      /\ \A i \in 1..Len(q) : Append(q, job)[i] = q[i]
  OBVIOUS
<1>2. In(Append(q, job)) = In(q) \cup {job}
  BY <1>1 DEF In
<1>3. Append(q, job) # <<>>
  BY <1>1
<1>4. ASSUME q # <<>> PROVE Head(Append(q, job)) = Head(q)
  <2>1. Len(q) > 0 /\ 1 \in 1..Len(q)
    BY <1>1, <1>4
  <2>. QED BY <1>1, <2>1
<1>. QED BY <1>1, <1>2, <1>3, <1>4

LEMMA FirstTaken ==
  ASSUME NEW S, NEW q \in Seq(S), q # <<>>
  PROVE  /\ Head(q) \in S /\ Tail(q) \in Seq(S)
         /\ In(q) = {Head(q)} \cup In(Tail(q))
<1>1. /\ Head(q) = q[1] /\ Len(q) \in Nat \ {0} /\ 1 \in 1..Len(q) /\ Head(q) \in S
      /\ Tail(q) \in Seq(S) /\ Len(Tail(q)) = Len(q) - 1
      /\ \A i \in 1..Len(q) - 1 : Tail(q)[i] = q[i + 1]
  OBVIOUS
<1>2. In(Tail(q)) = {q[i + 1] : i \in 1..Len(q) - 1}
  BY <1>1 DEF In
<1>3. \A i \in 1..Len(q) : i = 1 \/ i - 1 \in 1..Len(q) - 1
  BY <1>1
<1>4. In(q) \subseteq {Head(q)} \cup In(Tail(q))
  BY <1>1, <1>2, <1>3 DEF In
<1>5. In(Tail(q)) \subseteq In(q)
  BY <1>1, <1>2 DEF In
<1>. QED BY <1>1, <1>4, <1>5 DEF In

-----------------------------------------------------------------------------
(***************************************************************************)
(* Types.                                                                  *)
(***************************************************************************)
LEMMA WiderJobs ==
  ASSUME NEW S, NEW T, S \subseteq T
  PROVE  /\ Jobs(S) \subseteq Jobs(T) /\ Answers(S) \subseteq Answers(T)
         /\ Seq(Jobs(S)) \subseteq Seq(Jobs(T))
<1>1. Jobs(S) \subseteq Jobs(T)
  BY DEF Jobs
<1>2. Answers(S) \subseteq Answers(T)
  BY <1>1 DEF Answers
<1>. QED BY <1>1, <1>2

LEMMA Wider ==
  ASSUME NEW S, NEW T, S \subseteq T, TypesIn(S)
  PROVE  TypesIn(T)
<1>1. /\ Folders(S) \subseteq Folders(T) /\ Apps(S) \subseteq Apps(T)
      /\ Works(S) \subseteq Works(T)
  BY DEF Folders, Apps, Works
<1>2. /\ disk \in Folders(T) /\ app \in [Copies -> Apps(T)] /\ work \in [Copies -> Works(T)]
  BY <1>1 DEF TypesIn
<1>3. queue \in [Copies -> Seq(Jobs(T))] /\ answers \in [Copies -> SUBSET Answers(T)]
  BY WiderJobs DEF TypesIn
<1>4. \A s \in {left, deleted, sure, gone, rolled, lost} : s \subseteq T
  BY DEF TypesIn
<1>. QED BY <1>2, <1>3, <1>4 DEF TypesIn

LEMMA JobTypes ==
  ASSUME NEW S, NEW put \in SUBSET S, NEW unforget \in SUBSET S,
         NEW forget \in SUBSET S, NEW unsaved \in SUBSET S
  PROVE  \A why \in Whys : Change(why, put, unforget, forget, unsaved) \in Jobs(S)
BY DEF Change, Jobs

LEMMA AskTypes ==
  ASSUME NEW S, NEW ids \in SUBSET S, NEW missing \in SUBSET S
  PROVE  \A why \in Whys : Ask(why, ids, missing) \in Jobs(S)
BY DEF Change, Ask, Jobs

LEMMA PlainTypes ==
  ASSUME NEW S
  PROVE  Stopped \in Apps(S) /\ Idle \in Works(S)
BY DEF Stopped, Idle, Apps, Works, Steps

\* What a copy asks for is added to its queue, and nothing else of any.
LEMMA AsksTypes ==
  ASSUME NEW S, TypesIn(S), NEW c \in Copies, NEW new \in Apps(S), NEW why \in ChangeWhys,
         NEW put \in SUBSET S, NEW unforget \in SUBSET S,
         NEW forget \in SUBSET S, NEW unsaved \in SUBSET S,
         Asks(c, new, why, put, unforget, forget, unsaved)
  PROVE  /\ app' \in [Copies -> Apps(S)] /\ app' = [app EXCEPT ![c] = new]
         /\ queue' \in [Copies -> Seq(Jobs(S))]
         /\ Change(why, put \cup new.unsaved, unforget, forget, unsaved) \in Jobs(S)
<1>1. new.unsaved \in SUBSET S
  BY DEF Apps
<1>2. Change(why, put \cup new.unsaved, unforget, forget, unsaved) \in Jobs(S)
  BY <1>1, JobTypes DEF Whys
<1>3. queue' = [queue EXCEPT ![c] =
        Append(queue[c], Change(why, put \cup new.unsaved, unforget, forget, unsaved))]
  BY DEF Asks
<1>4. queue[c] \in Seq(Jobs(S))
  BY DEF TypesIn
<1>5. Append(queue[c], Change(why, put \cup new.unsaved, unforget, forget, unsaved)) \in Seq(Jobs(S))
  BY <1>2, <1>4, Appended
<1>6. queue' \in [Copies -> Seq(Jobs(S))]
  BY <1>3, <1>5 DEF TypesIn
<1>7. app' \in [Copies -> Apps(S)] /\ app' = [app EXCEPT ![c] = new]
  BY DEF Asks, AppIs, TypesIn
<1>. QED BY <1>2, <1>6, <1>7

LEMMA AnswerTypes ==
  ASSUME NEW S, TypesIn(S), NEW c \in Copies, queue[c] # <<>>, NEW ok \in BOOLEAN,
         NEW got \in SUBSET S, Answer(c, ok, got)
  PROVE  /\ queue' \in [Copies -> Seq(Jobs(S))] /\ work' \in [Copies -> Works(S)]
         /\ answers' \in [Copies -> SUBSET Answers(S)]
         /\ work' = [work EXCEPT ![c] = Idle]
<1>1. queue[c] \in Seq(Jobs(S))
  BY DEF TypesIn
<1>2. Head(queue[c]) \in Jobs(S) /\ Tail(queue[c]) \in Seq(Jobs(S))
  BY <1>1, FirstTaken
<1>3. [job |-> Head(queue[c]), ok |-> ok, got |-> got] \in Answers(S)
  BY <1>2 DEF Answers
<1>4. queue' \in [Copies -> Seq(Jobs(S))]
  BY <1>2 DEF Answer, TypesIn
<1>5. answers' \in [Copies -> SUBSET Answers(S)]
  BY <1>3 DEF Answer, TypesIn
<1>6. work' = [work EXCEPT ![c] = Idle] /\ work' \in [Copies -> Works(S)]
  BY PlainTypes DEF Answer, TypesIn
<1>. QED BY <1>4, <1>5, <1>6

\* The job a thread is at.
LEMMA HeadType ==
  ASSUME NEW S, TypesIn(S), NEW c \in Copies, queue[c] # <<>>
  PROVE  /\ Head(queue[c]) \in Jobs(S)
         /\ Head(queue[c]).why \in Whys
         /\ \A s \in {Head(queue[c]).put, Head(queue[c]).unforget, Head(queue[c]).forget,
                      Head(queue[c]).unsaved} : s \in SUBSET S
         /\ Head(queue[c]) \in In(queue[c])
<1>1. queue[c] \in Seq(Jobs(S))
  BY DEF TypesIn
<1>2. Head(queue[c]) \in Jobs(S) /\ Head(queue[c]) \in In(queue[c])
  BY <1>1, FirstTaken
<1>. QED BY <1>2 DEF Jobs

LEMMA StepTypes ==
  ASSUME NEW S, TypesIn(S), NEW c \in Copies, NEW at \in Steps, NEW remaining \in SUBSET S,
         Step(c, at, remaining)
  PROVE  /\ work' \in [Copies -> Works(S)]
         /\ work' = [work EXCEPT ![c] = [work[c] EXCEPT !.at = at, !.remaining = remaining]]
<1>1. work \in [Copies -> Works(S)] /\ work[c] \in Works(S)
  BY DEF TypesIn
<1>2. [work[c] EXCEPT !.at = at, !.remaining = remaining] \in Works(S)
  BY <1>1 DEF Works
<1>3. work' = [work EXCEPT ![c] = [work[c] EXCEPT !.at = at, !.remaining = remaining]]
  BY <1>1 DEF Step
<1>. QED BY <1>1, <1>2, <1>3

LEMMA TakesTypes ==
  ASSUME NEW S, TypesIn(S), NEW c \in Copies, NEW r, Takes(c, r)
  PROVE  /\ work' \in [Copies -> Works(S)]
         /\ work' = [work EXCEPT ![c] = [work[c] EXCEPT !.remaining = work[c].remaining \ {r}]]
<1>1. work \in [Copies -> Works(S)] /\ work[c] \in Works(S)
  BY DEF TypesIn
<1>2. [work[c] EXCEPT !.remaining = work[c].remaining \ {r}] \in Works(S)
  BY <1>1 DEF Works
<1>3. work' = [work EXCEPT ![c] = [work[c] EXCEPT !.remaining = work[c].remaining \ {r}]]
  BY <1>1 DEF Takes
<1>. QED BY <1>1, <1>2, <1>3

LEMMA NamesTypes ==
  ASSUME NEW S, TypesIn(S), NEW records \in SUBSET S, NEW tombstones \in SUBSET S,
         Names(records, tombstones)
  PROVE  /\ disk' \in Folders(S) /\ changed' \in [Copies -> BOOLEAN]
         /\ disk' = [records |-> records, tombstones |-> tombstones,
                     records_synced |-> disk.records_synced,
                     tombstones_synced |-> disk.tombstones_synced]
<1>1. disk \in Folders(S)
  BY DEF TypesIn
<1>2. disk' = [disk EXCEPT !.records = records, !.tombstones = tombstones]
  BY DEF Names
<1>3. changed' \in [Copies -> BOOLEAN]
  BY DEF Names, TypesIn
<1>. QED BY <1>1, <1>2, <1>3 DEF Folders

LEMMA SyncTypes ==
  ASSUME NEW S, TypesIn(S)
  PROVE  /\ SyncRecords => disk' \in Folders(S)
         /\ SyncTombstones => disk' \in Folders(S)
BY DEF TypesIn, Folders, SyncRecords, SyncTombstones

LEMMA RestampTypes ==
  ASSUME NEW S, TypesIn(S), NEW c \in Copies, Restamp(c)
  PROVE  changed' \in [Copies -> BOOLEAN]
BY DEF TypesIn, Restamp

-----------------------------------------------------------------------------
(***************************************************************************)
(* The thread's steps keep the types.                                      *)
(***************************************************************************)
LEMMA MadeTypes ==
  ASSUME NEW S, TypesIn(S), NEW c \in Copies, queue[c] # <<>>, Made(c)
  PROVE  sure' \subseteq S /\ gone' \subseteq S
<1>1. Head(queue[c]).put \subseteq S /\ Head(queue[c]).forget \subseteq S
  BY HeadType
<1>2. sure \subseteq S /\ gone \subseteq S
  BY DEF TypesIn
<1>. QED BY <1>1, <1>2 DEF Made

LEMMA BeginTypes ==
  ASSUME Shape, NEW c \in Copies, Begin(c)
  PROVE  TypesIn(finished)'
<1>0. TypesIn(finished) /\ queue[c] # <<>>
  BY DEF Shape, Types, Begin
<1>1. /\ Head(queue[c]).put \in SUBSET finished /\ Head(queue[c]).unforget \in SUBSET finished
  BY <1>0, HeadType
<1>2. \A o \in Copies : Deleting(o) \in SUBSET finished /\ Undoing(o) \in SUBSET finished
  <2>. SUFFICES ASSUME NEW o \in Copies
                PROVE  Deleting(o) \in SUBSET finished /\ Undoing(o) \in SUBSET finished
    OBVIOUS
  <2>1. CASE queue[o] = <<>>
    BY <2>1 DEF Deleting, Undoing, Shape, WorkFits, ChangeSteps
  <2>2. CASE queue[o] # <<>>
    BY <2>2, <1>0, HeadType DEF Deleting, Undoing
  <2>. QED BY <2>1, <2>2
<1>3. work' \in [Copies -> Works(finished)]
  <2>. SUFFICES ASSUME NEW d \in Copies PROVE work'[d] \in Works(finished)
    BY DEF Begin
  <2>1. work[d] \in Works(finished)
    BY <1>0 DEF TypesIn
  <2>2. CASE d = c
    <3>1. /\ UNION {Deleting(o) : o \in Copies \ {c}} \in SUBSET finished
          /\ UNION {Undoing(o) : o \in Copies \ {c}} \in SUBSET finished
      BY <1>2
    <3>. QED BY <1>1, <2>2, <3>1 DEF Begin, Works, Steps, ChangeSteps
  <2>3. CASE d # c
    <3>1. work'[d] = [work[d] EXCEPT !.rising = IF work[d].at = "idle" THEN {}
                                               ELSE @ \cup Head(queue[c]).unforget]
      BY <2>3 DEF Begin
    <3>. QED BY <1>1, <2>1, <3>1 DEF Works
  <2>. QED BY <2>2, <2>3
<1>4. gone' \subseteq finished
  BY <1>0 DEF Begin, TypesIn
<1>. QED BY <1>0, <1>3, <1>4 DEF Begin, TypesIn, counts

LEMMA UnforgetTypes ==
  ASSUME Shape, NEW c \in Copies, Unforget(c)
  PROVE  TypesIn(finished)'
<1>0. TypesIn(finished) /\ queue[c] # <<>>
  BY DEF Shape, Types, Unforget, WorkFits, ChangeSteps
<1>1. Head(queue[c]).put \in SUBSET finished
  BY <1>0, HeadType
<1>2. UNCHANGED <<app, queue, answers, left, loading, ghosts, counts>>
  BY DEF Unforget
<1>3. ASSUME NEW r \in work[c].remaining,
             Names(disk.records, disk.tombstones \ {r}), Takes(c, r)
      PROVE  TypesIn(finished)'
  <2>1. disk.records \in SUBSET finished /\ disk.tombstones \ {r} \in SUBSET finished
    BY <1>0 DEF TypesIn, Folders
  <2>2. disk' \in Folders(finished) /\ changed' \in [Copies -> BOOLEAN]
    BY <1>0, <1>3, <2>1, NamesTypes
  <2>3. work' \in [Copies -> Works(finished)]
    BY <1>0, <1>3, TakesTypes
  <2>. QED BY <1>0, <1>2, <2>2, <2>3 DEF TypesIn, ghosts, counts
<1>4. CASE SyncTombstones /\ Step(c, "put", Head(queue[c]).put) /\ UNCHANGED changed
  <2>1. "put" \in Steps
    BY DEF Steps, ChangeSteps
  <2>. QED BY <1>0, <1>1, <1>2, <1>4, <2>1, SyncTypes, StepTypes DEF TypesIn, ghosts, counts
<1>. QED BY <1>3, <1>4 DEF Unforget

LEMMA StartForgettingTypes ==
  ASSUME NEW S, TypesIn(S), NEW c \in Copies, queue[c] # <<>>, StartForgetting(c)
  PROVE  work' \in [Copies -> Works(S)] /\ sure' \subseteq S
<1>1. Head(queue[c]).forget \in SUBSET S
  BY HeadType
<1>2. work' \in [Copies -> Works(S)]
  <2>. SUFFICES ASSUME NEW d \in Copies PROVE work'[d] \in Works(S)
    BY DEF StartForgetting
  <2>1. work[d] \in Works(S)
    BY DEF TypesIn
  <2>2. CASE d = c
    <3>1. work'[d] = [work[d] EXCEPT !.at = "forget", !.remaining = Head(queue[c]).forget]
      BY <2>2 DEF StartForgetting
    <3>. QED BY <1>1, <2>1, <3>1 DEF Works, Steps, ChangeSteps
  <2>3. CASE d # c
    <3>1. work'[d] = [work[d] EXCEPT !.dying = IF work[d].at = "idle" THEN {}
                                              ELSE @ \cup Head(queue[c]).forget]
      BY <2>3 DEF StartForgetting
    <3>. QED BY <1>1, <2>1, <3>1 DEF Works
  <2>. QED BY <2>2, <2>3
<1>. QED BY <1>2 DEF StartForgetting, TypesIn

LEMMA PutTypes ==
  ASSUME Shape, NEW c \in Copies, Put(c)
  PROVE  TypesIn(finished)'
<1>0. TypesIn(finished) /\ queue[c] # <<>>
  BY DEF Shape, Types, Put, WorkFits, ChangeSteps
<1>1. UNCHANGED <<app, left, loading, finished, deleted, rolled, lost, counts>>
  BY DEF Put
<1>2. ASSUME NEW r \in work[c].remaining, PassedOver(c, r),
             work' = [work EXCEPT ![c].remaining = @ \ {r}, ![c].dying = @ \cup {r}],
             UNCHANGED <<disk, changed, queue, answers, sure, gone>>
      PROVE  TypesIn(finished)'
  <2>1. work' \in [Copies -> Works(finished)]
    <3>1. work \in [Copies -> Works(finished)] /\ work[c] \in Works(finished) /\ r \in finished
      BY <1>0 DEF TypesIn, Works
    <3>2. [work[c] EXCEPT !.remaining = @ \ {r}, !.dying = @ \cup {r}] \in Works(finished)
      BY <3>1 DEF Works
    <3>3. work' = [work EXCEPT ![c] = [work[c] EXCEPT !.remaining = @ \ {r}, !.dying = @ \cup {r}]]
      BY <1>2, <3>1 DEF Works
    <3>. QED BY <3>1, <3>2, <3>3
  <2>. QED BY <1>0, <1>1, <1>2, <2>1 DEF TypesIn, counts
<1>3. ASSUME NEW r \in work[c].remaining, Takes(c, r),
             Names(disk.records \cup {r}, disk.tombstones),
             UNCHANGED <<queue, answers, sure, gone>>
      PROVE  TypesIn(finished)'
  <2>1. disk.records \cup {r} \in SUBSET finished /\ disk.tombstones \in SUBSET finished
    BY <1>0 DEF TypesIn, Folders, Works
  <2>. QED BY <1>0, <1>1, <1>3, <2>1, NamesTypes, TakesTypes DEF TypesIn, counts
<1>4. ASSUME PutsDone(c)
      PROVE  TypesIn(finished)'
  <2>1. disk' \in Folders(finished)
    BY <1>0, <1>4, SyncTypes DEF PutsDone, TypesIn
  <2>2. CASE Head(queue[c]).forget = {}
    <3>1. Made(c) /\ Answer(c, TRUE, {}) /\ Restamp(c)
      BY <1>4, <2>2 DEF PutsDone
    <3>2. sure' \subseteq finished /\ gone' \subseteq finished
      BY <1>0, <3>1, MadeTypes
    <3>3. changed' \in [Copies -> BOOLEAN]
      BY <1>0, <3>1, RestampTypes
    <3>4. /\ queue' \in [Copies -> Seq(Jobs(finished))] /\ work' \in [Copies -> Works(finished)]
          /\ answers' \in [Copies -> SUBSET Answers(finished)]
      BY <1>0, <3>1, AnswerTypes
    <3>. QED BY <1>0, <1>1, <2>1, <3>2, <3>3, <3>4 DEF TypesIn, counts
  <2>3. CASE Head(queue[c]).forget # {}
    <3>1. StartForgetting(c) /\ UNCHANGED <<changed, queue, answers, gone>>
      BY <1>4, <2>3 DEF PutsDone
    <3>. QED BY <1>0, <1>1, <2>1, <3>1, StartForgettingTypes DEF TypesIn, counts
  <2>. QED BY <2>2, <2>3
<1>. QED BY <1>2, <1>3, <1>4 DEF Put

LEMMA ForgetTypes ==
  ASSUME Shape, NEW c \in Copies, Forget(c)
  PROVE  TypesIn(finished)'
<1>0. TypesIn(finished) /\ queue[c] # <<>>
  BY DEF Shape, Types, Forget, WorkFits, ChangeSteps
<1>1. Head(queue[c]).forget \in SUBSET finished
  BY <1>0, HeadType
<1>2. UNCHANGED <<app, queue, answers, left, loading, ghosts, counts>>
  BY DEF Forget
<1>3. ASSUME NEW r \in work[c].remaining, Names(disk.records, disk.tombstones \cup {r}),
             work' = [work EXCEPT ![c].remaining = @ \ {r},
                                  ![c].placed = @ \cup ({r} \ disk.tombstones)]
      PROVE  TypesIn(finished)'
  <2>1. disk.records \in SUBSET finished /\ disk.tombstones \cup {r} \in SUBSET finished
    BY <1>0 DEF TypesIn, Folders, Works
  <2>2. work' \in [Copies -> Works(finished)]
    <3>1. work \in [Copies -> Works(finished)] /\ work[c] \in Works(finished) /\ r \in finished
      BY <1>0 DEF TypesIn, Works
    <3>2. [work[c] EXCEPT !.remaining = @ \ {r}, !.placed = @ \cup ({r} \ disk.tombstones)]
            \in Works(finished)
      BY <3>1 DEF Works
    <3>3. work' = [work EXCEPT ![c] = [work[c] EXCEPT !.remaining = @ \ {r},
                                                     !.placed = @ \cup ({r} \ disk.tombstones)]]
      BY <1>3, <3>1 DEF Works
    <3>. QED BY <3>1, <3>2, <3>3
  <2>. QED BY <1>0, <1>2, <1>3, <2>1, <2>2, NamesTypes DEF TypesIn, ghosts, counts
<1>4. CASE TombstonesDone(c) /\ Step(c, "remove", Head(queue[c]).forget) /\ UNCHANGED changed
  <2>1. "remove" \in Steps
    BY DEF Steps, ChangeSteps
  <2>. QED BY <1>0, <1>1, <1>2, <1>4, <2>1, SyncTypes, StepTypes
           DEF TypesIn, ghosts, counts, TombstonesDone
<1>. QED BY <1>3, <1>4 DEF Forget

LEMMA RemoveTypes ==
  ASSUME Shape, NEW c \in Copies, Remove(c)
  PROVE  TypesIn(finished)'
<1>0. TypesIn(finished) /\ queue[c] # <<>>
  BY DEF Shape, Types, Remove, WorkFits, ChangeSteps
<1>1. UNCHANGED <<app, left, loading, finished, deleted, rolled, lost, asks>>
  BY DEF Remove
<1>2. ASSUME NEW r \in work[c].remaining, Takes(c, r), Names(disk.records \ {r}, disk.tombstones),
             UNCHANGED <<queue, answers, sure, gone, troubles>>
      PROVE  TypesIn(finished)'
  <2>1. disk.records \ {r} \in SUBSET finished /\ disk.tombstones \in SUBSET finished
    BY <1>0 DEF TypesIn, Folders
  <2>. QED BY <1>0, <1>1, <1>2, <2>1, NamesTypes, TakesTypes DEF TypesIn
<1>3. ASSUME NEW r \in work[c].remaining, Takes(c, r), Trouble,
             UNCHANGED <<disk, changed, queue, answers, sure, gone>>
      PROVE  TypesIn(finished)'
  <2>1. work' \in [Copies -> Works(finished)]
    BY <1>0, <1>3, TakesTypes
  <2>2. troubles' \in Nat
    BY <1>0, <1>3 DEF TypesIn, Trouble
  <2>. QED BY <1>0, <1>1, <1>3, <2>1, <2>2 DEF TypesIn
<1>4. ASSUME SyncRecords, Made(c), Answer(c, TRUE, {}), Restamp(c), UNCHANGED troubles
      PROVE  TypesIn(finished)'
  <2>1. disk' \in Folders(finished)
    BY <1>0, <1>4, SyncTypes
  <2>2. sure' \subseteq finished /\ gone' \subseteq finished
    BY <1>0, <1>4, MadeTypes
  <2>3. changed' \in [Copies -> BOOLEAN]
    BY <1>0, <1>4, RestampTypes
  <2>4. /\ queue' \in [Copies -> Seq(Jobs(finished))] /\ work' \in [Copies -> Works(finished)]
        /\ answers' \in [Copies -> SUBSET Answers(finished)]
    BY <1>0, <1>4, AnswerTypes
  <2>. QED BY <1>0, <1>1, <1>4, <2>1, <2>2, <2>3, <2>4 DEF TypesIn
<1>. QED BY <1>2, <1>3, <1>4 DEF Remove

LEMMA FailedTypes ==
  ASSUME NEW S, TypesIn(S), NEW c \in Copies, queue[c] # <<>>, Failed(c)
  PROVE  /\ changed' \in [Copies -> BOOLEAN] /\ queue' \in [Copies -> Seq(Jobs(S))]
         /\ answers' \in [Copies -> SUBSET Answers(S)] /\ work' \in [Copies -> Works(S)]
         /\ work' = [work EXCEPT ![c] = Idle]
<1>1. Restamp(c)
  BY DEF Failed
<1>2. CASE Answer(c, FALSE, {})
  <2>1. changed' \in [Copies -> BOOLEAN]
    BY <1>1, RestampTypes
  <2>2. FALSE \in BOOLEAN /\ {} \in SUBSET S
    OBVIOUS
  <2>. QED BY <1>2, <2>1, <2>2, AnswerTypes
<1>3. CASE work' = [work EXCEPT ![c] = Idle] /\ UNCHANGED <<queue, answers>>
  BY <1>1, <1>3, PlainTypes, RestampTypes DEF TypesIn
<1>. QED BY <1>2, <1>3 DEF Failed

LEMMA FailTypes ==
  ASSUME Shape, NEW c \in Copies, Fail(c)
  PROVE  TypesIn(finished)'
<1>0. TypesIn(finished) /\ queue[c] # <<>>
  BY FaultsAssumption DEF Shape, Types, Fail, WorkFits, ChangeSteps
<1>1. UNCHANGED <<disk, app, left, loading, ghosts, asks>> /\ troubles' \in Nat
  BY <1>0 DEF Fail, Trouble, TypesIn
<1>2. CASE Step(c, "roll_back", work[c].placed) /\ UNCHANGED <<changed, queue, answers>>
  <2>1. "roll_back" \in Steps /\ work[c].placed \in SUBSET finished
    BY <1>0 DEF Steps, ChangeSteps, TypesIn, Works
  <2>. QED BY <1>0, <1>1, <1>2, <2>1, StepTypes DEF TypesIn, ghosts
<1>3. CASE Failed(c)
  BY <1>0, <1>1, <1>3, FailedTypes DEF TypesIn, ghosts
<1>. QED BY <1>2, <1>3 DEF Fail

LEMMA RollBackTypes ==
  ASSUME Shape, NEW c \in Copies, RollBack(c)
  PROVE  TypesIn(finished)'
<1>0. TypesIn(finished) /\ queue[c] # <<>>
  BY DEF Shape, Types, RollBack, WorkFits, ChangeSteps
<1>1. UNCHANGED <<app, left, loading, finished, deleted, sure, gone, lost, counts>>
  BY DEF RollBack
<1>2. ASSUME NEW r \in work[c].remaining, Takes(c, r), Names(disk.records, disk.tombstones \ {r}),
             rolled' \subseteq rolled \cup {r}, UNCHANGED <<queue, answers>>
      PROVE  TypesIn(finished)'
  <2>1. /\ disk.records \in SUBSET finished /\ disk.tombstones \ {r} \in SUBSET finished
        /\ r \in finished
    BY <1>0 DEF TypesIn, Folders, Works
  <2>2. rolled' \subseteq finished
    BY <1>0, <1>2, <2>1 DEF TypesIn
  <2>3. disk' \in Folders(finished) /\ changed' \in [Copies -> BOOLEAN]
    BY <1>0, <1>2, <2>1, NamesTypes
  <2>4. work' \in [Copies -> Works(finished)]
    BY <1>0, <1>2, TakesTypes
  <2>. QED BY <1>0, <1>1, <1>2, <2>2, <2>3, <2>4 DEF TypesIn, counts
<1>3. CASE SyncTombstones /\ Failed(c) /\ UNCHANGED rolled
  BY <1>0, <1>1, <1>3, SyncTypes, FailedTypes DEF TypesIn, counts
<1>. QED BY <1>2, <1>3 DEF RollBack

LEMMA ListTypes ==
  ASSUME Shape, NEW c \in Copies, List(c)
  PROVE  TypesIn(finished)'
<1>0. TypesIn(finished) /\ queue[c] # <<>>
  BY DEF Shape, Types, List
<1>1. UNCHANGED <<disk, app, left, loading, ghosts, counts>>
  BY DEF List
<1>2. "listed" \in Steps /\ Listed \in SUBSET finished /\ work[c].remaining \in SUBSET finished
  BY <1>0 DEF Steps, Listed, TypesIn, Folders, Works
<1>3. CASE Step(c, "listed", Listed) /\ UNCHANGED <<changed, queue, answers>>
  BY <1>0, <1>1, <1>2, <1>3, StepTypes DEF TypesIn, ghosts, counts
<1>4. CASE Restamp(c) /\ Answer(c, TRUE, work[c].remaining)
  BY <1>0, <1>1, <1>2, <1>4, RestampTypes, AnswerTypes DEF TypesIn, ghosts, counts
<1>. QED BY <1>3, <1>4 DEF List

LEMMA FindTypes ==
  ASSUME Shape, NEW c \in Copies, Find(c)
  PROVE  TypesIn(finished)'
<1>0. TypesIn(finished) /\ queue[c] # <<>>
  BY DEF Shape, Types, Find
<1>1. UNCHANGED <<disk, changed, app, left, loading, ghosts, counts>>
  BY DEF Find
<1>2. PICK got \in SUBSET finished : Answer(c, TRUE, got)
  BY <1>0, HeadType DEF Find
<1>. QED BY <1>0, <1>1, <1>2, AnswerTypes DEF TypesIn, ghosts, counts

-----------------------------------------------------------------------------
(***************************************************************************)
(* A step of the app.                                                      *)
(***************************************************************************)
Fit(a) == a.unsaved \subseteq a.here /\ a.own \subseteq a.mark

\* A copy that is up becomes `new`, asks for these jobs, at most one, and
\* settles some answers.
AppStep(c, new, jobs) ==
  /\ app[c].up /\ new.up
  /\ app' = [app EXCEPT ![c] = new]
  /\ \/ jobs = {} /\ queue' = queue
     \/ \E job : jobs = {job} /\ queue' = [queue EXCEPT ![c] = Append(@, job)]
  /\ \A d \in Copies : answers'[d] \subseteq answers[d] /\ (d # c => answers'[d] = answers[d])
  /\ UNCHANGED <<disk, work, loading, sure, gone, rolled, swept, lost>>
  /\ finished \subseteq finished' /\ deleted \subseteq deleted'

\* All of it is of sessions there are.
AppTypes(new, jobs) ==
  /\ new \in Apps(finished') /\ jobs \subseteq Jobs(finished')
  /\ changed' \in [Copies -> BOOLEAN]
  /\ answers' \in [Copies -> SUBSET Answers(finished')]
  /\ left' \subseteq finished' /\ deleted' \subseteq finished'
  /\ finished' \subseteq Records /\ asks' \in Nat /\ troubles' \in Nat

\* It is as the invariant says.
AppSound(new) ==
  /\ Fit(new)
  /\ new.trash \subseteq deleted'
  /\ new.here \cap Owed' \subseteq disk.records \cup new.mark
  /\ (new.mark \ new.unsaved) \cap Owed' \subseteq disk.records

JobSound(job) ==
  /\ IsChange(job) => /\ job.unsaved \subseteq job.forget
                      /\ job.forget \cup job.unforget \subseteq deleted'
  /\ job.why = "forgotten" => job.unforget \cap Owed' \subseteq disk.records

Sound(new, jobs) == AppSound(new) /\ \A job \in jobs : JobSound(job)

LEMMA QueueGrows ==
  ASSUME Shape, NEW c \in Copies, NEW new, NEW jobs, AppStep(c, new, jobs), AppTypes(new, jobs)
  PROVE  /\ queue' \in [Copies -> Seq(Jobs(finished'))]
         /\ \A d \in Copies :
              /\ In(queue'[d]) = In(queue[d]) \cup (IF d = c THEN jobs ELSE {})
              /\ queue[d] # <<>> => queue'[d] # <<>> /\ Head(queue'[d]) = Head(queue[d])
<1>1. queue \in [Copies -> Seq(Jobs(finished'))]
  <2>1. finished \subseteq finished'
    BY DEF AppStep
  <2>. QED BY <2>1, WiderJobs DEF Shape, Types, TypesIn
<1>2. CASE jobs = {} /\ queue' = queue
  BY <1>1, <1>2
<1>3. ASSUME NEW job, jobs = {job}, queue' = [queue EXCEPT ![c] = Append(@, job)]
      PROVE  /\ queue' \in [Copies -> Seq(Jobs(finished'))]
             /\ \A d \in Copies :
                  /\ In(queue'[d]) = In(queue[d]) \cup (IF d = c THEN jobs ELSE {})
                  /\ queue[d] # <<>> => queue'[d] # <<>> /\ Head(queue'[d]) = Head(queue[d])
  <2>1. job \in Jobs(finished') /\ queue[c] \in Seq(Jobs(finished'))
    BY <1>1, <1>3 DEF AppTypes
  <2>2. /\ Append(queue[c], job) \in Seq(Jobs(finished')) /\ Append(queue[c], job) # <<>>
        /\ In(Append(queue[c], job)) = In(queue[c]) \cup {job}
        /\ queue[c] # <<>> => Head(Append(queue[c], job)) = Head(queue[c])
    BY <2>1, Appended
  <2>. QED BY <1>1, <1>3, <2>2
<1>. QED BY <1>2, <1>3 DEF AppStep

LEMMA AppShape ==
  ASSUME Shape, NEW c \in Copies, NEW new, NEW jobs, AppStep(c, new, jobs),
         AppTypes(new, jobs), Sound(new, jobs)
  PROVE  /\ Shape'
         /\ \A d \in Copies : Asked(d)' \subseteq Asked(d) \cup (IF d = c THEN jobs ELSE {})
<1>1. /\ queue' \in [Copies -> Seq(Jobs(finished'))]
      /\ \A d \in Copies :
           /\ In(queue'[d]) = In(queue[d]) \cup (IF d = c THEN jobs ELSE {})
           /\ queue[d] # <<>> => queue'[d] # <<>> /\ Head(queue'[d]) = Head(queue[d])
  BY QueueGrows
<1>2. Types'
  <2>1. TypesIn(finished')
    BY Wider DEF AppStep, Shape, Types
  <2>2. app' \in [Copies -> Apps(finished')]
    BY <2>1 DEF AppStep, AppTypes, TypesIn
  <2>. QED BY <1>1, <2>1, <2>2 DEF AppStep, AppTypes, Types, TypesIn
<1>3. WorkFits'
  <2>1. \A d \in Copies : queue[d] # <<>> => queue'[d] # <<>> /\ Head(queue[d])' = Head(queue[d])
    BY <1>1
  <2>2. work' = work
    BY DEF AppStep
  <2>. QED BY <2>1, <2>2 DEF Shape, WorkFits, IsChange, ChangeSteps
<1>4. DownIsIdle'
  <2>1. app \in [Copies -> Apps(finished)]
    BY DEF Shape, Types, TypesIn
  <2>. SUFFICES ASSUME NEW d \in Copies, ~app'[d].up
                PROVE  queue'[d] = <<>> /\ answers'[d] = {} /\ work'[d].at = "idle"
    BY DEF DownIsIdle
  <2>2. d # c /\ app'[d] = app[d]
    BY <2>1 DEF AppStep
  <2>3. queue'[d] = queue[d]
    BY <2>2 DEF AppStep, Shape, Types, TypesIn
  <2>. QED BY <2>2, <2>3 DEF AppStep, Shape, DownIsIdle
<1>5. AppFits'
  BY DEF Shape, Types, TypesIn, AppFits, AppStep, Sound, AppSound, Fit
<1>6. \A d \in Copies : Asked(d)' \subseteq Asked(d) \cup (IF d = c THEN jobs ELSE {})
  BY <1>1 DEF Asked, AppStep
<1>7. ChangeFits'
  BY <1>6 DEF Shape, ChangeFits, Sound, JobSound, IsChange
<1>. QED BY <1>2, <1>3, <1>4, <1>5, <1>6, <1>7 DEF Shape

\* The thread's side of the invariant is of no concern to it.
LEMMA AppKeepsThread ==
  ASSUME Shape, NEW c \in Copies, NEW new, NEW jobs, AppStep(c, new, jobs),
         AppTypes(new, jobs), Aware, StoredSoFar, DeletedSoFar, SureStays, GoneStays
  PROVE  Aware' /\ StoredSoFar' /\ DeletedSoFar' /\ SureStays' /\ GoneStays'
<1>1. \A d \in Copies : queue[d] # <<>> => Head(queue'[d]) = Head(queue[d])
  BY QueueGrows
<1>2. UNCHANGED <<disk, work, sure, gone, rolled, swept>>
  BY DEF AppStep
<1>3. \A d \in Copies : work[d].at \in ChangeSteps => Head(queue[d])' = Head(queue[d])
  BY <1>1 DEF Shape, WorkFits
<1>4. \A d \in Copies :
        /\ Deleting(d)' = Deleting(d) /\ Undoing(d)' = Undoing(d)
        /\ Undone(d)' = Undone(d) /\ PutBy(d)' = PutBy(d) /\ Forgot(d)' = Forgot(d)
  BY <1>2, <1>3 DEF Deleting, Undoing, Undone, PutBy, Forgot, ChangeSteps
<1>5. Aware'
  BY <1>2, <1>4 DEF Aware
<1>6. StoredSoFar'
  BY <1>2, <1>4 DEF StoredSoFar, Safe
<1>7. DeletedSoFar'
  BY <1>2, <1>4 DEF DeletedSoFar
<1>8. SureStays' /\ GoneStays'
  BY <1>2 DEF SureStays, GoneStays
<1>. QED BY <1>5, <1>6, <1>7, <1>8

\* Sessions taken from marks, by what is asked after.
LEMMA TakingIs ==
  ASSUME NEW c \in Copies
  PROVE  /\ \A r : r \in Taking(c) <=> \E job \in Asked(c) : job.why = "cut_off" /\ r \in job.put
         /\ \A r : r \in Taking(c)' <=>
                     \E job \in Asked(c)' : job.why = "cut_off" /\ r \in job.put
BY DEF Taking, Asked, In

\* Of the sessions there were, none is owed that was not.
LEMMA OwedShrinks ==
  ASSUME finished \subseteq finished', deleted \subseteq deleted', lost \subseteq lost'
  PROVE  \A some \in SUBSET finished : some \cap Owed' \subseteq some \cap Owed
BY DEF Owed

LEMMA AppKeepsHistory ==
  ASSUME Shape, NEW c \in Copies, NEW new, NEW jobs, AppStep(c, new, jobs),
         AppTypes(new, jobs), Sound(new, jobs), ByHand, Holds
  PROVE  ByHand' /\ Holds'
<1>0. TypesIn(finished) /\ finished \cap Owed' \subseteq Owed
  BY OwedShrinks DEF Shape, Types, AppStep
<1>1. \A d \in Copies :
        /\ Asked(d)' \subseteq Asked(d) \cup (IF d = c THEN jobs ELSE {})
        /\ answers'[d] \subseteq answers[d]
  BY AppShape DEF AppStep
<1>2. \A d \in Copies : app'[d] = IF d = c THEN new ELSE app[d]
  BY <1>0 DEF AppStep, TypesIn
<1>3. UNCHANGED <<disk, work>> /\ deleted \subseteq deleted'
  BY DEF AppStep
<1>4. ByHand'
  <2>1. (disk.tombstones \cup disk.tombstones_synced)' \subseteq deleted'
    BY <1>3 DEF ByHand
  <2>. SUFFICES ASSUME NEW d \in Copies
                PROVE  /\ app'[d].trash \subseteq deleted'
                       /\ \A job \in Asked(d)' : IsChange(job) =>
                            job.forget \cup job.unforget \subseteq deleted'
                       /\ \A answer \in answers'[d] :
                            answer.job.why = "cut_off" => answer.got \subseteq deleted'
    BY <2>1 DEF ByHand, IsChange
  <2>2. app'[d].trash \subseteq deleted'
    BY <1>2, <1>3 DEF ByHand, Sound, AppSound
  <2>3. \A job \in Asked(d)' : IsChange(job) => job.forget \cup job.unforget \subseteq deleted'
    BY <1>1, <1>3 DEF ByHand, Sound, JobSound
  <2>4. \A answer \in answers'[d] : answer.job.why = "cut_off" => answer.got \subseteq deleted'
    BY <1>1, <1>3 DEF ByHand
  <2>. QED BY <2>2, <2>3, <2>4
<1>5. \A d \in Copies :
        /\ app[d].here \cap Owed' \subseteq Owed /\ app[d].mark \cap Owed' \subseteq Owed
        /\ \A job \in Asked(d) : /\ job.unforget \cap Owed' \subseteq Owed
                                 /\ job.put \cap Owed' \subseteq Owed
        /\ \A answer \in answers[d] : answer.got \cap Owed' \subseteq Owed
  <2>. SUFFICES ASSUME NEW d \in Copies
                PROVE  /\ app[d].here \subseteq finished /\ app[d].mark \subseteq finished
                       /\ \A job \in Asked(d) : /\ job.unforget \subseteq finished
                                                /\ job.put \subseteq finished
                       /\ \A answer \in answers[d] : answer.got \subseteq finished
    BY <1>0
  <2>1. app[d] \in Apps(finished) /\ answers[d] \subseteq Answers(finished)
    BY <1>0 DEF TypesIn
  <2>2. Asked(d) \subseteq Jobs(finished)
    BY <1>0, <2>1, Elements DEF TypesIn, Asked, Answers
  <2>. QED BY <2>1, <2>2 DEF Apps, Answers, Jobs
<1>6. \A d \in Copies :
        /\ work[d].at = "put" => Head(queue[d]).put \cap Owed' \subseteq Owed
        /\ work[d].at \in {"forget", "remove"} => Head(queue[d]).put \cap Owed' \subseteq Owed
        /\ work[d].at \in ChangeSteps => Head(queue[d])' = Head(queue[d])
  <2>. SUFFICES ASSUME NEW d \in Copies, work[d].at \in ChangeSteps
                PROVE  /\ Head(queue[d]).put \cap Owed' \subseteq Owed
                       /\ Head(queue[d])' = Head(queue[d])
    BY DEF ChangeSteps
  <2>1. queue[d] # <<>>
    BY DEF Shape, WorkFits
  <2>. QED BY <1>5, <1>0, <2>1, QueueGrows, HeadType DEF Asked
<1>7. Holds'
  <2>. SUFFICES ASSUME NEW d \in Copies
                PROVE  /\ app'[d].here \cap Owed' \subseteq disk.records \cup app'[d].mark
                       /\ (app'[d].mark \ app'[d].unsaved) \cap Owed' \subseteq disk.records
                       /\ \A job \in Asked(d)' : job.why = "forgotten" =>
                            job.unforget \cap Owed' \subseteq disk.records
                       /\ \A answer \in answers'[d] :
                            /\ answer.job.why = "read" => answer.got \cap Owed' \subseteq disk.records
                            /\ IsChange(answer.job) /\ answer.ok =>
                                 answer.job.put \cap Owed' \subseteq disk.records
                       /\ work[d].at = "put" =>
                            (Head(queue'[d]).put \ work[d].remaining) \cap Owed' \subseteq disk.records
                       /\ work[d].at \in {"forget", "remove"} =>
                            Head(queue'[d]).put \cap Owed' \subseteq disk.records
    BY <1>3 DEF Holds, IsChange
  <2>1. /\ app'[d].here \cap Owed' \subseteq disk.records \cup app'[d].mark
        /\ (app'[d].mark \ app'[d].unsaved) \cap Owed' \subseteq disk.records
    BY <1>2, <1>5 DEF Holds, Sound, AppSound
  <2>2. \A job \in Asked(d)' : job.why = "forgotten" => job.unforget \cap Owed' \subseteq disk.records
    <3>. SUFFICES ASSUME NEW job \in Asked(d)', job.why = "forgotten"
                  PROVE  job.unforget \cap Owed' \subseteq disk.records
      OBVIOUS
    <3>1. CASE job \in jobs
      BY <3>1 DEF Sound, JobSound
    <3>2. CASE job \in Asked(d)
      <4>1. job.unforget \cap Owed \subseteq disk.records
        BY <3>2 DEF Holds
      <4>. QED BY <1>5, <3>2, <4>1
    <3>. QED BY <1>1, <3>1, <3>2
  <2>3. \A answer \in answers'[d] :
          /\ answer.job.why = "read" => answer.got \cap Owed' \subseteq disk.records
          /\ IsChange(answer.job) /\ answer.ok => answer.job.put \cap Owed' \subseteq disk.records
    <3>. SUFFICES ASSUME NEW answer \in answers[d]
                  PROVE  /\ answer.job.why = "read" => answer.got \cap Owed' \subseteq disk.records
                         /\ IsChange(answer.job) /\ answer.ok =>
                              answer.job.put \cap Owed' \subseteq disk.records
      BY <1>1
    <3>1. /\ answer.job.why = "read" => answer.got \cap Owed \subseteq disk.records
          /\ IsChange(answer.job) /\ answer.ok => answer.job.put \cap Owed \subseteq disk.records
      BY DEF Holds
    <3>2. answer.got \cap Owed' \subseteq Owed /\ answer.job.put \cap Owed' \subseteq Owed
      BY <1>5 DEF Asked
    <3>. QED BY <3>1, <3>2
  <2>4. /\ work[d].at = "put" =>
             (Head(queue'[d]).put \ work[d].remaining) \cap Owed' \subseteq disk.records
        /\ work[d].at \in {"forget", "remove"} => Head(queue'[d]).put \cap Owed' \subseteq disk.records
    BY <1>6 DEF Holds, ChangeSteps
  <2>. QED BY <2>1, <2>2, <2>3, <2>4
<1>. QED BY <1>4, <1>7

\* What it knew to be kept is kept still.
LEMMA AppKeepsFinished ==
  ASSUME Shape, NEW c \in Copies, NEW new, NEW jobs, AppStep(c, new, jobs),
         AppTypes(new, jobs), FinishedIsKept,
         \A r \in Owed' : r \in (finished' \ finished) \cup (left \ left')
                                  \cup app[c].mark \cup Taking(c)
           => r \in Listed \cup left' \cup new.mark \cup Taking(c)'
  PROVE  FinishedIsKept'
<1>0. TypesIn(finished) /\ Listed' = Listed
  BY DEF Shape, Types, AppStep, Listed
<1>1. \A d \in Copies : app'[d] = IF d = c THEN new ELSE app[d]
  BY <1>0 DEF AppStep, TypesIn
<1>2. Ups' = Ups /\ c \in Ups
  BY <1>1 DEF Ups, AppStep
<1>3. ASSUME NEW d \in Copies, d # c PROVE Taking(d)' = Taking(d)
  <2>1. queue'[d] = queue[d] /\ answers'[d] = answers[d]
    BY <1>0, <1>3 DEF AppStep, TypesIn
  <2>. QED BY <2>1 DEF Taking
<1>. SUFFICES ASSUME NEW r \in Owed'
              PROVE  \/ r \in Listed \cup left'
                     \/ \E d \in Ups : r \in app'[d].mark \cup Taking(d)'
  BY <1>0, <1>2 DEF FinishedIsKept, Owed
<1>4. CASE r \in (finished' \ finished) \cup (left \ left') \cup app[c].mark \cup Taking(c)
  BY <1>1, <1>2, <1>4
<1>5. CASE r \notin (finished' \ finished) \cup (left \ left') \cup app[c].mark \cup Taking(c)
  <2>1. r \in Owed
    BY <1>5 DEF AppStep, Owed
  <2>2. CASE r \in Listed \cup left
    BY <1>5, <2>2
  <2>3. CASE \E d \in Ups : r \in app[d].mark \cup Taking(d)
    BY <1>1, <1>3, <1>5, <2>3 DEF Ups
  <2>. QED BY <2>1, <2>2, <2>3 DEF FinishedIsKept, Owed
<1>. QED BY <1>4, <1>5

\* A job asked for is still, or its answer is settled here.
LEMMA AppKeepsWaiting ==
  ASSUME Shape, NEW c \in Copies, NEW new, NEW jobs, AppStep(c, new, jobs),
         AppTypes(new, jobs), NoneWaits,
         new.unsaved # {} => new.retrying \/ \E job \in Asked(c)' : IsChange(job)
  PROVE  NoneWaits'
<1>0. TypesIn(finished)
  BY DEF Shape, Types
<1>1. \A d \in Copies : app'[d] = IF d = c THEN new ELSE app[d]
  BY <1>0 DEF AppStep, TypesIn
<1>. SUFFICES ASSUME NEW d \in Copies, app'[d].up, app'[d].unsaved # {}
              PROVE  \/ app'[d].retrying
                     \/ \E i \in 1..Len(queue'[d]) : IsChange(queue'[d][i])
                     \/ \E answer \in answers'[d] : IsChange(answer.job)
  BY DEF NoneWaits, Ups, IsChange
<1>2. CASE d = c
  BY <1>1, <1>2 DEF Asked, In
<1>3. CASE d # c
  <2>1. queue'[d] = queue[d] /\ answers'[d] = answers[d] /\ app'[d] = app[d]
    BY <1>0, <1>1, <1>3 DEF AppStep, TypesIn
  <2>. QED BY <2>1 DEF NoneWaits, Ups
<1>. QED BY <1>2, <1>3

-----------------------------------------------------------------------------
(***************************************************************************)
(* What the app does keeps the invariant.                                  *)
(***************************************************************************)
Inv ==
  /\ Shape /\ Aware /\ StoredSoFar /\ DeletedSoFar /\ ByHand /\ Holds
  /\ SureStays /\ GoneStays /\ FinishedIsKept /\ NoneWaits /\ Opening

\* What was kept by this copy, or is only now to be, it keeps.
Keeps(c, new) ==
  \A r \in Owed' :
    r \in (finished' \ finished) \cup (left \ left') \cup app[c].mark \cup Taking(c)
      => r \in Listed \cup left' \cup new.mark \cup Taking(c)'

Waits(c, new) == new.unsaved # {} => new.retrying \/ \E job \in Asked(c)' : IsChange(job)

LEMMA AppInv ==
  ASSUME Inv, NEW c \in Copies, NEW new, NEW jobs, AppStep(c, new, jobs),
         AppTypes(new, jobs), Sound(new, jobs), Keeps(c, new), Waits(c, new)
  PROVE  Inv'
<1>1. Shape'
  BY AppShape DEF Inv
<1>2. Aware' /\ StoredSoFar' /\ DeletedSoFar' /\ SureStays' /\ GoneStays'
  BY AppKeepsThread DEF Inv
<1>3. ByHand' /\ Holds'
  BY AppKeepsHistory DEF Inv
<1>4. FinishedIsKept'
  BY AppKeepsFinished DEF Inv, Keeps
<1>5. NoneWaits'
  BY AppKeepsWaiting DEF Inv, Waits
<1>6. Opening'
  <2>1. \A d \in Copies : app[d] # app'[d] => d = c
    BY DEF AppStep, Inv, Shape, Types, TypesIn
  <2>. QED BY <2>1 DEF Inv, Opening, AppStep
<1>. QED BY <1>1, <1>2, <1>3, <1>4, <1>5, <1>6 DEF Inv

\* What is asked is asked; what was, is, but for what is settled.
LEMMA AskedGrows ==
  ASSUME Shape, NEW c \in Copies, NEW new, NEW jobs, AppStep(c, new, jobs), AppTypes(new, jobs)
  PROVE  /\ Asked(c)' = In(queue[c]) \cup jobs \cup {answer.job : answer \in answers'[c]}
         /\ answers'[c] = answers[c] => Asked(c)' = Asked(c) \cup jobs
BY QueueGrows DEF Asked

\* Where nothing is settled, the marks are what there is to see to.
LEMMA AppAsks ==
  ASSUME Inv, NEW c \in Copies, NEW new, NEW jobs, AppStep(c, new, jobs),
         AppTypes(new, jobs), Sound(new, jobs), answers' = answers,
         \A r \in Owed' : r \in (finished' \ finished) \cup (left \ left') \cup app[c].mark
           => r \in Listed \cup left' \cup new.mark \cup Taking(c)',
         new.unsaved # {} => \/ new.retrying \/ \E job \in jobs : IsChange(job)
                             \/ app[c].unsaved # {} /\ (app[c].retrying => new.retrying)
  PROVE  Inv'
<1>1. Asked(c)' = Asked(c) \cup jobs
  BY AskedGrows DEF Inv
<1>2. \A r \in Taking(c) : r \in Taking(c)'
  BY <1>1, TakingIs
<1>3. Keeps(c, new)
  BY <1>2 DEF Keeps
<1>4. app[c].unsaved # {} => app[c].retrying \/ \E job \in Asked(c) : IsChange(job)
  BY DEF Inv, NoneWaits, Ups, AppStep, Asked, In
<1>5. Waits(c, new)
  BY <1>1, <1>4 DEF Waits
<1>. QED BY <1>3, <1>5, AppInv

\* What is known of a copy that is up.
LEMMA CopyFacts ==
  ASSUME Inv, NEW c \in Copies
  PROVE  /\ app \in [Copies -> Apps(finished)] /\ app[c] \in Apps(finished) /\ Fit(app[c])
         /\ app[c].trash \subseteq deleted
         /\ app[c].here \cap Owed \subseteq disk.records \cup app[c].mark
         /\ (app[c].mark \ app[c].unsaved) \cap Owed \subseteq disk.records
         /\ disk.records \cap Owed \subseteq Listed
         /\ \A s \in {app[c].here, app[c].mark, app[c].unsaved, app[c].trash, app[c].own, left} :
              s \subseteq finished
         /\ deleted \subseteq finished /\ finished \subseteq Records
<1>1. TypesIn(finished)
  BY DEF Inv, Shape, Types
<1>2. app \in [Copies -> Apps(finished)] /\ app[c] \in Apps(finished)
  BY <1>1 DEF TypesIn
<1>3. \A s \in {app[c].here, app[c].mark, app[c].unsaved, app[c].trash, app[c].own, left} :
        s \subseteq finished
  BY <1>1, <1>2 DEF TypesIn, Apps
<1>4. Fit(app[c])
  BY DEF Inv, Shape, AppFits, Fit
<1>5. disk.records \cap Owed \subseteq Listed
  BY DEF Inv, ByHand, Listed, Owed
<1>6. /\ app[c].trash \subseteq deleted
      /\ app[c].here \cap Owed \subseteq disk.records \cup app[c].mark
      /\ (app[c].mark \ app[c].unsaved) \cap Owed \subseteq disk.records
  BY DEF Inv, ByHand, Holds
<1>7. deleted \subseteq finished /\ finished \subseteq Records
  BY <1>1 DEF TypesIn, Inv, Shape, Types
<1>. QED BY <1>2, <1>3, <1>4, <1>5, <1>6, <1>7

\* The rest of the types, where an action leaves it.
LEMMA RestTypes ==
  ASSUME Inv, finished \subseteq finished'
  PROVE  /\ UNCHANGED answers => answers' \in [Copies -> SUBSET Answers(finished')]
         /\ UNCHANGED changed => changed' \in [Copies -> BOOLEAN]
         /\ UNCHANGED left => left' \subseteq finished'
         /\ UNCHANGED deleted => deleted' \subseteq finished'
         /\ UNCHANGED counts => asks' \in Nat /\ troubles' \in Nat
         /\ Acts => asks' \in Nat /\ troubles' \in Nat
<1>1. TypesIn(finished)
  BY DEF Inv, Shape, Types
<1>2. TypesIn(finished')
  BY <1>1, Wider
<1>. QED BY <1>2 DEF TypesIn, counts, Acts

LEMMA FinishInv ==
  ASSUME Inv, NEW c \in Copies, NEW r \in Records, Finish(c, r)
  PROVE  Inv'
<1>. DEFINE new == [app[c] EXCEPT !.here = @ \cup {r}, !.unsaved = @ \cup {r},
                                  !.mark = @ \cup {r}, !.own = {r}]
            job == Change("keep", {r} \cup new.unsaved, {}, {}, {})
<1>1. /\ finished' = finished \cup {r} /\ r \notin finished /\ app[c].up
      /\ app' = [app EXCEPT ![c] = new]
      /\ queue' = [queue EXCEPT ![c] = Append(@, job)]
      /\ UNCHANGED <<disk, changed, work, answers, left, loading, deleted, sure, gone, rolled,
                     swept, lost>>
  BY DEF Finish, Asks, AppIs
<1>2. /\ new \in Apps(finished') /\ Fit(new) /\ new.up
      /\ new.here = app[c].here \cup {r} /\ new.mark = app[c].mark \cup {r}
      /\ new.unsaved = app[c].unsaved \cup {r} /\ new.trash = app[c].trash
  BY <1>1, CopyFacts DEF Apps, Fit
<1>3. AppStep(c, new, {job})
  BY <1>1, <1>2 DEF AppStep
<1>4. AppTypes(new, {job})
  <2>1. job \in Jobs(finished')
    BY <1>1, <1>2, JobTypes DEF Apps, Whys, ChangeWhys
  <2>. QED BY <1>1, <1>2, <2>1, RestTypes, CopyFacts DEF AppTypes, Finish
<1>5. finished \cap Owed' \subseteq Owed /\ r \in finished'
  BY <1>1, OwedShrinks
<1>6. AppSound(new)
  BY <1>1, <1>2, <1>5, CopyFacts DEF AppSound
<1>7. JobSound(job) /\ IsChange(job)
  BY DEF JobSound, Change, IsChange
<1>8. \A s \in Owed' : s \in (finished' \ finished) \cup (left \ left') \cup app[c].mark
        => s \in new.mark
  BY <1>1, <1>2
<1>9. Sound(new, {job})
  BY <1>6, <1>7 DEF Sound
<1>. HIDE DEF new, job
<1>. QED BY <1>1, <1>3, <1>4, <1>7, <1>8, <1>9, AppAsks

LEMMA DeleteInv ==
  ASSUME Inv, NEW c \in Copies, NEW picked \in SUBSET Records, Delete(c, picked)
  PROVE  Inv'
<1>. DEFINE new == [app[c] EXCEPT !.here = @ \ picked, !.unsaved = @ \ picked]
            job == Change("delete", new.unsaved, {}, picked, app[c].unsaved \cap picked)
<1>1. /\ app[c].up /\ picked \subseteq app[c].here /\ deleted' = deleted \cup picked
      /\ app' = [app EXCEPT ![c] = new]
      /\ queue' = [queue EXCEPT ![c] = Append(@, job)]
      /\ UNCHANGED <<disk, changed, work, answers, left, loading, finished, sure, gone,
                     rolled, swept, lost>>
  BY DEF Delete, DeleteAsked, Asks, AppIs
<1>2. /\ new \in Apps(finished) /\ Fit(new) /\ new.up
      /\ new.here = app[c].here \ picked /\ new.mark = app[c].mark
      /\ new.unsaved = app[c].unsaved \ picked /\ new.trash = app[c].trash
  BY <1>1, CopyFacts DEF Apps, Fit
<1>3. AppStep(c, new, {job})
  BY <1>1, <1>2 DEF AppStep
<1>4. AppTypes(new, {job})
  <2>1. job \in Jobs(finished)
    BY <1>1, <1>2, CopyFacts, JobTypes DEF Whys, ChangeWhys
  <2>2. deleted' \subseteq finished'
    BY <1>1, CopyFacts
  <2>. QED BY <1>1, <1>2, <2>1, <2>2, RestTypes, CopyFacts DEF AppTypes, Delete
<1>5. finished \cap Owed' \subseteq Owed /\ picked \cap Owed' = {}
  BY <1>1, OwedShrinks DEF Owed
<1>6. AppSound(new)
  <2>1. (new.mark \ new.unsaved) \cap Owed' \subseteq (app[c].mark \ app[c].unsaved) \cap Owed
    BY <1>2, <1>5, CopyFacts
  <2>. QED BY <1>1, <1>2, <1>5, <2>1, CopyFacts DEF AppSound
<1>7. JobSound(job) /\ IsChange(job)
  BY <1>1 DEF JobSound, Change, IsChange
<1>9. Sound(new, {job})
  BY <1>6, <1>7 DEF Sound
<1>. HIDE DEF new, job
<1>. QED BY <1>1, <1>2, <1>3, <1>4, <1>7, <1>9, AppAsks

LEMMA UndoInv ==
  ASSUME Inv, NEW c \in Copies, Undo(c)
  PROVE  Inv'
<1>. DEFINE taken == app[c].trash
            new == [app[c] EXCEPT !.trash = {}, !.here = @ \cup taken]
            job == Change("undo", taken \cup new.unsaved, taken, {}, {})
<1>1. /\ app[c].up /\ app' = [app EXCEPT ![c] = new]
      /\ queue' = [queue EXCEPT ![c] = Append(@, job)]
      /\ UNCHANGED <<disk, changed, work, answers, left, loading, ghosts>>
  BY DEF Undo, Asks, AppIs
<1>2. /\ new \in Apps(finished) /\ Fit(new) /\ new.up
      /\ new.here = app[c].here \cup taken /\ new.mark = app[c].mark
      /\ new.unsaved = app[c].unsaved /\ new.trash = {}
  BY <1>1, CopyFacts DEF Apps, Fit
<1>3. AppStep(c, new, {job})
  BY <1>1, <1>2 DEF AppStep, ghosts
<1>4. AppTypes(new, {job})
  <2>1. job \in Jobs(finished)
    BY <1>1, <1>2, CopyFacts, JobTypes DEF Whys, ChangeWhys
  <2>. QED BY <1>1, <1>2, <2>1, RestTypes, CopyFacts DEF AppTypes, Undo, ghosts
<1>5. Owed' = Owed /\ taken \cap Owed = {}
  BY <1>1, CopyFacts DEF Owed, ghosts
<1>6. AppSound(new)
  BY <1>1, <1>2, <1>5, CopyFacts DEF AppSound, ghosts
<1>7. JobSound(job) /\ IsChange(job)
  BY <1>1, CopyFacts DEF JobSound, Change, IsChange, ghosts
<1>9. Sound(new, {job})
  BY <1>6, <1>7 DEF Sound
<1>. HIDE DEF new, job
<1>. QED BY <1>1, <1>2, <1>3, <1>4, <1>7, <1>9, AppAsks DEF ghosts

LEMMA LookInv ==
  ASSUME Inv, NEW c \in Copies, Look(c)
  PROVE  Inv'
<1>. DEFINE new == [app[c] EXCEPT !.looking = TRUE]
            job == Ask("list", app[c].here, app[c].unsaved)
<1>1. /\ app[c].up /\ app' = [app EXCEPT ![c] = new]
      /\ queue' = [queue EXCEPT ![c] = Append(@, job)]
      /\ UNCHANGED <<disk, work, answers, left, loading, ghosts, counts>>
  BY DEF Look, AppIs
<1>2. /\ new \in Apps(finished) /\ Fit(new) /\ new.up
      /\ new.here = app[c].here /\ new.mark = app[c].mark
      /\ new.unsaved = app[c].unsaved /\ new.trash = app[c].trash
      /\ new.retrying = app[c].retrying
  BY <1>1, CopyFacts DEF Apps, Fit
<1>3. AppStep(c, new, {job})
  BY <1>1, <1>2 DEF AppStep, ghosts
<1>4. AppTypes(new, {job})
  <2>1. job \in Jobs(finished)
    BY CopyFacts, AskTypes DEF Whys
  <2>2. changed' \in [Copies -> BOOLEAN]
    BY DEF Look, Inv, Shape, Types, TypesIn
  <2>. QED BY <1>1, <1>2, <2>1, <2>2, RestTypes, CopyFacts DEF AppTypes, ghosts
<1>5. Owed' = Owed
  BY <1>1 DEF Owed, ghosts
<1>6. AppSound(new)
  BY <1>1, <1>2, <1>5, CopyFacts DEF AppSound, ghosts
<1>7. JobSound(job)
  BY DEF JobSound, Ask, Change, IsChange
<1>9. Sound(new, {job})
  BY <1>6, <1>7 DEF Sound
<1>. HIDE DEF new, job
<1>. QED BY <1>1, <1>2, <1>3, <1>4, <1>7, <1>9, AppAsks DEF ghosts

LEMMA RetryInv ==
  ASSUME Inv, NEW c \in Copies, Retry(c)
  PROVE  Inv'
<1>. DEFINE new == [app[c] EXCEPT !.retrying = FALSE]
            job == Change("retry", {} \cup new.unsaved, {}, {}, {})
<1>1. /\ app[c].up /\ app' = [app EXCEPT ![c] = new]
      /\ IF new.unsaved # {} THEN queue' = [queue EXCEPT ![c] = Append(@, job)]
                             ELSE queue' = queue
      /\ UNCHANGED <<disk, changed, work, answers, left, loading, ghosts, counts>>
  BY DEF Retry, Asks, AppIs
<1>2. /\ new \in Apps(finished) /\ Fit(new) /\ new.up
      /\ new.here = app[c].here /\ new.mark = app[c].mark
      /\ new.unsaved = app[c].unsaved /\ new.trash = app[c].trash
  BY <1>1, CopyFacts DEF Apps, Fit
<1>. DEFINE jobs == IF new.unsaved # {} THEN {job} ELSE {}
<1>3. AppStep(c, new, jobs)
  BY <1>1, <1>2 DEF AppStep, ghosts
<1>4. AppTypes(new, jobs)
  <2>1. job \in Jobs(finished)
    BY <1>1, <1>2, CopyFacts, JobTypes DEF Whys, ChangeWhys
  <2>. QED BY <1>1, <1>2, <2>1, RestTypes, CopyFacts DEF AppTypes, ghosts
<1>5. Owed' = Owed
  BY <1>1 DEF Owed, ghosts
<1>6. AppSound(new)
  BY <1>1, <1>2, <1>5, CopyFacts DEF AppSound, ghosts
<1>7. JobSound(job) /\ IsChange(job)
  BY DEF JobSound, Ask, Change, IsChange
<1>8. Sound(new, jobs) /\ (new.unsaved # {} => \E j \in jobs : IsChange(j))
  BY <1>6, <1>7 DEF Sound
<1>. HIDE DEF new, job, jobs
<1>. QED BY <1>1, <1>2, <1>3, <1>4, <1>8, AppAsks DEF ghosts

LEMMA TakeCutOffInv ==
  ASSUME Inv, NEW c \in Copies, TakeCutOff(c)
  PROVE  Inv'
<1>. DEFINE kept == left \ app[c].here
            job  == Ask("cut_off", kept, {})
            jobs == IF kept = {} THEN {} ELSE {job}
<1>1. /\ app[c].up /\ app' = app /\ left' = {}
      /\ IF kept = {} THEN queue' = queue ELSE queue' = [queue EXCEPT ![c] = Append(@, job)]
      /\ UNCHANGED <<disk, changed, work, answers, loading, ghosts, counts>>
  BY DEF TakeCutOff
<1>2. AppStep(c, app[c], jobs)
  BY <1>1, CopyFacts DEF AppStep, ghosts
<1>3. AppTypes(app[c], jobs)
  <2>1. job \in Jobs(finished)
    <3>1. kept \in SUBSET finished /\ {} \in SUBSET finished /\ "cut_off" \in Whys
      BY CopyFacts DEF Whys
    <3>. QED BY <3>1, AskTypes
  <2>. QED BY <1>1, <2>1, RestTypes, CopyFacts DEF AppTypes, ghosts
<1>4. Owed' = Owed
  BY <1>1 DEF Owed, ghosts
<1>5. AppSound(app[c])
  BY <1>1, <1>4, CopyFacts DEF AppSound, ghosts
<1>6. JobSound(job) /\ job.why = "cut_off" /\ job.put = kept
  BY DEF JobSound, Ask, Change, IsChange
<1>7. \A r \in kept : r \in Taking(c)'
  <2>1. jobs \subseteq Asked(c)'
    <3>. HIDE DEF jobs
    <3>. QED BY <1>2, <1>3, AskedGrows DEF Inv
  <2>2. kept # {} => job \in Asked(c)'
    BY <2>1
  <2>. QED BY <1>6, <2>2, TakingIs
<1>8. \A r \in Owed' : r \in left => r \in Listed \cup app[c].mark \cup Taking(c)'
  BY <1>4, <1>7, CopyFacts
<1>9. Sound(app[c], jobs)
  BY <1>5, <1>6 DEF Sound
<1>. HIDE DEF kept, job, jobs
<1>. QED BY <1>1, <1>2, <1>3, <1>8, <1>9, AppAsks DEF ghosts

-----------------------------------------------------------------------------
(***************************************************************************)
(* Taking up an answer.                                                    *)
(***************************************************************************)
LEMMA AnswerFacts ==
  ASSUME Inv, NEW c \in Copies, NEW answer \in answers[c]
  PROVE  /\ app[c].up
         /\ answer \in Answers(finished) /\ answer.job \in Jobs(finished)
         /\ answer.ok \in BOOLEAN /\ answer.got \in SUBSET finished
         /\ \A s \in {answer.job.put, answer.job.unforget, answer.job.forget, answer.job.unsaved} :
              s \in SUBSET finished
         /\ IsChange(answer.job) =>
              /\ answer.job.unsaved \subseteq answer.job.forget
              /\ answer.job.forget \cup answer.job.unforget \subseteq deleted
              /\ answer.ok => answer.job.put \cap Owed \subseteq disk.records
         /\ answer.job.why = "forgotten" => answer.job.unforget \cap Owed \subseteq disk.records
         /\ answer.job.why = "read" => answer.got \cap Owed \subseteq disk.records
         /\ answer.job.why = "cut_off" => answer.got \subseteq deleted
<1>1. answer \in Answers(finished)
  BY DEF Inv, Shape, Types, TypesIn
<1>2. answer.job \in Jobs(finished) /\ answer.ok \in BOOLEAN /\ answer.got \in SUBSET finished
  BY <1>1 DEF Answers
<1>3. answer.job \in Asked(c)
  BY DEF Asked
<1>4. app[c].up
  BY DEF Inv, Shape, DownIsIdle
<1>5. \A s \in {answer.job.put, answer.job.unforget, answer.job.forget, answer.job.unsaved} :
        s \in SUBSET finished
  BY <1>2 DEF Jobs
<1>6. IsChange(answer.job) => answer.job.unsaved \subseteq answer.job.forget
  BY <1>3 DEF Inv, Shape, ChangeFits
<1>7. /\ IsChange(answer.job) => answer.job.forget \cup answer.job.unforget \subseteq deleted
      /\ answer.job.why = "cut_off" => answer.got \subseteq deleted
  BY <1>3 DEF Inv, ByHand
<1>8. /\ IsChange(answer.job) /\ answer.ok => answer.job.put \cap Owed \subseteq disk.records
      /\ answer.job.why = "forgotten" => answer.job.unforget \cap Owed \subseteq disk.records
      /\ answer.job.why = "read" => answer.got \cap Owed \subseteq disk.records
  BY <1>3 DEF Inv, Holds
<1>. QED BY <1>1, <1>2, <1>4, <1>5, <1>6, <1>7, <1>8

LEMMA AppSettles ==
  ASSUME Inv, NEW c \in Copies, NEW answer \in answers[c],
         NEW new \in Apps(finished), NEW jobs \in SUBSET Jobs(finished),
         AppStep(c, new, jobs), answers' = [answers EXCEPT ![c] = @ \ {answer}],
         UNCHANGED <<changed, left, loading, ghosts, counts>>, Sound(new, jobs),
         \A r \in Owed :
           r \in app[c].mark \/ (answer.job.why = "cut_off" /\ r \in answer.job.put)
             => r \in Listed \cup new.mark,
         new.unsaved # {} =>
           \/ new.retrying \/ \E job \in jobs : IsChange(job)
           \/ /\ app[c].unsaved # {} /\ (app[c].retrying => new.retrying)
              /\ ~IsChange(answer.job)
  PROVE  Inv'
<1>0. TypesIn(finished)
  BY DEF Inv, Shape, Types
<1>1. AppTypes(new, jobs)
  <2>1. answers' \in [Copies -> SUBSET Answers(finished)]
    BY <1>0 DEF TypesIn
  <2>. QED BY <2>1, RestTypes, CopyFacts DEF AppTypes, ghosts
<1>2. answers'[c] = answers[c] \ {answer}
  BY <1>0 DEF TypesIn
<1>3. Asked(c)' = In(queue[c]) \cup jobs \cup {a.job : a \in answers'[c]}
  BY <1>1, AskedGrows DEF Inv
<1>4. Asked(c) \subseteq Asked(c)' \cup {answer.job} /\ jobs \subseteq Asked(c)'
  BY <1>2, <1>3 DEF Asked
<1>5. Owed' = Owed
  BY DEF Owed, ghosts
<1>6. Keeps(c, new)
  <2>1. \A r \in Taking(c) : r \in Taking(c)' \/ (answer.job.why = "cut_off" /\ r \in answer.job.put)
    BY <1>4, TakingIs
  <2>. QED BY <1>5, <2>1 DEF Keeps, ghosts
<1>7. Waits(c, new)
  <2>1. app[c].unsaved # {} => app[c].retrying \/ \E job \in Asked(c) : IsChange(job)
    BY DEF Inv, NoneWaits, Ups, AppStep, Asked, In
  <2>. QED BY <1>4, <2>1 DEF Waits
<1>. QED BY <1>1, <1>6, <1>7, AppInv

\* The mark lets go of nothing that is owed and not stored.
LEMMA MarkSettled ==
  ASSUME Inv, NEW a \in Apps(finished), NEW ok \in BOOLEAN, Fit(a), a.trash \subseteq deleted,
         a.here \cap Owed \subseteq disk.records \cup a.mark \cup a.unsaved,
         (a.mark \ a.unsaved) \cap Owed \subseteq disk.records
  PROVE  LET b == SettleMark(a, ok)
         IN  /\ b \in Apps(finished) /\ b.up = a.up /\ b.unsaved = a.unsaved
             /\ b.retrying = a.retrying /\ b.trash = a.trash /\ b.here = a.here
             /\ Fit(b)
             /\ b.here \cap Owed \subseteq disk.records \cup b.mark
             /\ (b.mark \ b.unsaved) \cap Owed \subseteq disk.records
             /\ a.mark \cap Owed \subseteq disk.records \cup b.mark
             /\ a.unsaved \subseteq b.mark
<1>. DEFINE b == SettleMark(a, ok)
            held == a.unsaved \cup (IF ok THEN {} ELSE a.own)
<1>1. b = [a EXCEPT !.mark = held, !.own = @ \cap held]
  BY DEF SettleMark
<1>2. held \subseteq finished
  BY DEF Apps
<1>3. /\ b \in Apps(finished) /\ b.up = a.up /\ b.unsaved = a.unsaved
      /\ b.retrying = a.retrying /\ b.trash = a.trash /\ b.here = a.here
      /\ b.mark = held /\ b.own = a.own \cap held
  BY <1>1, <1>2 DEF Apps
<1>. QED BY <1>3 DEF Fit

LEMMA SettleChangeInv ==
  ASSUME Inv, NEW c \in Copies, NEW answer \in answers[c],
         answers' = [answers EXCEPT ![c] = @ \ {answer}],
         UNCHANGED <<disk, changed, work, left, loading, ghosts, counts>>, SettleChange(c, answer)
  PROVE  Inv'
<1>. DEFINE job  == answer.job
            took == IF answer.ok THEN Taken(app[c], job) ELSE Back(app[c], job)
            kept == SettleMark(took, answer.ok)
            new  == RetryLater(kept, answer.ok)
<1>1. /\ IsChange(job) /\ app[c].up /\ queue' = queue
      /\ app' = [app EXCEPT ![c] = new]
  BY AnswerFacts DEF SettleChange, AppIs
<1>2. /\ took \in Apps(finished) /\ Fit(took) /\ took.up = app[c].up
      /\ took.trash \subseteq deleted /\ took.mark = app[c].mark
      /\ took.here \cap Owed \subseteq disk.records \cup took.mark \cup took.unsaved
      /\ (took.mark \ took.unsaved) \cap Owed \subseteq disk.records
  <2>0. /\ app[c] \in Apps(finished) /\ job.why \in Whys
        /\ \A s \in {job.put, job.unforget, job.forget, job.unsaved} : s \subseteq finished
    BY CopyFacts, AnswerFacts DEF Jobs
  <2>1. CASE answer.ok
    <3>1. took = [app[c] EXCEPT !.unsaved = app[c].unsaved \ job.put,
                                !.trash = IF job.why = "delete" THEN job.forget ELSE app[c].trash]
      BY <2>1 DEF Taken
    <3>2. /\ took \in Apps(finished) /\ took.up = app[c].up /\ took.mark = app[c].mark
          /\ took.here = app[c].here /\ took.own = app[c].own
          /\ took.unsaved = app[c].unsaved \ job.put
          /\ took.trash = IF job.why = "delete" THEN job.forget ELSE app[c].trash
      <4>. HIDE DEF took, job
      <4>. QED BY <2>0, <3>1 DEF Apps
    <3>3. /\ job.forget \subseteq deleted /\ job.put \cap Owed \subseteq disk.records
      BY <1>1, <2>1, AnswerFacts
    <3>. HIDE DEF took
    <3>. QED BY <3>2, <3>3, CopyFacts DEF Fit
  <2>2. CASE ~answer.ok
    <3>1. took = [app[c] EXCEPT !.here = (app[c].here \cup job.forget) \ job.unforget,
                                !.unsaved = (app[c].unsaved \cup job.unsaved) \ job.unforget,
                                !.trash = IF job.why = "undo" THEN job.unforget
                                                              ELSE app[c].trash]
      BY <2>2 DEF Back
    <3>2. /\ took \in Apps(finished) /\ took.up = app[c].up /\ took.mark = app[c].mark
          /\ took.here = (app[c].here \cup job.forget) \ job.unforget /\ took.own = app[c].own
          /\ took.unsaved = (app[c].unsaved \cup job.unsaved) \ job.unforget
          /\ took.trash = IF job.why = "undo" THEN job.unforget ELSE app[c].trash
      <4>. HIDE DEF took, job
      <4>. QED BY <2>0, <3>1 DEF Apps
    <3>3. /\ job.forget \cup job.unforget \subseteq deleted /\ job.unsaved \subseteq job.forget
          /\ deleted \cap Owed = {}
      BY <1>1, AnswerFacts DEF Owed
    <3>. HIDE DEF took
    <3>. QED BY <3>2, <3>3, CopyFacts DEF Fit
  <2>. QED BY <2>1, <2>2
<1>3. /\ kept \in Apps(finished) /\ kept.up /\ kept.trash \subseteq deleted /\ Fit(kept)
      /\ kept.here \cap Owed \subseteq disk.records \cup kept.mark
      /\ (kept.mark \ kept.unsaved) \cap Owed \subseteq disk.records
      /\ app[c].mark \cap Owed \subseteq disk.records \cup kept.mark
  <2>. HIDE DEF took
  <2>. QED BY <1>1, <1>2, MarkSettled, AnswerFacts
<1>4. /\ new \in Apps(finished) /\ new.up /\ new.trash \subseteq deleted /\ Fit(new)
      /\ new.here \cap Owed \subseteq disk.records \cup new.mark
      /\ (new.mark \ new.unsaved) \cap Owed \subseteq disk.records
      /\ app[c].mark \cap Owed \subseteq disk.records \cup new.mark
      /\ new.unsaved # {} => new.retrying
  <2>. HIDE DEF kept
  <2>1. new = [kept EXCEPT !.retrying = kept.retrying \/ kept.unsaved # {}]
    BY DEF RetryLater
  <2>. QED BY <1>3, <2>1 DEF Apps, Fit
<1>. HIDE DEF new
<1>5. AppStep(c, new, {})
  <2>1. \A d \in Copies : answers'[d] \subseteq answers[d] /\ (d # c => answers'[d] = answers[d])
    BY DEF Inv, Shape, Types, TypesIn
  <2>. QED BY <1>1, <1>4, <2>1 DEF AppStep, ghosts
<1>6. Owed' = Owed /\ deleted' = deleted
  BY DEF Owed, ghosts
<1>7. Sound(new, {})
  BY <1>4, <1>6 DEF Sound, AppSound
<1>8. IsChange(answer.job) /\ answer.job.why # "cut_off"
  BY <1>1 DEF IsChange
<1>9. \A r \in Owed : r \in app[c].mark => r \in Listed \cup new.mark
  BY <1>4, CopyFacts
<1>. QED BY <1>4, <1>5, <1>7, <1>8, <1>9, AppSettles

LEMMA SettleListInv ==
  ASSUME Inv, NEW c \in Copies, NEW answer \in answers[c],
         answers' = [answers EXCEPT ![c] = @ \ {answer}],
         UNCHANGED <<disk, changed, work, left, loading, ghosts, counts>>,
         SettleList(c, answer) \/ SettleRead(c, answer)
  PROVE  Inv'
<1>0. app[c] \in Apps(finished) /\ app[c].up /\ app' = [app EXCEPT ![c] = app[c]]
  BY CopyFacts, AnswerFacts DEF SettleList, SettleRead
<1>1. PICK job \in Jobs(finished) :
        /\ queue' = [queue EXCEPT ![c] = Append(@, job)]
        /\ ~IsChange(job) /\ (job.why = "forgotten" => job.unforget \cap Owed \subseteq disk.records)
  <2>1. CASE SettleList(c, answer)
    <3>. DEFINE new     == answer.got \ answer.job.put
                missing == (answer.job.put \ answer.got) \ answer.job.unforget
    <3>1. new \in SUBSET finished /\ missing \in SUBSET finished /\ "read" \in Whys
      BY AnswerFacts DEF Whys
    <3>2. Ask("read", new, missing) \in Jobs(finished)
      BY <3>1, AskTypes
    <3>3. queue' = [queue EXCEPT ![c] = Append(@, Ask("read", new, missing))]
      BY <2>1 DEF SettleList
    <3>4. Ask("read", new, missing).why = "read"
      BY DEF Ask, Change
    <3>. HIDE DEF new, missing
    <3>. QED BY <3>2, <3>3, <3>4 DEF IsChange
  <2>2. CASE SettleRead(c, answer)
    <3>. DEFINE next == Ask("forgotten", answer.job.unforget, answer.got)
    <3>1. next \in Jobs(finished)
      BY AnswerFacts, AskTypes DEF Whys
    <3>2. next.why = "forgotten" /\ next.unforget = answer.got
      BY DEF Ask, Change
    <3>3. queue' = [queue EXCEPT ![c] = Append(@, next)]
      BY <2>2 DEF SettleRead
    <3>4. answer.got \cap Owed \subseteq disk.records
      BY <2>2, AnswerFacts DEF SettleRead
    <3>. HIDE DEF next
    <3>. QED BY <3>1, <3>2, <3>3, <3>4 DEF IsChange
  <2>. QED BY <2>1, <2>2
<1>2. AppStep(c, app[c], {job})
  <2>1. \A d \in Copies : answers'[d] \subseteq answers[d] /\ (d # c => answers'[d] = answers[d])
    BY DEF Inv, Shape, Types, TypesIn
  <2>. QED BY <1>0, <1>1, <2>1 DEF AppStep, ghosts
<1>3. Owed' = Owed /\ deleted' = deleted
  BY DEF Owed, ghosts
<1>4. Sound(app[c], {job})
  BY <1>1, <1>3, CopyFacts DEF Sound, AppSound, JobSound
<1>5. ~IsChange(answer.job) /\ answer.job.why # "cut_off"
  BY DEF SettleList, SettleRead, IsChange
<1>. QED BY <1>0, <1>1, <1>2, <1>4, <1>5, AppSettles

LEMMA SettleForgottenInv ==
  ASSUME Inv, NEW c \in Copies, NEW answer \in answers[c],
         answers' = [answers EXCEPT ![c] = @ \ {answer}],
         UNCHANGED <<disk, changed, work, left, loading, ghosts, counts>>, SettleForgotten(c, answer)
  PROVE  Inv'
<1>. DEFINE arrived == answer.job.unforget
            missing == answer.job.put
            going == (missing \cap answer.got) \ app[c].unsaved
            again == ((missing \ answer.got) \cap app[c].here) \ app[c].unsaved
            new   == TakeUp(app[c], arrived, missing, answer.got)
            job   == Change("retry", {} \cup new.unsaved, {}, {}, {})
            jobs  == IF new.unsaved \ app[c].unsaved # {} THEN {job} ELSE {}
<1>1. /\ answer.job.why = "forgotten" /\ app[c].up
      /\ app' = [app EXCEPT ![c] = new]
      /\ IF new.unsaved \ app[c].unsaved # {}
           THEN queue' = [queue EXCEPT ![c] = Append(@, job)] ELSE queue' = queue
  BY AnswerFacts DEF SettleForgotten, Asks, AppIs
<1>2. /\ new \in Apps(finished) /\ new.up /\ new.mark = app[c].mark /\ new.own = app[c].own
      /\ new.here = (app[c].here \ going) \cup arrived /\ new.trash = app[c].trash
      /\ new.unsaved = app[c].unsaved \cup again /\ new.retrying = app[c].retrying
  <2>1. new = [app[c] EXCEPT !.looking = FALSE, !.here = (app[c].here \ going) \cup arrived,
                             !.unsaved = app[c].unsaved \cup again]
    BY DEF TakeUp
  <2>2. arrived \subseteq finished
    BY AnswerFacts
  <2>. HIDE DEF new
  <2>. QED BY <1>1, <2>1, <2>2, CopyFacts DEF Apps
<1>3. arrived \cap Owed \subseteq disk.records
  BY <1>1, AnswerFacts
<1>. HIDE DEF new
<1>4. jobs \in SUBSET Jobs(finished) /\ \A j \in jobs : IsChange(j) /\ JobSound(j)
  <2>1. new.unsaved \in SUBSET finished /\ {} \in SUBSET finished /\ "retry" \in Whys
    BY <1>2 DEF Apps, Whys, ChangeWhys
  <2>2. job \in Jobs(finished)
    BY <2>1, JobTypes
  <2>. QED BY <2>2 DEF JobSound, Change, IsChange
<1>5. AppStep(c, new, jobs)
  <2>1. \A d \in Copies : answers'[d] \subseteq answers[d] /\ (d # c => answers'[d] = answers[d])
    BY DEF Inv, Shape, Types, TypesIn
  <2>. QED BY <1>1, <1>2, <2>1 DEF AppStep, ghosts
<1>6. Owed' = Owed /\ deleted' = deleted
  BY DEF Owed, ghosts
<1>7. Sound(new, jobs)
  BY <1>2, <1>3, <1>4, <1>6, CopyFacts DEF Sound, AppSound, Fit
<1>8. new.unsaved # {} => (\E j \in jobs : IsChange(j)) \/ app[c].unsaved # {}
  BY <1>2, <1>4
<1>9. ~IsChange(answer.job) /\ answer.job.why # "cut_off"
  BY <1>1 DEF IsChange
<1>. HIDE DEF jobs
<1>. QED BY <1>2, <1>4, <1>5, <1>7, <1>8, <1>9, AppSettles

LEMMA SettleCutOffInv ==
  ASSUME Inv, NEW c \in Copies, NEW answer \in answers[c],
         answers' = [answers EXCEPT ![c] = @ \ {answer}],
         UNCHANGED <<disk, changed, work, left, loading, ghosts, counts>>, SettleCutOff(c, answer)
  PROVE  Inv'
<1>. DEFINE held  == (answer.job.put \ answer.got) \ app[c].here
            taken == [app[c] EXCEPT !.here = @ \cup held, !.unsaved = @ \cup held]
            new   == SettleMark(taken, FALSE)
            job   == Change("keep", held \cup new.unsaved, {}, {}, {})
<1>0. /\ answer.job.why = "cut_off" /\ app[c].up /\ answer.got \cap Owed = {}
      /\ held \subseteq finished
  BY AnswerFacts DEF SettleCutOff, Owed
<1>1. \A d \in Copies : answers'[d] \subseteq answers[d] /\ (d # c => answers'[d] = answers[d])
  BY DEF Inv, Shape, Types, TypesIn
<1>2. Owed' = Owed /\ deleted' = deleted
  BY DEF Owed, ghosts
<1>3. ~IsChange(answer.job)
  BY <1>0 DEF IsChange
<1>4. CASE held = {}
  <2>1. app' = [app EXCEPT ![c] = app[c]] /\ queue' = queue
    BY <1>4, CopyFacts DEF SettleCutOff
  <2>2. AppStep(c, app[c], {})
    BY <1>0, <1>1, <2>1 DEF AppStep, ghosts
  <2>3. Sound(app[c], {})
    BY <1>2, CopyFacts DEF Sound, AppSound
  <2>4. \A r \in Owed : r \in app[c].mark \/ r \in answer.job.put => r \in Listed \cup app[c].mark
    BY <1>0, <1>4, CopyFacts
  <2>. QED BY <1>3, <2>2, <2>3, <2>4, AppSettles, CopyFacts
<1>5. CASE held # {}
  <2>1. app' = [app EXCEPT ![c] = new] /\ queue' = [queue EXCEPT ![c] = Append(@, job)]
    BY <1>5 DEF SettleCutOff, Asks, AppIs
  <2>2. /\ taken \in Apps(finished) /\ taken.up /\ taken.mark = app[c].mark
        /\ taken.own = app[c].own /\ taken.trash = app[c].trash
        /\ taken.here = app[c].here \cup held /\ taken.unsaved = app[c].unsaved \cup held
    BY <1>0, CopyFacts DEF Apps
  <2>. HIDE DEF taken, held
  <2>3. /\ taken.here \cap Owed \subseteq disk.records \cup taken.mark \cup taken.unsaved
        /\ (taken.mark \ taken.unsaved) \cap Owed \subseteq disk.records
        /\ taken.trash \subseteq deleted /\ Fit(taken)
    BY <2>2, CopyFacts DEF Fit
  <2>4. /\ new \in Apps(finished) /\ new.up /\ new.unsaved = taken.unsaved
        /\ new.trash \subseteq deleted /\ Fit(new)
        /\ new.here \cap Owed \subseteq disk.records \cup new.mark
        /\ (new.mark \ new.unsaved) \cap Owed \subseteq disk.records
        /\ taken.mark \cap Owed \subseteq disk.records \cup new.mark
        /\ taken.unsaved \subseteq new.mark
    BY <2>2, <2>3, MarkSettled
  <2>. HIDE DEF new
  <2>5. job \in Jobs(finished) /\ IsChange(job) /\ JobSound(job)
    <3>1. held \cup new.unsaved \in SUBSET finished /\ {} \in SUBSET finished /\ "keep" \in Whys
      BY <1>0, <2>4 DEF Apps, Whys, ChangeWhys
    <3>2. job \in Jobs(finished)
      BY <3>1, JobTypes
    <3>. QED BY <3>2 DEF JobSound, Change, IsChange
  <2>6. AppStep(c, new, {job})
    BY <1>0, <1>1, <2>1, <2>4 DEF AppStep, ghosts
  <2>7. Sound(new, {job})
    BY <1>2, <2>4, <2>5 DEF Sound, AppSound
  <2>8. \A r \in Owed : r \in app[c].mark \/ r \in answer.job.put => r \in Listed \cup new.mark
    BY <1>0, <2>2, <2>4, CopyFacts DEF held
  <2>. HIDE DEF job
  <2>. QED BY <2>4, <2>5, <2>6, <2>7, <2>8, AppSettles
<1>. QED BY <1>4, <1>5

LEMMA SettleInv ==
  ASSUME Inv, NEW c \in Copies, Settle(c)
  PROVE  Inv'
<1>1. PICK answer \in answers[c] :
        /\ answers' = [answers EXCEPT ![c] = @ \ {answer}]
        /\ \/ SettleChange(c, answer) \/ SettleList(c, answer) \/ SettleRead(c, answer)
           \/ SettleForgotten(c, answer) \/ SettleCutOff(c, answer)
  BY DEF Settle
<1>2. UNCHANGED <<disk, changed, work, left, loading, ghosts, counts>>
  BY DEF Settle
<1>. QED BY <1>1, <1>2, SettleChangeInv, SettleListInv, SettleForgottenInv, SettleCutOffInv

-----------------------------------------------------------------------------
(***************************************************************************)
(* What a thread's step leaves alone, and what it changes for its own.     *)
(***************************************************************************)
\* The app, what was asked, and the other threads, but that they may learn
\* of more deleted and undone.
Steady(c) ==
  /\ UNCHANGED <<app, left, loading, finished, deleted, lost>>
  /\ queue[c] # <<>>
  /\ \A d \in Copies : Asked(d)' = Asked(d)
  /\ \A d \in Copies \ {c} :
       /\ queue'[d] = queue[d] /\ answers'[d] = answers[d]
       /\ work'[d].at = work[d].at /\ work'[d].remaining = work[d].remaining
       /\ work'[d].placed = work[d].placed
       /\ work[d].at \in ChangeSteps =>
            work[d].dying \subseteq work'[d].dying /\ work[d].rising \subseteq work'[d].rising

\* Of the disk: only what it deletes goes, or gets a tombstone, and a
\* tombstone goes only as it undoes, or takes back, a deletion.
Careful(c) ==
  /\ disk.records \ disk'.records \subseteq Deleting(c)
  /\ disk'.tombstones \ disk.tombstones \subseteq Deleting(c)
  /\ disk'.records_synced \in {disk.records_synced, disk.records}
  /\ disk'.tombstones_synced \in {disk.tombstones_synced, disk.tombstones}
  /\ \A r \in disk.tombstones \ disk'.tombstones :
       \/ r \in Undoing(c) \cup rolled'
       \/ r \notin gone /\ \A o \in Copies \ {c} : r \notin Deleting(o)
  /\ rolled \subseteq rolled'
  /\ swept' \subseteq swept
  /\ swept \ swept' \subseteq disk'.records \cap disk'.records_synced

\* Of what the app is told: only what is so, others' doings put aside.
Truthful(c) ==
  /\ \A r \in sure' \ sure :
       /\ work[c].at \in ChangeSteps /\ r \notin work[c].dying
       /\ r \in ((disk'.records \cap disk'.records_synced) \cup swept')
                  \ (disk'.tombstones \cup disk'.tombstones_synced)
  /\ \A r \in gone' \ gone :
       /\ work[c].at \in ChangeSteps /\ r \notin work[c].rising
       /\ r \in rolled \/ r \in disk'.tombstones \cap disk'.tombstones_synced

\* Its own work, after it.
OwnFits(c) ==
  /\ work'[c].at \in ChangeSteps => queue'[c] # <<>> /\ IsChange(Head(queue'[c]))
  /\ work'[c].at = "listed" => queue'[c] # <<>> /\ Head(queue'[c]).why = "list"
  /\ work'[c].at = "unforget" => work'[c].remaining \subseteq Head(queue'[c]).unforget
  /\ work'[c].at = "put" => work'[c].remaining \subseteq Head(queue'[c]).put
  /\ work'[c].at \in {"forget", "roll_back", "remove"} =>
       work'[c].remaining \cup work'[c].placed \subseteq Head(queue'[c]).forget
  /\ work'[c].at \in {"unforget", "put"} => work'[c].placed = {}

OwnAware(c) ==
  \A d \in Copies \ {c} :
    /\ work'[c].at \in ChangeSteps =>
         Deleting(d) \subseteq work'[c].dying /\ Undoing(d) \subseteq work'[c].rising
    /\ work[d].at \in ChangeSteps =>
         Deleting(c)' \subseteq work'[d].dying /\ Undoing(c)' \subseteq work'[d].rising

OwnSoFar(c) ==
  /\ (Undone(c)' \ work'[c].dying) \cap disk'.tombstones = {}
  /\ PutBy(c)' \ work'[c].dying \subseteq Safe'
  /\ sure' \cap Deleting(c)' = {}
  /\ (Forgot(c)' \ work'[c].rising) \ rolled' \subseteq disk'.tombstones
  /\ work'[c].at = "remove" =>
       (Forgot(c)' \ work'[c].rising) \ rolled' \subseteq disk'.tombstones_synced
  /\ gone' \cap Undoing(c)' = {}

OwnHolds(c) ==
  /\ work'[c].at = "put" =>
       (Head(queue'[c]).put \ work'[c].remaining) \cap Owed \subseteq disk'.records
  /\ work'[c].at \in {"forget", "remove"} =>
       Head(queue'[c]).put \cap Owed \subseteq disk'.records
  /\ \A answer \in answers'[c] \ answers[c] :
       /\ answer.job.why = "read" => answer.got \cap Owed \subseteq disk'.records
       /\ IsChange(answer.job) /\ answer.ok => answer.job.put \cap Owed \subseteq disk'.records
       /\ answer.job.why = "cut_off" => answer.got \subseteq deleted

Own(c) == OwnFits(c) /\ OwnAware(c) /\ OwnSoFar(c) /\ OwnHolds(c)

\* What the thread of any copy is at, as far as others are concerned.
LEMMA DoingFacts ==
  ASSUME Inv, NEW c \in Copies
  PROVE  /\ Deleting(c) \subseteq deleted /\ Deleting(c) \cap Owed = {}
         /\ Forgot(c) \subseteq Deleting(c)
         /\ work[c].at \notin ChangeSteps =>
              /\ Deleting(c) = {} /\ Undoing(c) = {} /\ Undone(c) = {}
              /\ PutBy(c) = {} /\ Forgot(c) = {}
         /\ work[c].at # "idle" => queue[c] # <<>>
<1>1. work[c].at \in ChangeSteps => queue[c] # <<>> /\ IsChange(Head(queue[c]))
  BY DEF Inv, Shape, WorkFits
<1>2. ASSUME work[c].at \in ChangeSteps PROVE Head(queue[c]).forget \subseteq deleted
  <2>1. Head(queue[c]) \in In(queue[c])
    BY <1>1, <1>2, HeadType DEF Inv, Shape, Types
  <2>. QED BY <1>1, <1>2, <2>1 DEF Inv, ByHand, Asked
<1>3. Deleting(c) \subseteq deleted
  BY <1>2 DEF Deleting, ChangeSteps
<1>4. Forgot(c) \subseteq Deleting(c)
  BY DEF Forgot, Deleting
<1>5. work[c].at \notin ChangeSteps =>
        /\ Deleting(c) = {} /\ Undoing(c) = {} /\ Undone(c) = {}
        /\ PutBy(c) = {} /\ Forgot(c) = {}
  BY DEF ChangeSteps, Deleting, Undoing, Undone, PutBy, Forgot
<1>6. work[c].at \in Steps
  BY DEF Inv, Shape, Types, TypesIn, Works
<1>7. work[c].at # "idle" => queue[c] # <<>>
  BY <1>1, <1>6 DEF Steps, Inv, Shape, WorkFits
<1>. QED BY <1>3, <1>4, <1>5, <1>7 DEF Owed

LEMMA OthersSteady ==
  ASSUME NEW c \in Copies, Steady(c), NEW d \in Copies \ {c}
  PROVE  /\ Deleting(d)' = Deleting(d) /\ Undoing(d)' = Undoing(d)
         /\ Undone(d)' = Undone(d) /\ PutBy(d)' = PutBy(d) /\ Forgot(d)' = Forgot(d)
BY DEF Steady, Deleting, Undoing, Undone, PutBy, Forgot

LEMMA ThreadShape ==
  ASSUME Inv, NEW c \in Copies, TypesIn(finished)', Steady(c), OwnFits(c)
  PROVE  Shape'
<1>1. Types'
  BY DEF Inv, Shape, Types, Steady
<1>2. WorkFits'
  <2>. SUFFICES ASSUME NEW d \in Copies \ {c}
                PROVE  /\ work'[d].at \in ChangeSteps => queue'[d] # <<>> /\ IsChange(Head(queue'[d]))
                       /\ work'[d].at = "listed" => queue'[d] # <<>> /\ Head(queue'[d]).why = "list"
                       /\ work'[d].at = "unforget" =>
                            work'[d].remaining \subseteq Head(queue'[d]).unforget
                       /\ work'[d].at = "put" => work'[d].remaining \subseteq Head(queue'[d]).put
                       /\ work'[d].at \in {"forget", "roll_back", "remove"} =>
                            work'[d].remaining \cup work'[d].placed \subseteq Head(queue'[d]).forget
                       /\ work'[d].at \in {"unforget", "put"} => work'[d].placed = {}
    BY DEF WorkFits, OwnFits, IsChange
  <2>. QED BY DEF Inv, Shape, WorkFits, Steady
<1>3. DownIsIdle'
  <2>. SUFFICES ASSUME NEW d \in Copies, ~app[d].up
                PROVE  queue'[d] = <<>> /\ answers'[d] = {} /\ work'[d].at = "idle"
    BY DEF DownIsIdle, Steady
  <2>1. d # c
    BY DEF Inv, Shape, DownIsIdle, Steady
  <2>. QED BY <2>1 DEF Inv, Shape, DownIsIdle, Steady
<1>4. AppFits' /\ ChangeFits'
  BY DEF Inv, Shape, AppFits, ChangeFits, Steady, IsChange
<1>. QED BY <1>1, <1>2, <1>3, <1>4 DEF Shape

LEMMA ThreadHistory ==
  ASSUME Inv, NEW c \in Copies, Steady(c), Careful(c), OwnHolds(c)
  PROVE  ByHand' /\ Holds' /\ FinishedIsKept' /\ NoneWaits'
<1>1. Owed' = Owed /\ UNCHANGED <<app, left, loading, finished, deleted, lost>>
  BY DEF Steady, Owed
<1>2. disk.records \cap Owed \subseteq disk'.records
  BY DoingFacts DEF Careful
<1>3. disk'.tombstones \cup disk'.tombstones_synced \subseteq deleted
  BY DoingFacts DEF Careful, Inv, ByHand
<1>4. ByHand'
  <2>. SUFFICES ASSUME NEW d \in Copies
                PROVE  /\ app[d].trash \subseteq deleted
                       /\ \A job \in Asked(d) : IsChange(job) =>
                            job.forget \cup job.unforget \subseteq deleted
                       /\ \A answer \in answers'[d] :
                            answer.job.why = "cut_off" => answer.got \subseteq deleted
    BY <1>1, <1>3 DEF ByHand, IsChange, Steady
  <2>1. \A answer \in answers'[d] : answer.job.why = "cut_off" => answer.got \subseteq deleted
    BY DEF Inv, ByHand, Steady, OwnHolds
  <2>. QED BY <2>1 DEF Inv, ByHand
<1>5. Holds'
  <2>. SUFFICES ASSUME NEW d \in Copies
                PROVE  /\ app[d].here \cap Owed \subseteq disk'.records \cup app[d].mark
                       /\ (app[d].mark \ app[d].unsaved) \cap Owed \subseteq disk'.records
                       /\ \A job \in Asked(d) : job.why = "forgotten" =>
                            job.unforget \cap Owed \subseteq disk'.records
                       /\ \A answer \in answers'[d] :
                            /\ answer.job.why = "read" => answer.got \cap Owed \subseteq disk'.records
                            /\ IsChange(answer.job) /\ answer.ok =>
                                 answer.job.put \cap Owed \subseteq disk'.records
                       /\ work'[d].at = "put" =>
                            (Head(queue'[d]).put \ work'[d].remaining) \cap Owed \subseteq disk'.records
                       /\ work'[d].at \in {"forget", "remove"} =>
                            Head(queue'[d]).put \cap Owed \subseteq disk'.records
    BY <1>1 DEF Holds, IsChange, Steady
  <2>1. /\ app[d].here \cap Owed \subseteq disk'.records \cup app[d].mark
        /\ (app[d].mark \ app[d].unsaved) \cap Owed \subseteq disk'.records
        /\ \A job \in Asked(d) : job.why = "forgotten" =>
             job.unforget \cap Owed \subseteq disk'.records
    BY <1>2 DEF Inv, Holds
  <2>2. \A answer \in answers[d] :
          /\ answer.job.why = "read" => answer.got \cap Owed \subseteq disk'.records
          /\ IsChange(answer.job) /\ answer.ok => answer.job.put \cap Owed \subseteq disk'.records
    BY <1>2 DEF Inv, Holds
  <2>3. CASE d = c
    BY <2>1, <2>2, <2>3 DEF OwnHolds
  <2>4. CASE d # c
    <3>1. /\ work[d].at = "put" =>
               (Head(queue[d]).put \ work[d].remaining) \cap Owed \subseteq disk'.records
          /\ work[d].at \in {"forget", "remove"} =>
               Head(queue[d]).put \cap Owed \subseteq disk'.records
      BY <1>2 DEF Inv, Holds
    <3>. QED BY <2>1, <2>2, <2>4, <3>1 DEF Steady
  <2>. QED BY <2>3, <2>4
<1>6. \A d \in Copies : Taking(d)' = Taking(d)
  <2>. SUFFICES ASSUME NEW d \in Copies PROVE \A r : r \in Taking(d)' <=> r \in Taking(d)
    OBVIOUS
  <2>. QED BY TakingIs DEF Steady
<1>7. FinishedIsKept'
  <2>. SUFFICES ASSUME NEW r \in Owed
                PROVE  \/ r \in Listed' \cup left
                       \/ \E d \in Ups : r \in app[d].mark \cup Taking(d)
    BY <1>1, <1>6 DEF FinishedIsKept, Owed, Ups
  <2>1. CASE r \in Listed
    <3>1. r \in disk'.records /\ r \notin disk'.tombstones
      BY <1>2, <1>3, <2>1 DEF Listed, Owed
    <3>. QED BY <3>1 DEF Listed
  <2>. QED BY <2>1 DEF Inv, FinishedIsKept, Owed
<1>8. NoneWaits'
  <2>. SUFFICES ASSUME NEW d \in Copies, app[d].up, app[d].unsaved # {}
                PROVE  app[d].retrying \/ \E job \in Asked(d)' : IsChange(job)
    BY <1>1 DEF NoneWaits, Ups, Asked, In, IsChange
  <2>1. app[d].retrying \/ \E job \in Asked(d) : IsChange(job)
    BY DEF Inv, NoneWaits, Ups, Asked, In
  <2>. QED BY <2>1 DEF Steady
<1>. QED BY <1>4, <1>5, <1>7, <1>8

LEMMA ThreadDisk ==
  ASSUME Inv, NEW c \in Copies, Steady(c), Careful(c), Truthful(c), OwnAware(c), OwnSoFar(c)
  PROVE  Aware' /\ StoredSoFar' /\ DeletedSoFar' /\ SureStays' /\ GoneStays'
<1>1. \A d \in Copies \ {c} :
        /\ Deleting(d)' = Deleting(d) /\ Undoing(d)' = Undoing(d)
        /\ Undone(d)' = Undone(d) /\ PutBy(d)' = PutBy(d) /\ Forgot(d)' = Forgot(d)
  BY OthersSteady
<1>2. Aware'
  <2>. SUFFICES ASSUME NEW a \in Copies, NEW b \in Copies, a # b, work'[a].at \in ChangeSteps
                PROVE  Deleting(b)' \subseteq work'[a].dying /\ Undoing(b)' \subseteq work'[a].rising
    BY DEF Aware
  <2>1. CASE a = c
    BY <1>1, <2>1 DEF OwnAware
  <2>2. CASE b = c
    BY <2>2 DEF OwnAware, Steady
  <2>3. CASE a # c /\ b # c
    BY <1>1, <2>3 DEF Inv, Aware, Steady
  <2>. QED BY <2>1, <2>2, <2>3
<1>3. \A d \in Copies \ {c} : work[d].at \in ChangeSteps =>
        /\ Deleting(c) \subseteq work[d].dying /\ Undoing(c) \subseteq work[d].rising
        /\ work[d].dying \subseteq work'[d].dying /\ work[d].rising \subseteq work'[d].rising
  BY DEF Inv, Aware, Steady
<1>4. \A d \in Copies \ {c} : work[c].at \in ChangeSteps =>
        Deleting(d) \subseteq work[c].dying /\ Undoing(d) \subseteq work[c].rising
  BY DEF Inv, Aware
<1>5. Safe \ Safe' \subseteq Deleting(c)
  BY DEF Careful, Safe
<1>6. StoredSoFar'
  <2>. SUFFICES ASSUME NEW d \in Copies \ {c}
                PROVE  /\ (Undone(d) \ work'[d].dying) \cap disk'.tombstones = {}
                       /\ PutBy(d) \ work'[d].dying \subseteq Safe'
                       /\ sure' \cap Deleting(d) = {}
    BY <1>1 DEF StoredSoFar, OwnSoFar
  <2>1. CASE work[d].at \notin ChangeSteps
    BY <2>1, DoingFacts
  <2>2. CASE work[d].at \in ChangeSteps
    <3>1. (Undone(d) \ work'[d].dying) \cap disk'.tombstones = {}
      BY <1>3, <2>2 DEF Careful, Inv, StoredSoFar
    <3>2. PutBy(d) \ work'[d].dying \subseteq Safe'
      BY <1>3, <1>5, <2>2 DEF Inv, StoredSoFar
    <3>3. sure' \cap Deleting(d) = {}
      BY <1>4 DEF Truthful, Inv, StoredSoFar
    <3>. QED BY <3>1, <3>2, <3>3
  <2>. QED BY <2>1, <2>2
<1>7. DeletedSoFar'
  <2>. SUFFICES ASSUME NEW d \in Copies \ {c}
                PROVE  /\ (Forgot(d) \ work'[d].rising) \ rolled' \subseteq disk'.tombstones
                       /\ work'[d].at = "remove" =>
                            (Forgot(d) \ work'[d].rising) \ rolled' \subseteq disk'.tombstones_synced
                       /\ gone' \cap Undoing(d) = {}
    BY <1>1 DEF DeletedSoFar, OwnSoFar
  <2>1. CASE work[d].at \notin ChangeSteps
    BY <2>1, DoingFacts DEF Steady, ChangeSteps
  <2>2. CASE work[d].at \in ChangeSteps
    <3>1. Forgot(d) \subseteq Deleting(d)
      BY DoingFacts
    <3>2. (Forgot(d) \ work[d].rising) \ rolled \subseteq disk.tombstones
      BY DEF Inv, DeletedSoFar
    <3>3. (Forgot(d) \ work'[d].rising) \ rolled' \subseteq disk'.tombstones
      BY <1>3, <2>2, <3>1, <3>2 DEF Careful
    <3>4. work'[d].at = "remove" =>
            (Forgot(d) \ work'[d].rising) \ rolled' \subseteq disk'.tombstones_synced
      BY <1>3, <2>2, <3>2 DEF Careful, Steady, Inv, DeletedSoFar
    <3>5. gone' \cap Undoing(d) = {}
      BY <1>4 DEF Truthful, Inv, DeletedSoFar
    <3>. QED BY <3>3, <3>4, <3>5
  <2>. QED BY <2>1, <2>2
<1>8. SureStays'
  BY DEF Careful, Truthful, Inv, StoredSoFar, SureStays
<1>9. GoneStays'
  BY DEF Careful, Truthful, Inv, DeletedSoFar, GoneStays
<1>. QED BY <1>2, <1>6, <1>7, <1>8, <1>9

LEMMA ThreadInv ==
  ASSUME Inv, NEW c \in Copies, TypesIn(finished)', Steady(c), Careful(c), Truthful(c), Own(c)
  PROVE  Inv'
<1>1. Shape'
  BY ThreadShape DEF Own
<1>2. Aware' /\ StoredSoFar' /\ DeletedSoFar' /\ SureStays' /\ GoneStays'
  BY ThreadDisk DEF Own
<1>3. ByHand' /\ Holds' /\ FinishedIsKept' /\ NoneWaits'
  BY ThreadHistory DEF Own
<1>4. Opening'
  BY DEF Inv, Opening, Steady
<1>. QED BY <1>1, <1>2, <1>3, <1>4 DEF Inv

-----------------------------------------------------------------------------
(***************************************************************************)
(* The steps of a change keep the invariant.                               *)
(***************************************************************************)
\* Only how far this thread is changes.
LEMMA StillSteady ==
  ASSUME Inv, NEW c \in Copies, queue[c] # <<>>, NEW w, work' = [work EXCEPT ![c] = w],
         UNCHANGED <<app, queue, answers, left, loading, finished, deleted, lost>>
  PROVE  Steady(c) /\ work'[c] = w
<1>1. work \in [Copies -> Works(finished)]
  BY DEF Inv, Shape, Types, TypesIn
<1>2. \A d \in Copies : work'[d] = IF d = c THEN w ELSE work[d]
  BY <1>1
<1>3. \A d \in Copies : Asked(d)' = Asked(d)
  BY DEF Asked
<1>. QED BY <1>2, <1>3 DEF Steady

\* The job at the head is answered.
LEMMA AnswerSteady ==
  ASSUME Inv, NEW c \in Copies, queue[c] # <<>>, NEW ok, NEW got, Answer(c, ok, got),
         UNCHANGED <<app, left, loading, finished, deleted, lost>>
  PROVE  /\ Steady(c) /\ work'[c] = Idle
         /\ \A answer \in answers'[c] \ answers[c] :
              answer.job = Head(queue[c]) /\ answer.ok = ok
<1>1. TypesIn(finished)
  BY DEF Inv, Shape, Types
<1>. DEFINE answer == [job |-> Head(queue[c]), ok |-> ok, got |-> got]
<1>2. \A d \in Copies : /\ answers'[d] = IF d = c THEN answers[c] \cup {answer} ELSE answers[d]
                        /\ queue'[d] = IF d = c THEN Tail(queue[c]) ELSE queue[d]
                        /\ work'[d] = IF d = c THEN Idle ELSE work[d]
  BY <1>1 DEF Answer, TypesIn
<1>3. In(queue[c]) = {Head(queue[c])} \cup In(Tail(queue[c]))
  <2>1. queue[c] \in Seq(Jobs(finished))
    BY <1>1 DEF TypesIn
  <2>. QED BY <2>1, FirstTaken
<1>4. answer.job = Head(queue[c]) /\ answer.ok = ok
  OBVIOUS
<1>. HIDE DEF answer
<1>5. \A d \in Copies : Asked(d)' = Asked(d)
  BY <1>2, <1>3, <1>4 DEF Asked
<1>6. Steady(c)
  BY <1>2, <1>5 DEF Steady
<1>. QED BY <1>2, <1>4, <1>6

\* With nothing under way, there is nothing of its own to see to.
LEMMA OwnIdle ==
  ASSUME Inv, NEW c \in Copies, work'[c].at = "idle",
         \A answer \in answers'[c] \ answers[c] :
           /\ answer.job.why = "read" => answer.got \cap Owed \subseteq disk'.records
           /\ IsChange(answer.job) /\ answer.ok => answer.job.put \cap Owed \subseteq disk'.records
           /\ answer.job.why = "cut_off" => answer.got \subseteq deleted
  PROVE  Own(c)
<1>1. /\ Deleting(c)' = {} /\ Undoing(c)' = {} /\ Undone(c)' = {}
      /\ PutBy(c)' = {} /\ Forgot(c)' = {}
  BY DEF Deleting, Undoing, Undone, PutBy, Forgot
<1>. QED BY <1>1 DEF Own, OwnFits, OwnAware, OwnSoFar, OwnHolds, ChangeSteps

\* The disk is as it was, or only synced.
LEMMA SyncIsCareful ==
  ASSUME NEW c \in Copies, rolled' = rolled,
         ((disk' = disk \/ SyncTombstones) /\ swept' = swept) \/ SyncRecords,
         TypesIn(finished)
  PROVE  /\ Careful(c) /\ disk'.records = disk.records /\ disk'.tombstones = disk.tombstones
         /\ disk.records \cup swept' = disk.records \cup swept
         /\ SyncTombstones => disk'.records_synced = disk.records_synced
                              /\ disk'.tombstones_synced = disk.tombstones
         /\ SyncRecords => disk'.records_synced = disk.records
                           /\ disk'.tombstones_synced = disk.tombstones_synced
                           /\ swept' = swept \ disk.records
<1>1. disk \in Folders(finished)
  BY DEF TypesIn
<1>. QED BY <1>1 DEF Careful, SyncRecords, SyncTombstones, Folders

LEMMA NamesFacts ==
  ASSUME TypesIn(finished), NEW records, NEW tombstones, Names(records, tombstones)
  PROVE  /\ disk'.records = records /\ disk'.tombstones = tombstones
         /\ disk'.records_synced = disk.records_synced
         /\ disk'.tombstones_synced = disk.tombstones_synced
BY DEF TypesIn, Names, Folders

\* What is known of a change under way.
LEMMA ChangeFacts ==
  ASSUME Inv, NEW c \in Copies, queue[c] # <<>>
  PROVE  /\ TypesIn(finished)
         /\ \A s \in {Head(queue[c]).put, Head(queue[c]).unforget, Head(queue[c]).forget} :
              s \subseteq finished
         /\ IsChange(Head(queue[c])) =>
              Head(queue[c]).forget \cup Head(queue[c]).unforget \subseteq deleted
         /\ Head(queue[c]) \in Asked(c)
<1>1. TypesIn(finished)
  BY DEF Inv, Shape, Types
<1>2. Head(queue[c]) \in Asked(c)
  BY <1>1, HeadType DEF Asked
<1>. QED BY <1>1, <1>2, HeadType DEF Inv, ByHand

LEMMA BeginInv ==
  ASSUME Inv, NEW c \in Copies, Begin(c)
  PROVE  Inv'
<1>. DEFINE job == Head(queue[c])
<1>1. /\ queue[c] # <<>> /\ work[c].at = "idle" /\ IsChange(job)
      /\ gone' = gone \ job.unforget
      /\ UNCHANGED <<disk, changed, app, queue, answers, left, loading, finished, deleted, sure,
                     rolled, swept, lost>>
  BY DEF Begin
<1>2. TypesIn(finished)'
  BY BeginTypes DEF Inv
<1>3. /\ work'[c].at = IF job.unforget = {} THEN "put" ELSE "unforget"
      /\ work'[c].remaining = IF job.unforget = {} THEN job.put ELSE job.unforget
      /\ work'[c].placed = {}
      /\ work'[c].dying = UNION {Deleting(o) : o \in Copies \ {c}}
      /\ work'[c].rising = UNION {Undoing(o) : o \in Copies \ {c}}
  BY DEF Begin
<1>4. ASSUME NEW d \in Copies \ {c}
      PROVE  /\ work'[d].at = work[d].at /\ work'[d].remaining = work[d].remaining
             /\ work'[d].placed = work[d].placed /\ work'[d].dying = work[d].dying
             /\ work[d].at \in ChangeSteps =>
                  work'[d].rising = work[d].rising \cup job.unforget
  <2>1. work'[d] = [work[d] EXCEPT !.rising = IF work[d].at = "idle" THEN {}
                                             ELSE @ \cup job.unforget]
    BY DEF Begin
  <2>2. work[d] \in Works(finished)
    BY ChangeFacts, <1>1 DEF TypesIn
  <2>. HIDE DEF job
  <2>. QED BY <2>1, <2>2 DEF Works, ChangeSteps
<1>5. Steady(c)
  <2>1. \A d \in Copies : Asked(d)' = Asked(d)
    BY <1>1 DEF Asked
  <2>. HIDE DEF job
  <2>. QED BY <1>1, <1>4, <2>1 DEF Steady
<1>6. Careful(c) /\ Truthful(c)
  BY <1>1, SyncIsCareful, ChangeFacts DEF Truthful
<1>7. OwnFits(c) /\ OwnHolds(c)
  BY <1>1, <1>3 DEF OwnFits, OwnHolds
<1>8. Deleting(c)' = {} /\ Undoing(c)' = job.unforget
  BY <1>1, <1>3 DEF Deleting, Undoing
<1>9. OwnAware(c)
  BY <1>3, <1>4, <1>8 DEF OwnAware
<1>10. OwnSoFar(c)
  <2>1. Undone(c)' = {} /\ PutBy(c)' = {} /\ Forgot(c)' = {}
    BY <1>1, <1>3 DEF Undone, PutBy, Forgot
  <2>. QED BY <1>1, <1>3, <1>8, <2>1 DEF OwnSoFar
<1>. QED BY <1>2, <1>5, <1>6, <1>7, <1>9, <1>10, ThreadInv DEF Own

LEMMA OwnAwareKept ==
  ASSUME Inv, NEW c \in Copies, Steady(c), work[c].at \in ChangeSteps,
         work[c].dying \subseteq work'[c].dying, work[c].rising \subseteq work'[c].rising,
         Deleting(c)' \subseteq Deleting(c), Undoing(c)' \subseteq Undoing(c)
  PROVE  OwnAware(c)
BY DEF Inv, Aware, OwnAware, Steady

\* How far a change is, once it is known what of it is left to do.
LEMMA StepFacts ==
  ASSUME Inv, NEW c \in Copies, NEW at \in Steps, NEW remaining \in SUBSET finished,
         Step(c, at, remaining)
  PROVE  /\ work' = [work EXCEPT ![c] = [work[c] EXCEPT !.at = at, !.remaining = remaining]]
         /\ work'[c].at = at /\ work'[c].remaining = remaining
         /\ work'[c].placed = work[c].placed
         /\ work'[c].dying = work[c].dying /\ work'[c].rising = work[c].rising
<1>1. TypesIn(finished)
  BY DEF Inv, Shape, Types
<1>2. work' = [work EXCEPT ![c] = [work[c] EXCEPT !.at = at, !.remaining = remaining]]
  BY <1>1 DEF Step, TypesIn
<1>. QED BY <1>1, <1>2 DEF TypesIn, Works

LEMMA TakesFacts ==
  ASSUME Inv, NEW c \in Copies, NEW r, Takes(c, r)
  PROVE  /\ work' = [work EXCEPT ![c] = [work[c] EXCEPT !.remaining = work[c].remaining \ {r}]]
         /\ work'[c].at = work[c].at /\ work'[c].remaining = work[c].remaining \ {r}
         /\ work'[c].placed = work[c].placed
         /\ work'[c].dying = work[c].dying /\ work'[c].rising = work[c].rising
<1>1. TypesIn(finished)
  BY DEF Inv, Shape, Types
<1>2. work' = [work EXCEPT ![c] = [work[c] EXCEPT !.remaining = work[c].remaining \ {r}]]
  BY <1>1, TakesTypes
<1>. QED BY <1>1, <1>2 DEF TypesIn, Works

LEMMA UnforgetInv ==
  ASSUME Inv, NEW c \in Copies, Unforget(c)
  PROVE  Inv'
<1>. DEFINE job == Head(queue[c])
<1>1. /\ work[c].at = "unforget" /\ work[c].at \in ChangeSteps
      /\ queue[c] # <<>> /\ IsChange(job)
      /\ work[c].remaining \subseteq job.unforget /\ work[c].placed = {}
      /\ UNCHANGED <<app, queue, answers, left, loading, ghosts, counts>>
  BY DEF Unforget, ChangeSteps, Inv, Shape, WorkFits
<1>2. TypesIn(finished)'
  BY UnforgetTypes DEF Inv
<1>3. /\ Deleting(c) = {} /\ Undoing(c) = job.unforget
      /\ Undone(c) = job.unforget \ work[c].remaining
  BY <1>1 DEF Deleting, Undoing, Undone
<1>4. Truthful(c) /\ answers' = answers /\ queue' = queue /\ sure' = sure /\ rolled' = rolled
      /\ gone' = gone /\ swept' = swept /\ job.put \in SUBSET finished
  BY <1>1, ChangeFacts DEF Truthful, ghosts
<1>5. ASSUME NEW r \in work[c].remaining,
             Names(disk.records, disk.tombstones \ {r}), Takes(c, r)
      PROVE  Inv'
  <2>1. /\ disk'.records = disk.records /\ disk'.tombstones = disk.tombstones \ {r}
        /\ disk'.records_synced = disk.records_synced
        /\ disk'.tombstones_synced = disk.tombstones_synced
    BY <1>1, <1>5, NamesFacts, ChangeFacts
  <2>2. /\ work' = [work EXCEPT ![c] = [work[c] EXCEPT !.remaining = work[c].remaining \ {r}]]
        /\ work'[c].at = "unforget" /\ work'[c].remaining = work[c].remaining \ {r}
        /\ work'[c].placed = work[c].placed
        /\ work'[c].dying = work[c].dying /\ work'[c].rising = work[c].rising
    BY <1>1, <1>5, TakesFacts
  <2>3. Steady(c)
    BY <1>1, <2>2, StillSteady DEF ghosts
  <2>4. Careful(c)
    BY <1>1, <1>3, <1>4, <2>1 DEF Careful
  <2>5. /\ Deleting(c)' = {} /\ Undoing(c)' = job.unforget
        /\ Undone(c)' = job.unforget \ (work[c].remaining \ {r})
        /\ PutBy(c)' = {} /\ Forgot(c)' = {}
    BY <1>4, <2>2 DEF Deleting, Undoing, Undone, PutBy, Forgot
  <2>6. OwnAware(c)
    BY <1>1, <1>3, <2>2, <2>3, <2>5, OwnAwareKept
  <2>7. OwnFits(c) /\ OwnHolds(c)
    BY <1>1, <1>4, <2>2 DEF OwnFits, OwnHolds
  <2>8. OwnSoFar(c)
    BY <1>3, <1>4, <2>1, <2>2, <2>5 DEF OwnSoFar, Inv, StoredSoFar, DeletedSoFar
  <2>. QED BY <1>2, <1>4, <2>3, <2>4, <2>6, <2>7, <2>8, ThreadInv DEF Own
<1>6. ASSUME work[c].remaining = {}, SyncTombstones, Step(c, "put", job.put)
      PROVE  Inv'
  <2>1. Careful(c) /\ disk'.records = disk.records /\ disk'.tombstones = disk.tombstones
    BY <1>1, <1>4, <1>6, SyncIsCareful, ChangeFacts
  <2>2. /\ work' = [work EXCEPT ![c] = [work[c] EXCEPT !.at = "put", !.remaining = job.put]]
        /\ work'[c].at = "put" /\ work'[c].remaining = job.put
        /\ work'[c].placed = work[c].placed
        /\ work'[c].dying = work[c].dying /\ work'[c].rising = work[c].rising
    BY <1>4, <1>6, StepFacts DEF Steps, ChangeSteps
  <2>3. Steady(c)
    BY <1>1, <2>2, StillSteady DEF ghosts
  <2>5. /\ Deleting(c)' = {} /\ Undoing(c)' = job.unforget
        /\ Undone(c)' = job.unforget /\ PutBy(c)' = {} /\ Forgot(c)' = {}
    BY <1>4, <2>2 DEF Deleting, Undoing, Undone, PutBy, Forgot
  <2>6. OwnAware(c)
    BY <1>1, <1>3, <2>2, <2>3, <2>5, OwnAwareKept
  <2>7. OwnFits(c) /\ OwnHolds(c)
    BY <1>1, <1>4, <2>2 DEF OwnFits, OwnHolds
  <2>8. OwnSoFar(c)
    BY <1>3, <1>4, <1>6, <2>1, <2>2, <2>5 DEF OwnSoFar, Inv, StoredSoFar, DeletedSoFar
  <2>. QED BY <1>2, <1>4, <2>1, <2>3, <2>6, <2>7, <2>8, ThreadInv DEF Own
<1>. QED BY <1>5, <1>6 DEF Unforget

LEMMA PutInv ==
  ASSUME Inv, NEW c \in Copies, Put(c)
  PROVE  Inv'
<1>. DEFINE job == Head(queue[c])
<1>1. /\ work[c].at = "put" /\ work[c].at \in ChangeSteps
      /\ queue[c] # <<>> /\ IsChange(job)
      /\ work[c].remaining \subseteq job.put /\ work[c].placed = {}
      /\ UNCHANGED <<app, left, loading, finished, deleted, rolled, lost, counts>>
  BY DEF Put, ChangeSteps, Inv, Shape, WorkFits
<1>2. TypesIn(finished)'
  BY PutTypes DEF Inv
<1>3. /\ Deleting(c) = {} /\ Undoing(c) = job.unforget
      /\ Undone(c) = job.unforget /\ PutBy(c) = job.put \ work[c].remaining
  BY <1>1 DEF Deleting, Undoing, Undone, PutBy
<1>4. /\ TypesIn(finished) /\ job.put \in SUBSET finished /\ job.forget \in SUBSET finished
      /\ (job.unforget \ work[c].dying) \cap disk.tombstones = {}
      /\ (job.put \ work[c].remaining) \ work[c].dying \subseteq Safe
      /\ gone \cap job.unforget = {}
      /\ (job.put \ work[c].remaining) \cap Owed \subseteq disk.records
      /\ disk.tombstones \cap Owed = {}
  <2>1. disk.tombstones \cap Owed = {}
    BY DEF Inv, ByHand, Owed
  <2>2. (job.put \ work[c].remaining) \cap Owed \subseteq disk.records
    BY <1>1 DEF Inv, Holds
  <2>. QED BY <1>1, <1>3, <2>1, <2>2, ChangeFacts DEF Inv, StoredSoFar, DeletedSoFar
<1>5. ASSUME NEW r \in work[c].remaining, PassedOver(c, r),
             work' = [work EXCEPT ![c].remaining = @ \ {r}, ![c].dying = @ \cup {r}],
             UNCHANGED <<disk, changed, queue, answers, sure, gone, swept>>
      PROVE  Inv'
  <2>1. /\ work' = [work EXCEPT ![c] = [work[c] EXCEPT !.remaining = @ \ {r},
                                                       !.dying = @ \cup {r}]]
        /\ work'[c].at = "put" /\ work'[c].remaining = work[c].remaining \ {r}
        /\ work'[c].placed = work[c].placed
        /\ work'[c].dying = work[c].dying \cup {r} /\ work'[c].rising = work[c].rising
    BY <1>1, <1>4, <1>5 DEF TypesIn, Works
  <2>2. Steady(c)
    BY <1>1, <1>5, <2>1, StillSteady
  <2>3. Careful(c) /\ Truthful(c)
    BY <1>1, <1>4, <1>5, SyncIsCareful DEF Truthful
  <2>4. /\ Deleting(c)' = {} /\ Undoing(c)' = job.unforget /\ Undone(c)' = job.unforget
        /\ PutBy(c)' = job.put \ (work[c].remaining \ {r}) /\ Forgot(c)' = {}
    BY <1>5, <2>1 DEF Deleting, Undoing, Undone, PutBy, Forgot
  <2>5. OwnAware(c)
    BY <1>1, <1>3, <2>1, <2>2, <2>4, OwnAwareKept
  <2>6. r \in disk.tombstones
    BY <1>5 DEF PassedOver
  <2>7. OwnFits(c) /\ OwnHolds(c)
    BY <1>1, <1>4, <1>5, <2>1, <2>6 DEF OwnFits, OwnHolds
  <2>8. OwnSoFar(c)
    BY <1>4, <1>5, <2>1, <2>4 DEF OwnSoFar, Safe
  <2>. QED BY <1>2, <2>2, <2>3, <2>5, <2>7, <2>8, ThreadInv DEF Own
<1>6. ASSUME NEW r \in work[c].remaining, ~PassedOver(c, r), Takes(c, r),
             Names(disk.records \cup {r}, disk.tombstones),
             UNCHANGED <<queue, answers, sure, gone, swept>>
      PROVE  Inv'
  <2>1. /\ disk'.records = disk.records \cup {r} /\ disk'.tombstones = disk.tombstones
        /\ disk'.records_synced = disk.records_synced
        /\ disk'.tombstones_synced = disk.tombstones_synced
    BY <1>4, <1>6, NamesFacts
  <2>2. /\ work' = [work EXCEPT ![c] = [work[c] EXCEPT !.remaining = work[c].remaining \ {r}]]
        /\ work'[c].at = "put" /\ work'[c].remaining = work[c].remaining \ {r}
        /\ work'[c].placed = work[c].placed
        /\ work'[c].dying = work[c].dying /\ work'[c].rising = work[c].rising
    BY <1>1, <1>6, TakesFacts
  <2>3. Steady(c)
    BY <1>1, <1>6, <2>2, StillSteady
  <2>4. Careful(c) /\ Truthful(c)
    BY <1>1, <1>6, <2>1 DEF Careful, Truthful
  <2>5. /\ Deleting(c)' = {} /\ Undoing(c)' = job.unforget /\ Undone(c)' = job.unforget
        /\ PutBy(c)' = job.put \ (work[c].remaining \ {r}) /\ Forgot(c)' = {}
    BY <1>6, <2>2 DEF Deleting, Undoing, Undone, PutBy, Forgot
  <2>6. OwnAware(c)
    BY <1>1, <1>3, <2>2, <2>3, <2>5, OwnAwareKept
  <2>7. OwnFits(c) /\ OwnHolds(c)
    BY <1>1, <1>4, <1>6, <2>1, <2>2 DEF OwnFits, OwnHolds
  <2>8. r \notin work[c].dying => r \notin disk.tombstones
    BY <1>4, <1>6 DEF PassedOver
  <2>9. OwnSoFar(c)
    BY <1>4, <1>6, <2>1, <2>2, <2>5, <2>8 DEF OwnSoFar, Safe
  <2>. QED BY <1>2, <2>3, <2>4, <2>6, <2>7, <2>9, ThreadInv DEF Own
<1>7. ASSUME work[c].remaining = {}, PutsDone(c)
      PROVE  Inv'
  <2>1. /\ Careful(c) /\ disk'.records = disk.records /\ disk'.tombstones = disk.tombstones
        /\ disk'.tombstones_synced = disk.tombstones_synced
        /\ disk.records \cup swept' = disk.records \cup swept
        /\ job.put # {} => disk'.records_synced = disk.records
    BY <1>1, <1>4, <1>7, SyncIsCareful DEF PutsDone
  <2>2. job.put \ work[c].dying \subseteq Safe /\ job.put \cap Owed \subseteq disk.records
    BY <1>4, <1>7
  <2>3. CASE job.forget = {}
    <3>1. Made(c) /\ Answer(c, TRUE, {})
      BY <1>7, <2>3 DEF PutsDone
    <3>2. /\ Steady(c) /\ work'[c] = Idle
          /\ \A answer \in answers'[c] \ answers[c] : answer.job = job
      BY <1>1, <3>1, AnswerSteady
    <3>3. Truthful(c)
      BY <1>1, <2>1, <2>2, <2>3, <3>1 DEF Truthful, Made, Safe
    <3>4. job.why \notin {"read", "cut_off"}
      BY <1>1 DEF IsChange
    <3>5. Own(c)
      BY <2>1, <2>2, <3>2, <3>4, OwnIdle DEF Idle
    <3>. QED BY <1>2, <2>1, <3>2, <3>3, <3>5, ThreadInv
  <2>4. CASE job.forget # {}
    <3>1. StartForgetting(c) /\ UNCHANGED <<changed, queue, answers, gone>>
      BY <1>7, <2>4 DEF PutsDone
    <3>2. /\ work'[c].at = "forget" /\ work'[c].remaining = job.forget
          /\ work'[c].placed = work[c].placed
          /\ work'[c].dying = work[c].dying /\ work'[c].rising = work[c].rising
      <4>1. work'[c] = [work[c] EXCEPT !.at = "forget", !.remaining = job.forget]
        BY <3>1 DEF StartForgetting
      <4>2. work[c] \in Works(finished)
        BY <1>4 DEF TypesIn
      <4>. QED BY <4>1, <4>2 DEF Works
    <3>3. ASSUME NEW d \in Copies \ {c}
          PROVE  /\ work'[d].at = work[d].at /\ work'[d].remaining = work[d].remaining
                 /\ work'[d].placed = work[d].placed /\ work'[d].rising = work[d].rising
                 /\ work[d].at \in ChangeSteps =>
                      work'[d].dying = work[d].dying \cup job.forget
      <4>1. work'[d] = [work[d] EXCEPT !.dying = IF work[d].at = "idle" THEN {}
                                                 ELSE @ \cup job.forget]
        BY <3>1 DEF StartForgetting
      <4>2. work[d] \in Works(finished)
        BY <1>4 DEF TypesIn
      <4>. HIDE DEF job
      <4>. QED BY <4>1, <4>2 DEF Works, ChangeSteps
    <3>4. Steady(c)
      <4>1. \A d \in Copies : Asked(d)' = Asked(d)
        BY <3>1 DEF Asked
      <4>. HIDE DEF job
      <4>. QED BY <1>1, <3>1, <3>3, <4>1 DEF Steady
    <3>5. sure' = sure \ job.forget
      BY <3>1 DEF StartForgetting
    <3>6. Truthful(c)
      BY <3>1, <3>5 DEF Truthful
    <3>7. /\ Deleting(c)' = job.forget /\ Undoing(c)' = {} /\ Undone(c)' = {}
          /\ PutBy(c)' = job.put \ job.forget /\ Forgot(c)' = {}
      BY <3>1, <3>2 DEF Deleting, Undoing, Undone, PutBy, Forgot
    <3>8. OwnAware(c)
      BY <1>1, <3>2, <3>3, <3>7 DEF OwnAware, Inv, Aware
    <3>9. OwnFits(c) /\ OwnHolds(c)
      BY <1>1, <2>1, <2>2, <3>1, <3>2 DEF OwnFits, OwnHolds
    <3>10. OwnSoFar(c)
      BY <2>1, <2>2, <3>2, <3>5, <3>7 DEF OwnSoFar, Safe
    <3>. QED BY <1>2, <2>1, <3>4, <3>6, <3>8, <3>9, <3>10, ThreadInv DEF Own
  <2>. QED BY <2>3, <2>4
<1>. QED BY <1>5, <1>6, <1>7 DEF Put

LEMMA ForgetInv ==
  ASSUME Inv, NEW c \in Copies, Forget(c)
  PROVE  Inv'
<1>. DEFINE job == Head(queue[c])
<1>1. /\ work[c].at = "forget" /\ work[c].at \in ChangeSteps
      /\ queue[c] # <<>> /\ IsChange(job)
      /\ work[c].remaining \cup work[c].placed \subseteq job.forget
      /\ UNCHANGED <<app, queue, answers, left, loading, ghosts, counts>>
  BY DEF Forget, ChangeSteps, Inv, Shape, WorkFits
<1>2. TypesIn(finished)'
  BY ForgetTypes DEF Inv
<1>3. /\ Deleting(c) = job.forget /\ Undoing(c) = {}
      /\ PutBy(c) = job.put \ job.forget /\ Forgot(c) = job.forget \ work[c].remaining
  BY <1>1 DEF Deleting, Undoing, PutBy, Forgot
<1>4. /\ TypesIn(finished) /\ job.forget \in SUBSET finished
      /\ (job.put \ job.forget) \ work[c].dying \subseteq Safe
      /\ sure \cap job.forget = {}
      /\ ((job.forget \ work[c].remaining) \ work[c].rising) \ rolled \subseteq disk.tombstones
      /\ job.put \cap Owed \subseteq disk.records
  BY <1>1, <1>3, ChangeFacts DEF Inv, StoredSoFar, DeletedSoFar, Holds
<1>5. Truthful(c) /\ answers' = answers /\ queue' = queue /\ sure' = sure /\ rolled' = rolled
      /\ gone' = gone /\ swept' = swept
  BY <1>1 DEF Truthful, ghosts
<1>6. ASSUME NEW r \in work[c].remaining, Names(disk.records, disk.tombstones \cup {r}),
             work' = [work EXCEPT ![c].remaining = @ \ {r},
                                  ![c].placed = @ \cup ({r} \ disk.tombstones)]
      PROVE  Inv'
  <2>1. /\ disk'.records = disk.records /\ disk'.tombstones = disk.tombstones \cup {r}
        /\ disk'.records_synced = disk.records_synced
        /\ disk'.tombstones_synced = disk.tombstones_synced
    BY <1>4, <1>6, NamesFacts
  <2>2. /\ work' = [work EXCEPT ![c] = [work[c] EXCEPT !.remaining = @ \ {r},
                                                       !.placed = @ \cup ({r} \ disk.tombstones)]]
        /\ work'[c].at = "forget" /\ work'[c].remaining = work[c].remaining \ {r}
        /\ work'[c].placed = work[c].placed \cup ({r} \ disk.tombstones)
        /\ work'[c].dying = work[c].dying /\ work'[c].rising = work[c].rising
    BY <1>1, <1>4, <1>6 DEF TypesIn, Works
  <2>3. Steady(c)
    BY <1>1, <2>2, StillSteady DEF ghosts
  <2>4. Careful(c) /\ r \in job.forget
    BY <1>1, <1>3, <1>5, <2>1 DEF Careful
  <2>5. /\ Deleting(c)' = job.forget /\ Undoing(c)' = {} /\ Undone(c)' = {}
        /\ PutBy(c)' = job.put \ job.forget
        /\ Forgot(c)' = job.forget \ (work[c].remaining \ {r})
    BY <1>5, <2>2 DEF Deleting, Undoing, Undone, PutBy, Forgot
  <2>6. OwnAware(c)
    BY <1>1, <1>3, <2>2, <2>3, <2>5, OwnAwareKept
  <2>7. OwnFits(c) /\ OwnHolds(c)
    BY <1>1, <1>4, <1>5, <2>1, <2>2, <2>4 DEF OwnFits, OwnHolds
  <2>8. OwnSoFar(c)
    BY <1>4, <1>5, <2>1, <2>2, <2>4, <2>5 DEF OwnSoFar, Safe
  <2>. QED BY <1>2, <1>5, <2>3, <2>4, <2>6, <2>7, <2>8, ThreadInv DEF Own
<1>7. ASSUME work[c].remaining = {}, TombstonesDone(c), Step(c, "remove", job.forget)
      PROVE  Inv'
  <2>1. /\ Careful(c) /\ disk'.records = disk.records /\ disk'.tombstones = disk.tombstones
        /\ disk'.tombstones_synced = disk.tombstones
    BY <1>4, <1>5, <1>7, SyncIsCareful DEF TombstonesDone
  <2>2. /\ work' = [work EXCEPT ![c] = [work[c] EXCEPT !.at = "remove", !.remaining = job.forget]]
        /\ work'[c].at = "remove" /\ work'[c].remaining = job.forget
        /\ work'[c].placed = work[c].placed
        /\ work'[c].dying = work[c].dying /\ work'[c].rising = work[c].rising
    BY <1>4, <1>7, StepFacts DEF Steps, ChangeSteps
  <2>3. Steady(c)
    BY <1>1, <2>2, StillSteady DEF ghosts
  <2>5. /\ Deleting(c)' = job.forget /\ Undoing(c)' = {} /\ Undone(c)' = {}
        /\ PutBy(c)' = job.put \ job.forget /\ Forgot(c)' = job.forget
    BY <1>5, <2>2 DEF Deleting, Undoing, Undone, PutBy, Forgot
  <2>6. OwnAware(c)
    BY <1>1, <1>3, <2>2, <2>3, <2>5, OwnAwareKept
  <2>7. OwnFits(c) /\ OwnHolds(c)
    BY <1>1, <1>4, <1>5, <2>1, <2>2 DEF OwnFits, OwnHolds
  <2>8. OwnSoFar(c)
    BY <1>4, <1>5, <1>7, <2>1, <2>2, <2>5 DEF OwnSoFar, Safe
  <2>. QED BY <1>2, <1>5, <2>1, <2>3, <2>6, <2>7, <2>8, ThreadInv DEF Own
<1>. QED BY <1>6, <1>7 DEF Forget

LEMMA RemoveInv ==
  ASSUME Inv, NEW c \in Copies, Remove(c)
  PROVE  Inv'
<1>. DEFINE job == Head(queue[c])
<1>1. /\ work[c].at = "remove" /\ work[c].at \in ChangeSteps
      /\ queue[c] # <<>> /\ IsChange(job)
      /\ work[c].remaining \cup work[c].placed \subseteq job.forget
      /\ UNCHANGED <<app, left, loading, finished, deleted, rolled, lost>>
  BY DEF Remove, ChangeSteps, Inv, Shape, WorkFits
<1>2. TypesIn(finished)'
  BY RemoveTypes DEF Inv
<1>3. /\ Deleting(c) = job.forget /\ Undoing(c) = {}
      /\ PutBy(c) = job.put \ job.forget /\ Forgot(c) = job.forget
  BY <1>1 DEF Deleting, Undoing, PutBy, Forgot
<1>4. /\ TypesIn(finished) /\ job.forget \cap Owed = {}
      /\ (job.put \ job.forget) \ work[c].dying \subseteq Safe
      /\ sure \cap job.forget = {}
      /\ (job.forget \ work[c].rising) \ rolled \subseteq disk.tombstones
      /\ (job.forget \ work[c].rising) \ rolled \subseteq disk.tombstones_synced
      /\ job.put \cap Owed \subseteq disk.records
  <2>1. job.forget \cap Owed = {}
    BY <1>3, DoingFacts
  <2>. QED BY <1>1, <1>3, <2>1, ChangeFacts DEF Inv, StoredSoFar, DeletedSoFar, Holds
<1>5. ASSUME NEW r \in work[c].remaining, Takes(c, r),
             Names(disk.records \ {r}, disk.tombstones) \/ UNCHANGED <<disk, changed>>,
             UNCHANGED <<queue, answers, sure, gone, swept>>
      PROVE  Inv'
  <2>1. /\ disk'.records \in {disk.records, disk.records \ {r}}
        /\ disk'.tombstones = disk.tombstones
        /\ disk'.records_synced = disk.records_synced
        /\ disk'.tombstones_synced = disk.tombstones_synced
    BY <1>4, <1>5, NamesFacts
  <2>2. /\ work' = [work EXCEPT ![c] = [work[c] EXCEPT !.remaining = work[c].remaining \ {r}]]
        /\ work'[c].at = "remove" /\ work'[c].remaining = work[c].remaining \ {r}
        /\ work'[c].placed = work[c].placed
        /\ work'[c].dying = work[c].dying /\ work'[c].rising = work[c].rising
    BY <1>1, <1>5, TakesFacts
  <2>3. Steady(c)
    BY <1>1, <1>5, <2>2, StillSteady
  <2>4. r \in job.forget
    BY <1>1, <1>5
  <2>5. Careful(c) /\ Truthful(c)
    BY <1>1, <1>3, <1>5, <2>1, <2>4 DEF Careful, Truthful
  <2>6. /\ Deleting(c)' = job.forget /\ Undoing(c)' = {} /\ Undone(c)' = {}
        /\ PutBy(c)' = job.put \ job.forget /\ Forgot(c)' = job.forget
    BY <1>5, <2>2 DEF Deleting, Undoing, Undone, PutBy, Forgot
  <2>7. OwnAware(c)
    BY <1>1, <1>3, <2>2, <2>3, <2>6, OwnAwareKept
  <2>8. OwnFits(c) /\ OwnHolds(c)
    BY <1>1, <1>4, <1>5, <2>1, <2>2, <2>4 DEF OwnFits, OwnHolds
  <2>9. OwnSoFar(c)
    BY <1>1, <1>4, <1>5, <2>1, <2>2, <2>4, <2>6 DEF OwnSoFar, Safe
  <2>. QED BY <1>2, <2>3, <2>5, <2>7, <2>8, <2>9, ThreadInv DEF Own
<1>6. ASSUME SyncRecords, Made(c), Answer(c, TRUE, {})
      PROVE  Inv'
  <2>1. /\ Careful(c) /\ disk'.records = disk.records /\ disk'.tombstones = disk.tombstones
        /\ disk'.records_synced = disk.records
        /\ disk'.tombstones_synced = disk.tombstones_synced
        /\ disk.records \cup swept' = disk.records \cup swept
    BY <1>1, <1>4, <1>6, SyncIsCareful
  <2>2. /\ Steady(c) /\ work'[c] = Idle
        /\ \A answer \in answers'[c] \ answers[c] : answer.job = job
    BY <1>1, <1>6, AnswerSteady
  <2>3. Truthful(c)
    BY <1>1, <1>4, <1>6, <2>1 DEF Truthful, Made, Safe
  <2>4. job.why \notin {"read", "cut_off"}
    BY <1>1 DEF IsChange
  <2>5. Own(c)
    BY <1>4, <2>1, <2>2, <2>4, OwnIdle DEF Idle
  <2>. QED BY <1>2, <2>1, <2>2, <2>3, <2>5, ThreadInv
<1>. QED BY <1>5, <1>6 DEF Remove

\* A change that failed leaves only what it did to the disk.
LEMMA FailedInv ==
  ASSUME Inv, NEW c \in Copies, queue[c] # <<>>, IsChange(Head(queue[c])),
         TypesIn(finished)', Failed(c), disk' = disk \/ SyncTombstones,
         UNCHANGED <<app, left, loading, ghosts>>
  PROVE  Inv'
<1>1. Careful(c) /\ Truthful(c)
  BY SyncIsCareful DEF Truthful, ghosts, Inv, Shape, Types
<1>2. Steady(c) /\ work'[c] = Idle
      /\ \A answer \in answers'[c] \ answers[c] : answer.job = Head(queue[c]) /\ ~answer.ok
  <2>1. CASE work' = [work EXCEPT ![c] = Idle] /\ UNCHANGED <<queue, answers>>
    BY <2>1, StillSteady DEF ghosts
  <2>2. CASE Answer(c, FALSE, {})
    BY <2>2, AnswerSteady DEF ghosts
  <2>. QED BY <2>1, <2>2 DEF Failed
<1>3. Own(c)
  BY <1>2, OwnIdle DEF Idle, IsChange
<1>. QED BY <1>1, <1>2, <1>3, ThreadInv

LEMMA FailInv ==
  ASSUME Inv, NEW c \in Copies, Fail(c)
  PROVE  Inv'
<1>. DEFINE job == Head(queue[c])
<1>1. /\ work[c].at \in {"unforget", "put", "forget"} /\ work[c].at \in ChangeSteps
      /\ queue[c] # <<>> /\ IsChange(job)
      /\ UNCHANGED <<disk, app, left, loading, ghosts, asks>>
  BY FaultsAssumption DEF Fail, ChangeSteps, Inv, Shape, WorkFits
<1>2. TypesIn(finished)'
  BY FailTypes DEF Inv
<1>3. CASE work[c].at # "forget"
  BY <1>1, <1>2, <1>3, FailedInv DEF Fail
<1>4. CASE work[c].at = "forget"
  <2>1. /\ Step(c, "roll_back", work[c].placed) /\ UNCHANGED <<queue, answers>>
        /\ work[c].remaining \cup work[c].placed \subseteq job.forget
    BY <1>4 DEF Fail, Inv, Shape, WorkFits
  <2>2. TypesIn(finished) /\ job.forget \in SUBSET finished
    BY <1>1, ChangeFacts
  <2>3. /\ work' = [work EXCEPT ![c] = [work[c] EXCEPT !.at = "roll_back",
                                                       !.remaining = work[c].placed]]
        /\ work'[c].at = "roll_back" /\ work'[c].remaining = work[c].placed
        /\ work'[c].placed = work[c].placed
        /\ work'[c].dying = work[c].dying /\ work'[c].rising = work[c].rising
    BY <2>1, <2>2, StepFacts DEF Steps, ChangeSteps
  <2>4. Steady(c)
    BY <1>1, <2>1, <2>3, StillSteady DEF ghosts
  <2>5. Careful(c) /\ Truthful(c)
    BY <1>1, <2>2, SyncIsCareful DEF Truthful, ghosts
  <2>6. /\ Deleting(c) = job.forget /\ Undoing(c) = {}
        /\ Deleting(c)' = job.forget /\ Undoing(c)' = {} /\ Undone(c)' = {}
        /\ PutBy(c)' = {} /\ Forgot(c)' = {}
    BY <1>4, <2>1, <2>3 DEF Deleting, Undoing, Undone, PutBy, Forgot
  <2>7. OwnAware(c)
    BY <1>1, <2>3, <2>4, <2>6, OwnAwareKept
  <2>8. OwnFits(c) /\ OwnHolds(c)
    BY <1>1, <2>1, <2>3 DEF OwnFits, OwnHolds
  <2>9. OwnSoFar(c)
    BY <1>1, <2>3, <2>6 DEF OwnSoFar, Inv, StoredSoFar, ghosts
  <2>. QED BY <1>2, <2>4, <2>5, <2>7, <2>8, <2>9, ThreadInv DEF Own
<1>. QED BY <1>3, <1>4

LEMMA RollBackInv ==
  ASSUME Inv, NEW c \in Copies, RollBack(c)
  PROVE  Inv'
<1>. DEFINE job == Head(queue[c])
<1>1. /\ work[c].at = "roll_back" /\ work[c].at \in ChangeSteps
      /\ queue[c] # <<>> /\ IsChange(job)
      /\ work[c].remaining \cup work[c].placed \subseteq job.forget
      /\ UNCHANGED <<app, left, loading, finished, deleted, sure, gone, swept, lost, counts>>
  BY DEF RollBack, ChangeSteps, Inv, Shape, WorkFits
<1>2. TypesIn(finished)'
  BY RollBackTypes DEF Inv
<1>3. TypesIn(finished) /\ Deleting(c) = job.forget /\ Undoing(c) = {} /\ sure \cap job.forget = {}
  <2>1. Deleting(c) = job.forget /\ Undoing(c) = {}
    BY <1>1 DEF Deleting, Undoing
  <2>. QED BY <1>1, <2>1, ChangeFacts DEF Inv, StoredSoFar
<1>4. ASSUME NEW r \in work[c].remaining, Takes(c, r),
             Names(disk.records, disk.tombstones \ {r}),
             rolled' = rolled \cup ({r} \cap (gone \cup UNION {Deleting(o) : o \in Copies \ {c}})),
             UNCHANGED <<queue, answers>>
      PROVE  Inv'
  <2>1. /\ disk'.records = disk.records /\ disk'.tombstones = disk.tombstones \ {r}
        /\ disk'.records_synced = disk.records_synced
        /\ disk'.tombstones_synced = disk.tombstones_synced
    BY <1>3, <1>4, NamesFacts
  <2>2. /\ work' = [work EXCEPT ![c] = [work[c] EXCEPT !.remaining = work[c].remaining \ {r}]]
        /\ work'[c].at = "roll_back" /\ work'[c].remaining = work[c].remaining \ {r}
        /\ work'[c].placed = work[c].placed
        /\ work'[c].dying = work[c].dying /\ work'[c].rising = work[c].rising
    BY <1>1, <1>4, TakesFacts
  <2>3. Steady(c)
    BY <1>1, <1>4, <2>2, StillSteady
  <2>4. Careful(c) /\ Truthful(c)
    BY <1>1, <1>4, <2>1 DEF Careful, Truthful
  <2>5. /\ Deleting(c)' = job.forget /\ Undoing(c)' = {} /\ Undone(c)' = {}
        /\ PutBy(c)' = {} /\ Forgot(c)' = {}
    BY <1>4, <2>2 DEF Deleting, Undoing, Undone, PutBy, Forgot
  <2>6. OwnAware(c)
    BY <1>1, <1>3, <2>2, <2>3, <2>5, OwnAwareKept
  <2>7. OwnFits(c) /\ OwnHolds(c)
    BY <1>1, <1>4, <2>2 DEF OwnFits, OwnHolds
  <2>8. OwnSoFar(c)
    BY <1>1, <1>3, <2>2, <2>5 DEF OwnSoFar
  <2>. QED BY <1>2, <2>3, <2>4, <2>6, <2>7, <2>8, ThreadInv DEF Own
<1>5. CASE SyncTombstones /\ Failed(c) /\ UNCHANGED rolled
  BY <1>1, <1>2, <1>5, FailedInv DEF ghosts
<1>. QED BY <1>4, <1>5 DEF RollBack

LEMMA ListInv ==
  ASSUME Inv, NEW c \in Copies, List(c)
  PROVE  Inv'
<1>1. /\ queue[c] # <<>> /\ Head(queue[c]).why = "list"
      /\ UNCHANGED <<disk, app, left, loading, ghosts, counts>>
  BY DEF List
<1>2. TypesIn(finished)'
  BY ListTypes DEF Inv
<1>3. TypesIn(finished) /\ Careful(c) /\ Truthful(c)
  BY <1>1, SyncIsCareful, ChangeFacts DEF Truthful, ghosts
<1>4. CASE work[c].at = "idle" /\ Step(c, "listed", Listed) /\ UNCHANGED <<changed, queue, answers>>
  <2>1. Listed \in SUBSET finished /\ "listed" \in Steps
    BY <1>3 DEF Listed, TypesIn, Folders, Steps
  <2>2. /\ work' = [work EXCEPT ![c] = [work[c] EXCEPT !.at = "listed", !.remaining = Listed]]
        /\ work'[c].at = "listed"
    BY <1>4, <2>1, StepFacts
  <2>3. Steady(c)
    BY <1>1, <1>4, <2>2, StillSteady DEF ghosts
  <2>4. /\ Deleting(c)' = {} /\ Undoing(c)' = {} /\ Undone(c)' = {}
        /\ PutBy(c)' = {} /\ Forgot(c)' = {}
    BY <2>2 DEF Deleting, Undoing, Undone, PutBy, Forgot
  <2>5. Own(c)
    BY <1>1, <1>4, <2>2, <2>4 DEF Own, OwnFits, OwnAware, OwnSoFar, OwnHolds, ChangeSteps
  <2>. QED BY <1>2, <1>3, <2>3, <2>5, ThreadInv
<1>5. CASE Answer(c, TRUE, work[c].remaining)
  <2>1. Steady(c) /\ work'[c] = Idle
        /\ \A answer \in answers'[c] \ answers[c] : answer.job = Head(queue[c])
    <3>. DEFINE got == work[c].remaining
    <3>1. Answer(c, TRUE, got) /\ UNCHANGED <<app, left, loading, finished, deleted, lost>>
      BY <1>1, <1>5 DEF ghosts
    <3>. HIDE DEF got
    <3>. QED BY <1>1, <3>1, AnswerSteady
  <2>2. Own(c)
    BY <1>1, <2>1, OwnIdle DEF Idle, IsChange
  <2>. QED BY <1>2, <1>3, <2>1, <2>2, ThreadInv
<1>. QED BY <1>4, <1>5 DEF List

LEMMA FindInv ==
  ASSUME Inv, NEW c \in Copies, Find(c)
  PROVE  Inv'
<1>1. PICK got : /\ got = Head(queue[c]).put \cap (IF Head(queue[c]).why = "read"
                                                     THEN disk.records ELSE disk.tombstones)
                 /\ Answer(c, TRUE, got)
  BY DEF Find
<1>2. /\ queue[c] # <<>> /\ Head(queue[c]).why \in {"read", "forgotten", "cut_off"}
      /\ UNCHANGED <<disk, changed, app, left, loading, finished, deleted, lost>> /\ UNCHANGED ghosts
  BY DEF Find, ghosts
<1>3. TypesIn(finished)'
  BY FindTypes DEF Inv
<1>4. TypesIn(finished) /\ Careful(c) /\ Truthful(c)
  BY <1>2, SyncIsCareful, ChangeFacts DEF Truthful, ghosts
<1>5. /\ Head(queue[c]).why = "read" => got \subseteq disk.records
      /\ Head(queue[c]).why # "read" => got \subseteq deleted
  BY <1>1 DEF Inv, ByHand
<1>6. /\ Steady(c) /\ work'[c] = Idle
      /\ \A answer \in answers'[c] \ answers[c] : answer.job = Head(queue[c])
  BY <1>1, <1>2, AnswerSteady
<1>7. \A answer \in answers'[c] \ answers[c] : answer.got = got
  BY <1>1, <1>4 DEF Answer, TypesIn
<1>8. Own(c)
  BY <1>2, <1>5, <1>6, <1>7, OwnIdle DEF Idle, IsChange
<1>. QED BY <1>3, <1>4, <1>6, <1>8, ThreadInv

LEMMA WorkInv ==
  ASSUME Inv, NEW c \in Copies, Work(c)
  PROVE  Inv'
BY BeginInv, UnforgetInv, PutInv, ForgetInv, RemoveInv, RollBackInv, ListInv, FindInv DEF Work

-----------------------------------------------------------------------------
(***************************************************************************)
(* Stopping and opening again keep the invariant.                          *)
(***************************************************************************)
LEMMA TakingTypes ==
  ASSUME Inv, NEW c \in Copies
  PROVE  Taking(c) \subseteq finished
<1>1. TypesIn(finished)
  BY DEF Inv, Shape, Types
<1>2. In(queue[c]) \subseteq Jobs(finished) /\ answers[c] \subseteq Answers(finished)
  BY <1>1, Elements DEF TypesIn
<1>3. \A job \in Asked(c) : job.put \subseteq finished
  BY <1>2 DEF Asked, Answers, Jobs
<1>. QED BY <1>3, TakingIs

LEMMA CrashInv ==
  ASSUME Inv, NEW c \in Copies, Crash(c)
  PROVE  Inv'
<1>1. /\ TypesIn(finished)
      /\ left' = left \cup app[c].mark /\ lost' = lost \cup Taking(c)
      /\ UNCHANGED <<disk, changed, finished, deleted, sure, gone, rolled, swept, asks>>
      /\ troubles' = troubles + 1
  BY DEF Crash, Trouble, Inv, Shape, Types
<1>2. \A d \in Copies :
        /\ app'[d] = IF d = c THEN Stopped ELSE app[d]
        /\ queue'[d] = IF d = c THEN <<>> ELSE queue[d]
        /\ work'[d] = IF d = c THEN Idle ELSE work[d]
        /\ answers'[d] = IF d = c THEN {} ELSE answers[d]
  BY <1>1 DEF Crash, AppIs, TypesIn
<1>3. Owed' \subseteq Owed /\ deleted' = deleted /\ Listed' = Listed /\ Safe' = Safe
  BY <1>1 DEF Owed, Listed, Safe
<1>4. Asked(c)' = {} /\ \A d \in Copies \ {c} : Asked(d)' = Asked(d) /\ Taking(d)' = Taking(d)
  BY <1>2 DEF Asked, In, Taking
<1>5. Types'
  <2>1. Stopped \in Apps(finished) /\ Idle \in Works(finished) /\ <<>> \in Seq(Jobs(finished))
    BY PlainTypes
  <2>2. /\ app' \in [Copies -> Apps(finished)] /\ work' \in [Copies -> Works(finished)]
        /\ queue' \in [Copies -> Seq(Jobs(finished))]
        /\ answers' \in [Copies -> SUBSET Answers(finished)]
    BY <1>1, <2>1 DEF Crash, AppIs, TypesIn
  <2>3. left' \subseteq finished /\ lost' \subseteq finished
    BY <1>1, CopyFacts, TakingTypes DEF TypesIn
  <2>. QED BY <1>1, <2>2, <2>3 DEF Types, TypesIn, Inv, Shape
<1>6. Shape'
  <2>1. WorkFits' /\ DownIsIdle'
    BY <1>2 DEF WorkFits, DownIsIdle, Inv, Shape, Idle, ChangeSteps, IsChange
  <2>2. AppFits' /\ ChangeFits'
    BY <1>2, <1>4 DEF AppFits, ChangeFits, Inv, Shape, Stopped, IsChange
  <2>. QED BY <1>5, <2>1, <2>2 DEF Shape
<1>7. /\ \A d \in Copies \ {c} :
           /\ Deleting(d)' = Deleting(d) /\ Undoing(d)' = Undoing(d)
           /\ Undone(d)' = Undone(d) /\ PutBy(d)' = PutBy(d) /\ Forgot(d)' = Forgot(d)
      /\ Deleting(c)' = {} /\ Undoing(c)' = {} /\ Undone(c)' = {}
      /\ PutBy(c)' = {} /\ Forgot(c)' = {}
  <2>1. \A d \in Copies \ {c} : work'[d] = work[d] /\ queue'[d] = queue[d]
    BY <1>2
  <2>2. \A d \in Copies \ {c} :
           /\ Deleting(d)' = Deleting(d) /\ Undoing(d)' = Undoing(d)
           /\ Undone(d)' = Undone(d) /\ PutBy(d)' = PutBy(d) /\ Forgot(d)' = Forgot(d)
    BY <2>1 DEF Deleting, Undoing, Undone, PutBy, Forgot
  <2>3. work'[c].at = "idle"
    BY <1>2 DEF Idle
  <2>. QED BY <2>2, <2>3 DEF Deleting, Undoing, Undone, PutBy, Forgot
<1>8. Aware'
  BY <1>2, <1>7 DEF Aware, Inv, Idle, ChangeSteps
<1>9. StoredSoFar' /\ DeletedSoFar'
  BY <1>1, <1>2, <1>3, <1>7 DEF StoredSoFar, DeletedSoFar, Inv, Idle
<1>10. SureStays' /\ GoneStays'
  BY <1>1 DEF SureStays, GoneStays, Inv
<1>11. ByHand'
  BY <1>1, <1>2, <1>4 DEF ByHand, Inv, Stopped, IsChange
<1>12. Holds'
  <2>. SUFFICES ASSUME NEW d \in Copies \ {c}
                PROVE  /\ app[d].here \cap Owed' \subseteq disk.records \cup app[d].mark
                       /\ (app[d].mark \ app[d].unsaved) \cap Owed' \subseteq disk.records
                       /\ \A job \in Asked(d) : job.why = "forgotten" =>
                            job.unforget \cap Owed' \subseteq disk.records
                       /\ \A answer \in answers[d] :
                            /\ answer.job.why = "read" => answer.got \cap Owed' \subseteq disk.records
                            /\ IsChange(answer.job) /\ answer.ok =>
                                 answer.job.put \cap Owed' \subseteq disk.records
                       /\ work[d].at = "put" =>
                            (Head(queue[d]).put \ work[d].remaining) \cap Owed' \subseteq disk.records
                       /\ work[d].at \in {"forget", "remove"} =>
                            Head(queue[d]).put \cap Owed' \subseteq disk.records
    BY <1>1, <1>2, <1>4 DEF Holds, Stopped, Idle, IsChange
  <2>. QED BY <1>3 DEF Holds, Inv
<1>13. FinishedIsKept'
  <2>. SUFFICES ASSUME NEW r \in Owed'
                PROVE  \/ r \in Listed \cup left'
                       \/ \E d \in Copies \ {c} : app[d].up /\ r \in app[d].mark \cup Taking(d)
    BY <1>2, <1>3, <1>4 DEF FinishedIsKept, Owed, Ups
  <2>1. r \in Owed /\ r \notin Taking(c)
    BY <1>1, <1>3 DEF Owed
  <2>. QED BY <1>1, <2>1 DEF FinishedIsKept, Owed, Ups, Inv
<1>14. NoneWaits'
  BY <1>2 DEF NoneWaits, Ups, Inv, Stopped, IsChange
<1>15. Opening'
  BY <1>1, <1>2 DEF Crash, Opening, Inv, Loads, Settled
<1>. QED BY <1>6, <1>8, <1>9, <1>10, <1>11, <1>12, <1>13, <1>14, <1>15 DEF Inv

LEMMA PowerCutInv ==
  ASSUME Inv, PowerCut
  PROVE  Inv'
<1>1. /\ TypesIn(finished)
      /\ lost' = finished /\ left' \subseteq left \cup UNION {app[c].mark : c \in Copies}
      /\ UNCHANGED <<changed, finished, deleted, sure, gone, rolled, swept, asks>>
      /\ troubles' = troubles + 1
  BY DEF PowerCut, Trouble, Inv, Shape, Types
<1>2. PICK records \in AfterPowerCut(disk.records, disk.records_synced),
           tombstones \in AfterPowerCut(disk.tombstones, disk.tombstones_synced) :
        disk' = [records |-> records, records_synced |-> records,
                 tombstones |-> tombstones, tombstones_synced |-> tombstones]
  BY DEF PowerCut
<1>3. /\ disk'.records = records /\ disk'.records_synced = records
      /\ disk'.tombstones = tombstones /\ disk'.tombstones_synced = tombstones
      /\ records \subseteq disk.records \cup disk.records_synced
      /\ disk.records \cap disk.records_synced \subseteq records
      /\ tombstones \subseteq disk.tombstones \cup disk.tombstones_synced
      /\ disk.tombstones \cap disk.tombstones_synced \subseteq tombstones
  BY <1>2 DEF AfterPowerCut
<1>4. \A c \in Copies : /\ app'[c] = Stopped /\ queue'[c] = <<>> /\ work'[c] = Idle
                        /\ answers'[c] = {} /\ Asked(c)' = {}
  <2>1. \A c \in Copies : /\ app'[c] = Stopped /\ queue'[c] = <<>> /\ work'[c] = Idle
                          /\ answers'[c] = {}
    BY DEF PowerCut
  <2>. QED BY <2>1 DEF Asked, In
<1>5. Owed' = {}
  BY <1>1 DEF Owed
<1>6. Types'
  <2>1. Stopped \in Apps(finished) /\ Idle \in Works(finished) /\ <<>> \in Seq(Jobs(finished))
    BY PlainTypes
  <2>2. /\ app' \in [Copies -> Apps(finished)] /\ work' \in [Copies -> Works(finished)]
        /\ queue' \in [Copies -> Seq(Jobs(finished))]
        /\ answers' \in [Copies -> SUBSET Answers(finished)]
    BY <2>1 DEF PowerCut
  <2>3. left' \subseteq finished
    BY <1>1, CopyFacts DEF TypesIn
  <2>4. disk' \in Folders(finished)
    BY <1>1, <1>2, <1>3 DEF TypesIn, Folders
  <2>. QED BY <1>1, <2>2, <2>3, <2>4 DEF Types, TypesIn, Inv, Shape
<1>7. Shape'
  BY <1>4, <1>6 DEF Shape, WorkFits, DownIsIdle, AppFits, ChangeFits, Stopped, Idle, ChangeSteps
<1>8. \A c \in Copies : /\ Deleting(c)' = {} /\ Undoing(c)' = {} /\ Undone(c)' = {}
                        /\ PutBy(c)' = {} /\ Forgot(c)' = {}
  BY <1>4 DEF Deleting, Undoing, Undone, PutBy, Forgot, Idle
<1>9. Aware' /\ StoredSoFar' /\ DeletedSoFar'
  BY <1>4, <1>8 DEF Aware, StoredSoFar, DeletedSoFar, Idle, ChangeSteps
<1>10. SureStays' /\ GoneStays'
  BY <1>1, <1>3 DEF SureStays, GoneStays, Inv
<1>11. ByHand' /\ Holds'
  BY <1>1, <1>3, <1>4, <1>5 DEF ByHand, Holds, Inv, Stopped, Idle
<1>12. FinishedIsKept' /\ NoneWaits'
  BY <1>4, <1>5 DEF FinishedIsKept, NoneWaits, Ups, Owed, Stopped
<1>13. Opening'
  BY DEF PowerCut, Opening, Loads, Settled
<1>. QED BY <1>7, <1>9, <1>10, <1>11, <1>12, <1>13 DEF Inv

\* A copy that has opened: it shows what is stored, and has asked for nothing.
Fresh(a) == a.up /\ a.unsaved = {} /\ a.trash = {} /\ a.mark = {} /\ a.own = {}

\* What a copy does as it opens takes no record that is owed, and leaves the
\* tombstones and all the other copies are at.
LEMMA OpeningKeeps ==
  ASSUME Inv, TypesIn(finished)', Opening', SureStays',
         UNCHANGED <<queue, work, answers, left, finished, deleted, sure, gone, rolled, lost>>,
         disk'.tombstones = disk.tombstones, disk'.tombstones_synced = disk.tombstones_synced,
         disk.records \cap Owed \subseteq disk'.records,
         Safe \subseteq Safe',
         \A c \in Copies :
           \/ app'[c] = app[c]
           \/ ~app[c].up /\ Fresh(app'[c]) /\ app'[c].here \subseteq disk'.records
  PROVE  Inv'
<1>1. Owed' = Owed /\ \A c \in Copies : Asked(c)' = Asked(c) /\ Taking(c)' = Taking(c)
  BY DEF Owed, Asked, Taking
<1>2. Shape'
  <2>1. Types' /\ WorkFits'
    BY DEF Inv, Shape, Types, WorkFits, IsChange
  <2>2. DownIsIdle'
    BY DEF Inv, Shape, DownIsIdle, Fresh
  <2>3. AppFits' /\ ChangeFits'
    BY <1>1 DEF Inv, Shape, AppFits, ChangeFits, Fresh, IsChange
  <2>. QED BY <2>1, <2>2, <2>3 DEF Shape
<1>3. \A c \in Copies : /\ Deleting(c)' = Deleting(c) /\ Undoing(c)' = Undoing(c)
                        /\ Undone(c)' = Undone(c) /\ PutBy(c)' = PutBy(c) /\ Forgot(c)' = Forgot(c)
  BY DEF Deleting, Undoing, Undone, PutBy, Forgot
<1>4. Aware' /\ StoredSoFar' /\ DeletedSoFar' /\ GoneStays'
  BY <1>3 DEF Aware, StoredSoFar, DeletedSoFar, GoneStays, Inv
<1>5. ByHand'
  BY <1>1 DEF ByHand, Inv, Fresh, IsChange
<1>6. Holds'
  <2>. SUFFICES ASSUME NEW c \in Copies
                PROVE  /\ app'[c].here \cap Owed \subseteq disk'.records \cup app'[c].mark
                       /\ (app'[c].mark \ app'[c].unsaved) \cap Owed \subseteq disk'.records
                       /\ \A job \in Asked(c) : job.why = "forgotten" =>
                            job.unforget \cap Owed \subseteq disk'.records
                       /\ \A answer \in answers[c] :
                            /\ answer.job.why = "read" => answer.got \cap Owed \subseteq disk'.records
                            /\ IsChange(answer.job) /\ answer.ok =>
                                 answer.job.put \cap Owed \subseteq disk'.records
                       /\ work[c].at = "put" =>
                            (Head(queue[c]).put \ work[c].remaining) \cap Owed \subseteq disk'.records
                       /\ work[c].at \in {"forget", "remove"} =>
                            Head(queue[c]).put \cap Owed \subseteq disk'.records
    BY <1>1 DEF Holds, IsChange
  <2>1. /\ app'[c].here \cap Owed \subseteq disk'.records \cup app'[c].mark
        /\ (app'[c].mark \ app'[c].unsaved) \cap Owed \subseteq disk'.records
    BY DEF Holds, Inv, Fresh
  <2>. QED BY <2>1 DEF Holds, Inv
<1>7. FinishedIsKept'
  <2>. SUFFICES ASSUME NEW r \in Owed
                PROVE  \/ r \in Listed' \cup left
                       \/ \E c \in Copies : app'[c].up /\ r \in app'[c].mark \cup Taking(c)
    BY <1>1 DEF FinishedIsKept, Owed, Ups
  <2>1. r \in Listed => r \in Listed'
    BY DEF Listed
  <2>2. ASSUME NEW c \in Ups, r \in app[c].mark \cup Taking(c)
        PROVE  app'[c].up /\ r \in app'[c].mark \cup Taking(c)
    BY <2>2 DEF Ups
  <2>. QED BY <2>1, <2>2 DEF FinishedIsKept, Owed, Ups, Inv
<1>8. NoneWaits'
  BY DEF NoneWaits, Ups, Inv, Fresh, IsChange
<1>. QED BY <1>2, <1>4, <1>5, <1>6, <1>7, <1>8 DEF Inv

LEMMA OpenInv ==
  ASSUME Inv, NEW c \in Copies, Open(c)
  PROVE  Inv'
<1>1. /\ ~app[c].up
      /\ loading' = [loading EXCEPT ![c] =
           [on |-> TRUE, doomed |-> disk.records \cap disk.tombstones,
            live |-> Listed, unlinked |-> FALSE]]
      /\ UNCHANGED <<disk, changed, app, queue, work, answers, left, ghosts, counts>>
  BY DEF Open
<1>2. TypesIn(finished) /\ disk.tombstones \subseteq deleted
  BY DEF Inv, Shape, Types, ByHand
<1>3. TypesIn(finished)'
  BY <1>1, <1>2 DEF TypesIn, ghosts, counts
<1>4. SureStays' /\ Safe' = Safe /\ Owed' = Owed
  BY <1>1 DEF Inv, SureStays, Safe, Owed, ghosts
<1>5. Opening'
  <2>1. /\ disk.records \cap disk.tombstones \subseteq deleted
        /\ Listed \subseteq finished /\ deleted \subseteq finished /\ finished \subseteq Records
    BY <1>2, CopyFacts DEF Listed, TypesIn, Folders
  <2>2. loading' \in [Copies -> Loads]
    BY <1>1, <2>1 DEF Opening, Inv, Loads
  <2>. QED BY <1>1, <2>1, <2>2 DEF Opening, Inv, ghosts
<1>. QED BY <1>1, <1>3, <1>4, <1>5, OpeningKeeps DEF ghosts

LEMMA UnlinkInv ==
  ASSUME Inv, NEW c \in Copies, Unlink(c)
  PROVE  Inv'
<1>1. PICK r \in loading[c].doomed :
        /\ Names(disk.records \ {r}, disk.tombstones)
        /\ loading' = [loading EXCEPT ![c].doomed = @ \ {r},
                                      ![c].unlinked = @ \/ r \in disk.records]
        /\ swept' = swept \cup ({r} \cap disk.records)
  BY DEF Unlink
<1>2. UNCHANGED <<app, queue, work, answers, left, finished, deleted, sure, gone, rolled, lost,
                  counts>>
  BY DEF Unlink
<1>3. TypesIn(finished) /\ loading \in [Copies -> Loads] /\ loading[c] \in Loads /\ r \in deleted
  BY DEF Inv, Shape, Types, Opening
<1>4. /\ disk'.records = disk.records \ {r} /\ disk'.tombstones = disk.tombstones
      /\ disk'.records_synced = disk.records_synced
      /\ disk'.tombstones_synced = disk.tombstones_synced
  BY <1>1, <1>3, NamesFacts
<1>5. TypesIn(finished)'
  <2>1. disk.records \ {r} \in SUBSET finished /\ disk.tombstones \in SUBSET finished
    BY <1>3 DEF TypesIn, Folders
  <2>2. disk' \in Folders(finished) /\ changed' \in [Copies -> BOOLEAN]
    BY <1>1, <1>3, <2>1, NamesTypes
  <2>. QED BY <1>2, <1>3, <2>2 DEF TypesIn, counts
<1>6. SureStays' /\ Safe \subseteq Safe'
  BY <1>1, <1>2, <1>4 DEF Inv, SureStays, Safe
<1>7. disk.records \cap Owed \subseteq disk'.records
  BY <1>3, <1>4 DEF Owed
<1>8. Opening'
  <2>. DEFINE load == [loading[c] EXCEPT !.doomed = loading[c].doomed \ {r},
                                         !.unlinked = loading[c].unlinked \/ r \in disk.records]
  <2>1. /\ load \in Loads /\ load.on = loading[c].on /\ load.live = loading[c].live
        /\ load.doomed \subseteq loading[c].doomed
    BY <1>3 DEF Loads
  <2>2. loading' = [loading EXCEPT ![c] = load]
    BY <1>1, <1>3 DEF Loads
  <2>. HIDE DEF load
  <2>. QED BY <1>2, <1>3, <2>1, <2>2 DEF Inv, Opening
<1>. QED BY <1>2, <1>4, <1>5, <1>6, <1>7, <1>8, OpeningKeeps

LEMMA LoadedInv ==
  ASSUME Inv, NEW c \in Copies, Loaded(c)
  PROVE  Inv'
<1>. DEFINE new == [Stopped EXCEPT !.up = TRUE, !.here = loading[c].live \cap disk.records]
<1>1. /\ loading[c].on /\ (SyncRecords \/ UNCHANGED <<disk, swept>>)
      /\ app' = [app EXCEPT ![c] = new]
      /\ loading' = [loading EXCEPT ![c] = Settled]
      /\ Restamp(c)
      /\ UNCHANGED <<queue, work, answers, left, finished, deleted, sure, gone, rolled, lost, counts>>
  BY DEF Loaded, AppIs
<1>2. /\ TypesIn(finished) /\ loading \in [Copies -> Loads] /\ ~app[c].up
  BY <1>1 DEF Inv, Shape, Types, Opening
<1>3. /\ new \in Apps(finished) /\ Fresh(new) /\ new.here \subseteq disk.records
  <2>1. disk.records \subseteq finished
    BY <1>2 DEF TypesIn, Folders
  <2>. QED BY <2>1 DEF Stopped, Apps, Fresh
<1>. HIDE DEF new
<1>4. /\ disk' \in Folders(finished)
      /\ disk'.records = disk.records /\ disk'.tombstones = disk.tombstones
      /\ disk'.records_synced \in {disk.records, disk.records_synced}
      /\ disk'.tombstones_synced = disk.tombstones_synced
      /\ disk.records \cup swept' = disk.records \cup swept
      /\ swept \ swept' \subseteq disk.records /\ swept' \subseteq swept
      /\ swept' # swept => disk'.records_synced = disk.records
  BY <1>1, <1>2 DEF SyncRecords, TypesIn, Folders
<1>5. TypesIn(finished)'
  <2>1. changed' \in [Copies -> BOOLEAN]
    BY <1>1, <1>2, RestampTypes
  <2>. QED BY <1>1, <1>2, <1>3, <1>4, <2>1 DEF TypesIn, counts
<1>6. SureStays' /\ Safe \subseteq Safe'
  BY <1>1, <1>4 DEF Inv, SureStays, Safe
<1>7. \A d \in Copies : app'[d] = IF d = c THEN new ELSE app[d]
  BY <1>1, <1>2 DEF TypesIn
<1>8. Opening'
  <2>1. Settled \in Loads /\ ~Settled.on /\ Settled.doomed = {} /\ Settled.live = {}
    BY DEF Settled, Loads
  <2>. HIDE DEF Settled
  <2>. QED BY <1>1, <1>2, <1>7, <2>1 DEF Inv, Opening
<1>. QED BY <1>1, <1>2, <1>3, <1>4, <1>5, <1>6, <1>7, <1>8, OpeningKeeps


-----------------------------------------------------------------------------
(***************************************************************************)
(* The invariant holds from the start, and every step keeps it.            *)
(***************************************************************************)
LEMMA InitInv ==
  ASSUME Init
  PROVE  Inv
<1>. DEFINE new == [Stopped EXCEPT !.up = TRUE, !.here = Stored]
<1>1. /\ disk = [records |-> Stored, tombstones |-> {},
                 records_synced |-> Stored, tombstones_synced |-> {}]
      /\ changed = [c \in Copies |-> FALSE]
      /\ app = [c \in Copies |-> new]
      /\ queue = [c \in Copies |-> <<>>]
      /\ work = [c \in Copies |-> Idle]
      /\ answers = [c \in Copies |-> {}]
      /\ left = {} /\ finished = Stored /\ deleted = {} /\ sure = Stored
      /\ gone = {} /\ rolled = {} /\ swept = {} /\ lost = {}
      /\ loading = [c \in Copies |-> Settled] /\ asks = 0 /\ troubles = 0
  BY DEF Init
<1>2. /\ new.up /\ new.here = Stored /\ new.unsaved = {} /\ new.trash = {}
      /\ new.mark = {} /\ new.own = {} /\ new \in Apps(Stored)
  BY DEF Stopped, Apps
<1>. HIDE DEF new
<1>3. Types
  <2>1. Idle \in Works(Stored) /\ <<>> \in Seq(Jobs(Stored))
    BY PlainTypes
  <2>. QED BY <1>1, <1>2, <2>1, StoredAssumption DEF Types, TypesIn, Folders
<1>4. \A c \in Copies : app[c] = new /\ queue[c] = <<>> /\ work[c].at = "idle" /\ answers[c] = {}
  BY <1>1 DEF Idle
<1>5. \A c \in Copies : Asked(c) = {}
  BY <1>4 DEF Asked, In
<1>6. Shape
  BY <1>2, <1>3, <1>4, <1>5
     DEF Shape, WorkFits, DownIsIdle, AppFits, ChangeFits, ChangeSteps
<1>7. \A c \in Copies : /\ Deleting(c) = {} /\ Undoing(c) = {} /\ Undone(c) = {}
                        /\ PutBy(c) = {} /\ Forgot(c) = {}
  BY <1>4 DEF Deleting, Undoing, Undone, PutBy, Forgot
<1>8. Aware /\ StoredSoFar /\ DeletedSoFar
  BY <1>4, <1>7 DEF Aware, StoredSoFar, DeletedSoFar, ChangeSteps
<1>9. ByHand /\ Holds
  BY <1>1, <1>2, <1>4, <1>5 DEF ByHand, Holds
<1>10. SureStays /\ GoneStays
  BY <1>1 DEF SureStays, GoneStays
<1>11. FinishedIsKept
  BY <1>1 DEF FinishedIsKept, Listed
<1>12. NoneWaits
  BY <1>2, <1>4 DEF NoneWaits, Ups
<1>13. Opening
  BY <1>1 DEF Opening, Loads, Settled
<1>. QED BY <1>6, <1>8, <1>9, <1>10, <1>11, <1>12, <1>13 DEF Inv

LEMMA NextInv ==
  ASSUME Inv, [Next]_vars
  PROVE  Inv'
<1>1. ASSUME NEW c \in Copies, NEW r \in Records, Finish(c, r)
      PROVE  Inv'
  BY <1>1, FinishInv
<1>2. ASSUME NEW c \in Copies, NEW picked \in SUBSET Records, Delete(c, picked)
      PROVE  Inv'
  BY <1>2, DeleteInv
<1>3. ASSUME NEW c \in Copies, Undo(c) \/ Look(c) \/ Retry(c) \/ Settle(c) \/ TakeCutOff(c)
      PROVE  Inv'
  BY <1>3, UndoInv, LookInv, RetryInv, SettleInv, TakeCutOffInv
<1>4. ASSUME NEW c \in Copies, Work(c) \/ Fail(c)
      PROVE  Inv'
  BY <1>4, WorkInv, FailInv
<1>5. ASSUME NEW c \in Copies, Crash(c) \/ Open(c) \/ Unlink(c) \/ Loaded(c)
      PROVE  Inv'
  BY <1>5, CrashInv, OpenInv, UnlinkInv, LoadedInv
<1>6. CASE PowerCut
  BY <1>6, PowerCutInv
<1>7. CASE UNCHANGED vars
  <2>1. UNCHANGED <<disk, changed, app, queue, work, answers, left, loading, ghosts, counts>>
    BY <1>7 DEF vars
  <2>2. \A c \in Copies :
          /\ Asked(c)' = Asked(c) /\ Taking(c)' = Taking(c)
          /\ Deleting(c)' = Deleting(c) /\ Undoing(c)' = Undoing(c)
          /\ Undone(c)' = Undone(c) /\ PutBy(c)' = PutBy(c) /\ Forgot(c)' = Forgot(c)
    BY <2>1 DEF Asked, Taking, Deleting, Undoing, Undone, PutBy, Forgot
  <2>3. Shape'
    BY <2>1, <2>2 DEF Inv, Shape, Types, TypesIn, WorkFits, DownIsIdle, AppFits, ChangeFits,
                      ghosts, counts, IsChange
  <2>4. Aware' /\ StoredSoFar' /\ DeletedSoFar'
    BY <2>1, <2>2 DEF Inv, Aware, StoredSoFar, DeletedSoFar, Safe, ghosts
  <2>5. ByHand' /\ Holds'
    BY <2>1, <2>2 DEF Inv, ByHand, Holds, Owed, ghosts, IsChange
  <2>6. SureStays' /\ GoneStays' /\ FinishedIsKept' /\ NoneWaits'
    BY <2>1, <2>2 DEF Inv, SureStays, GoneStays, FinishedIsKept, Listed, Ups, NoneWaits, ghosts,
                      IsChange
  <2>7. Opening'
    BY <2>1 DEF Inv, Opening, ghosts
  <2>. QED BY <2>3, <2>4, <2>5, <2>6, <2>7 DEF Inv
<1>. QED BY <1>1, <1>2, <1>3, <1>4, <1>5, <1>6, <1>7 DEF Next

\* Every behaviour keeps the invariant the theorems below are read off.
THEOREM Inductive == Spec => []Inv
<1>1. Init => Inv
  BY InitInv
<1>2. Inv /\ [Next]_vars => Inv'
  BY NextInv
<1>. QED BY <1>1, <1>2, PTL DEF Spec

-----------------------------------------------------------------------------
(***************************************************************************)
(* What the project's runs check, for every instance.                      *)
(***************************************************************************)
\* Every set holds sessions finished, what a copy has yet to store it shows,
\* a thread under way has a change to make, and a copy that is down, or is
\* opening, has nothing asked (state.rs, worker.rs).
THEOREM TypeCorrect == Spec => []TypeOK
<1>1. ASSUME Inv PROVE TypeOK
  <2>1. \A n \in DOMAIN disk : disk[n] \subseteq finished
    BY <1>1 DEF Inv, Shape, Types, TypesIn, Folders
  <2>2. \A c \in Copies : IsApp(app[c])
    <3>. SUFFICES ASSUME NEW c \in Copies PROVE IsApp(app[c])
      OBVIOUS
    <3>1. app[c] \in Apps(finished) /\ Fit(app[c])
      BY <1>1, CopyFacts
    <3>. QED BY <3>1 DEF IsApp, Apps, Fit
  <2>3. \A c \in Copies : work[c].at # "idle" => queue[c] # <<>>
    BY <1>1, DoingFacts
  <2>4. \A c \in Copies : /\ loading[c].on => ~app[c].up
                         /\ loading[c].doomed \cup loading[c].live \subseteq finished
    BY <1>1, CopyFacts DEF Inv, Opening
  <2>. QED BY <1>1, <2>1, <2>2, <2>3, <2>4 DEF TypeOK, Inv, Shape, DownIsIdle
<1>. QED BY <1>1, Inductive, PTL

\* A session the app was told is stored is stored and synced, with no
\* tombstone beside it, until a deletion of it begins: whatever other copies
\* delete or undo meanwhile, wherever a change fails, a copy stops or the
\* power goes (HistoryFiles::make, files.rs:329-331).  The one exception is
\* a record a copy that was opening had listed beside its tombstone, and took
\* away after an undo had removed that tombstone (HistoryFiles::load).
THEOREM SureStaysEver == Spec => []SureStays
<1>1. Inv => SureStays
  BY DEF Inv
<1>. QED BY <1>1, Inductive, PTL

\* A session the app was told is deleted keeps its tombstone, synced, until
\* an undo of it begins, but for one another copy's failed deletion took back
\* (HistoryFiles::make's rolling back, files.rs).
THEOREM GoneStaysEver == Spec => []GoneStays
<1>1. Inv => GoneStays
  BY DEF Inv
<1>. QED BY <1>1, Inductive, PTL

\* A finished session never deleted by hand is stored, or a mark carries it
\* to the next launch, or a copy that is up is taking it from one, but for
\* those a stop took as they were between the two (settle_mark,
\* keep_finished and tell_of_cut_off of state.rs).
THEOREM FinishedIsKeptEver == Spec => []FinishedIsKept
<1>1. Inv => FinishedIsKept
  BY DEF Inv
<1>. QED BY <1>1, Inductive, PTL

\* What a copy has yet to store is asked for, or its answer is on its way, or
\* a retry waits: none is forgotten (change_history and retry_later of state.rs).
THEOREM NoneWaitsEver == Spec => []NoneWaits
<1>1. Inv => NoneWaits
  BY DEF Inv
<1>. QED BY <1>1, Inductive, PTL

=============================================================================
