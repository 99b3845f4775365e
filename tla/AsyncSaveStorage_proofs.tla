------------------------ MODULE AsyncSaveStorage_proofs ------------------------
(***************************************************************************)
(* Proofs about AsyncSaveStorage for any number of forms, upserts and      *)
(* iterates: type correctness; that the two threads together implement the *)
(* queue UpsertQueue; and, following that queue, what is promised of each  *)
(* request: it is in one place, outcomes come in the order of the requests,*)
(* and what is acknowledged is stored.                                     *)
(***************************************************************************)
EXTENDS AsyncSaveStorage, SequenceTheorems, TLAPS

Error == [kind : {"upsert"}, task : Task] \cup [kind : {"iterate"}, task : IterateTask]

(* Sequences.                                                               *)

\* Taking the first element of a concatenation takes it from the first part.
LEMMA TailConcat ==
  ASSUME NEW S, NEW s \in Seq(S), NEW t \in Seq(S), s # <<>>
  PROVE  /\ s \o t # <<>> /\ s \o t \in Seq(S)
         /\ Head(s \o t) = Head(s) /\ Tail(s \o t) = Tail(s) \o t
<1>1. /\ s \o t \in Seq(S) /\ Len(s \o t) = Len(s) + Len(t)
      /\ \A i \in 1..(Len(s) + Len(t)) : (s \o t)[i] = IF i <= Len(s) THEN s[i] ELSE t[i - Len(s)]
  BY ConcatProperties
<1>2. Len(s) \in Nat \ {0} /\ Len(t) \in Nat
  BY EmptySeq, LenProperties
<1>3. s \o t # <<>>
  BY <1>1, <1>2, EmptySeq
<1>4. Head(s \o t) = Head(s)
  BY <1>1, <1>2, <1>3
<1>5. /\ Tail(s) \in Seq(S) /\ Len(Tail(s)) = Len(s) - 1
      /\ \A i \in 1..Len(Tail(s)) : Tail(s)[i] = s[i + 1]
  BY HeadTailProperties
<1>6. /\ Tail(s \o t) \in Seq(S) /\ Len(Tail(s \o t)) = Len(s \o t) - 1
      /\ \A i \in 1..Len(Tail(s \o t)) : Tail(s \o t)[i] = (s \o t)[i + 1]
  BY <1>1, <1>3, HeadTailProperties
<1>7. /\ Tail(s) \o t \in Seq(S) /\ Len(Tail(s) \o t) = Len(Tail(s)) + Len(t)
      /\ \A i \in 1..(Len(Tail(s)) + Len(t)) :
           (Tail(s) \o t)[i] = IF i <= Len(Tail(s)) THEN Tail(s)[i] ELSE t[i - Len(Tail(s))]
  BY <1>5, ConcatProperties
<1>8. ASSUME NEW i \in 1..Len(Tail(s \o t)) PROVE Tail(s \o t)[i] = (Tail(s) \o t)[i]
  <2>1. i \in Nat /\ i + 1 \in 1..(Len(s) + Len(t)) /\ i \in 1..(Len(Tail(s)) + Len(t))
    BY <1>1, <1>2, <1>5, <1>6
  <2>2. CASE i <= Len(Tail(s))
    BY <1>1, <1>2, <1>5, <1>6, <1>7, <2>1, <2>2
  <2>3. CASE ~(i <= Len(Tail(s)))
    <3>1. (i + 1) - Len(s) = i - Len(Tail(s)) /\ ~(i + 1 <= Len(s))
      BY <1>2, <1>5, <2>1, <2>3
    <3> QED BY <1>1, <1>6, <1>7, <2>1, <2>3, <3>1
  <2> QED BY <2>2, <2>3
<1>9. Tail(s \o t) = Tail(s) \o t
  <2>1. Len(Tail(s \o t)) = Len(Tail(s) \o t)
    BY <1>1, <1>2, <1>5, <1>6, <1>7
  <2> QED BY <1>6, <1>7, <1>8, <2>1, SeqEqual
<1> QED BY <1>1, <1>3, <1>4, <1>9

\* Appending to the last part appends to the whole.
LEMMA AppendConcat ==
  ASSUME NEW S, NEW s \in Seq(S), NEW t \in Seq(S), NEW e \in S
  PROVE  s \o Append(t, e) = Append(s \o t, e)
<1>1. <<e>> \in Seq(S)
  OBVIOUS
<1>2. Append(t, e) = t \o <<e>> /\ Append(s \o t, e) = (s \o t) \o <<e>>
  <2>1. s \o t \in Seq(S)
    BY ConcatProperties
  <2>2. \A u \in Seq(S) : Append(u, e) = u \o <<e>>
    OBVIOUS
  <2> QED BY <2>1, <2>2
<1> QED BY <1>1, <1>2, ConcatAssociative

\* The two cases of the storage, and the grouping of a concatenation.
LEMMA StorageSequences ==
  /\ \A s, t \in Seq(Task), e \in Task : s \o Append(t, e) = Append(s \o t, e)
  /\ \A s, t \in Seq(Error), e \in Error : s \o Append(t, e) = Append(s \o t, e)
  /\ \A s, t, u \in Seq(Task) : s \o (t \o u) = (s \o t) \o u
  /\ \A s, t \in Seq(Error) :
       /\ s \o t \in Seq(Error) /\ Len(s \o t) = Len(s) + Len(t)
       /\ \A n \in 1..(Len(s) + Len(t)) :
            (s \o t)[n] = IF n <= Len(s) THEN s[n] ELSE t[n - Len(s)]
<1>1. ASSUME NEW s \in Seq(Task), NEW t \in Seq(Task), NEW e \in Task
      PROVE  s \o Append(t, e) = Append(s \o t, e)
  BY AppendConcat
<1>2. ASSUME NEW s \in Seq(Error), NEW t \in Seq(Error), NEW e \in Error
      PROVE  s \o Append(t, e) = Append(s \o t, e)
  BY AppendConcat
<1>3. ASSUME NEW s \in Seq(Task), NEW t \in Seq(Task), NEW u \in Seq(Task)
      PROVE  s \o (t \o u) = (s \o t) \o u
  BY ConcatAssociative
<1>4. ASSUME NEW s \in Seq(Error), NEW t \in Seq(Error)
      PROVE  /\ s \o t \in Seq(Error) /\ Len(s \o t) = Len(s) + Len(t)
             /\ \A n \in 1..(Len(s) + Len(t)) :
                  (s \o t)[n] = IF n <= Len(s) THEN s[n] ELSE t[n - Len(s)]
  BY ConcatProperties
<1> QED BY <1>1, <1>2, <1>3, <1>4

LEMMA FailuresFacts ==
  /\ Failures(<<>>) = <<>>
  /\ \A s \in Seq(Task) : Failures(s) \in Seq(Error) /\ Len(Failures(s)) = Len(s)
  /\ \A s \in Seq(Task), t \in Task : Failures(Append(s, t)) = Append(Failures(s), UpsertFailed(t))
<1>1. Failures(<<>>) = <<>>
  BY DEF Failures
<1>2. ASSUME NEW s \in Seq(Task)
      PROVE  Failures(s) \in Seq(Error) /\ Len(Failures(s)) = Len(s)
  <2>1. \A n \in 1..Len(s) : UpsertFailed(s[n]) \in Error
    BY ElementOfSeq DEF UpsertFailed, Error
  <2> QED BY <2>1 DEF Failures
<1>3. ASSUME NEW s \in Seq(Task), NEW t \in Task
      PROVE  Failures(Append(s, t)) = Append(Failures(s), UpsertFailed(t))
  <2>1. Append(s, t) \in Seq(Task) /\ Len(Append(s, t)) = Len(s) + 1 /\ Len(s) \in Nat
    OBVIOUS
  <2>2. \A n \in 1..(Len(s) + 1) : Append(s, t)[n] = IF n <= Len(s) THEN s[n] ELSE t
    BY <2>1
  <2>3. UpsertFailed(t) \in Error
    BY DEF UpsertFailed, Error
  <2>4. /\ Failures(s) \in Seq(Error) /\ Len(Failures(s)) = Len(s)
        /\ Failures(Append(s, t)) \in Seq(Error) /\ Len(Failures(Append(s, t))) = Len(s) + 1
    BY <1>2, <2>1
  <2>5. \A n \in 1..(Len(s) + 1) :
          Append(Failures(s), UpsertFailed(t))[n] = IF n <= Len(s) THEN Failures(s)[n] ELSE UpsertFailed(t)
    BY <2>3, <2>4
  <2>6. \A n \in 1..(Len(s) + 1) : Failures(Append(s, t))[n] = UpsertFailed(Append(s, t)[n])
    BY <2>1 DEF Failures
  <2>7. \A n \in 1..Len(s) : Failures(s)[n] = UpsertFailed(s[n])
    BY DEF Failures
  <2>8. \A n \in 1..(Len(s) + 1) :
          Failures(Append(s, t))[n] = Append(Failures(s), UpsertFailed(t))[n]
    <3>1. ASSUME NEW n \in 1..(Len(s) + 1), n <= Len(s)
          PROVE  Failures(Append(s, t))[n] = Append(Failures(s), UpsertFailed(t))[n]
      <4>1. n \in 1..Len(s)
        BY <2>1, <3>1
      <4>2. Append(s, t)[n] = s[n] /\ Append(Failures(s), UpsertFailed(t))[n] = Failures(s)[n]
        BY <2>2, <2>5, <3>1
      <4> QED BY <2>6, <2>7, <4>1, <4>2
    <3>2. ASSUME NEW n \in 1..(Len(s) + 1), ~(n <= Len(s))
          PROVE  Failures(Append(s, t))[n] = Append(Failures(s), UpsertFailed(t))[n]
      BY <2>2, <2>5, <2>6, <3>2
    <3> QED BY <3>1, <3>2
  <2>9. /\ Append(Failures(s), UpsertFailed(t)) \in Seq(Error)
        /\ Len(Append(Failures(s), UpsertFailed(t))) = Len(s) + 1
    BY <2>3, <2>4
  <2> QED BY <2>4, <2>8, <2>9, SeqEqual
<1> QED BY <1>1, <1>2, <1>3

-----------------------------------------------------------------------------
(* The invariant.                                                           *)

\* Each section of the saver's loop leaves its lists empty for the next.
SectionsEnd ==
  /\ saverPc # "upserting" => tasks = <<>> /\ okTasks = <<>>
  /\ saverPc \notin {"upserting", "publishExceptions"} => failedTasks = <<>>
  /\ tasks = <<>> => cursor = 0

\* A buffer has a form at one index at most, in the version of its request.
Separate(t) ==
  \A i \in Idx :
    t.forms[i] # NoChange => t.forms[i].form = i + 1 /\ t.forms[i].ver = t.callback

BatchesSeparate ==
  /\ \A n \in 1..Len(upsertTasks) : Separate(upsertTasks[n])
  /\ \A n \in 1..Len(tasks) : Separate(tasks[n])

\* What the cursor has passed is written.
PrefixWritten ==
  tasks # <<>> =>
    \A i \in Idx : i < cursor /\ Head(tasks).forms[i] # NoChange =>
      db[Head(tasks).forms[i].form] = Head(tasks).forms[i].ver

IInv == TypeOK /\ SectionsEnd /\ BatchesSeparate /\ PrefixWritten

LEMMA TaskFacts ==
  /\ NumForms \in Nat /\ NumIdx = NumForms /\ NoChange \notin Entry
  /\ \A i \in Idx : i \in Nat /\ i + 1 \in FormId /\ i < NumIdx
  /\ \A t \in Task : /\ \A i \in Idx : t.forms[i] \in Entry \cup {NoChange}
                     /\ t.forms \in Buffer /\ t.callback \in Callback
  /\ \A e \in Entry : e.form \in FormId /\ e.ver \in Nat
BY NumFormsAssumption, PipelineAssumption, ClientAssumption
   DEF Idx, FormId, Task, Buffer, Entry

\* The buffer of a request is a buffer with a form at one index at most.
LEMMA BufferOfFacts ==
  ASSUME NEW S \in SUBSET FormId, NEW n \in Callback
  PROVE  LET t == [forms |-> BufferOf(S, n), callback |-> n]
         IN t \in Task /\ Separate(t)
<1>1. n \in Nat
  BY ClientAssumption
<1>2. ASSUME NEW i \in Idx
      PROVE  /\ BufferOf(S, n)[i] \in Entry \cup {NoChange}
             /\ BufferOf(S, n)[i] # NoChange =>
                  BufferOf(S, n)[i].form = i + 1 /\ BufferOf(S, n)[i].ver = n
  BY <1>1, TaskFacts DEF BufferOf, Entry
<1>3. BufferOf(S, n) \in Buffer
  BY <1>2 DEF BufferOf, Buffer
<1> QED BY <1>2, <1>3 DEF Task, Separate

-----------------------------------------------------------------------------
(* Types.                                                                   *)

LEMMA InitIInv == Init => IInv
<1> SUFFICES ASSUME Init PROVE IInv
  OBVIOUS
<1>1. db \in [FormId -> Stored]
  BY DEF Init, Stored, Absent
<1>2. acked \in [FormId -> Nat]
  BY DEF Init
<1>3. \A S : <<>> \in Seq(S)
  OBVIOUS
<1>4. NumIdx \in Nat /\ MaxUpserts \in Nat /\ MaxIterates \in Nat
  BY ClientAssumption, PipelineAssumption
<1>5. TypeOK
  <2>1. PipelineTypeOK
    BY <1>1, <1>3, <1>4 DEF Init, PipelineInit, PipelineTypeOK, DbTypeOK
  <2>2. /\ iterateTasks \in Seq(IterateTask) /\ iterateCallbacksToFire \in Seq(IterateResult)
        /\ iterating \in Seq(IterateTask) /\ iterateOk \in Seq(IterateResult)
        /\ iterateFailed \in Seq(IterateTask) /\ preparedIterates \in Seq(IterateResult)
    BY <1>3 DEF Init
  <2>3. exceptions \in Seq(Error) /\ fired \in Seq(Callback) /\ raised \in Seq(Callback)
        /\ iterated \in Seq(IterateResult)
    BY <1>3 DEF Init, PipelineInit
  <2>4. /\ numFinishedUpserts \in Nat /\ numFinishedIterates \in Nat
        /\ requested \in 0..MaxUpserts /\ requestedIterates \in 0..MaxIterates
    BY <1>4 DEF Init
  <2>5. destroyed \in BOOLEAN /\ thrown \subseteq Callback
    BY DEF Init
  <2> QED BY <1>2, <2>1, <2>2, <2>3, <2>4, <2>5 DEF TypeOK, Error
<1>6. SectionsEnd /\ BatchesSeparate /\ PrefixWritten
  BY DEF Init, PipelineInit, SectionsEnd, BatchesSeparate, PrefixWritten
<1> QED BY <1>5, <1>6 DEF IInv

\* A step that only changes these places of the pipeline, and with what type.
LEMMA PipelineTypes ==
  ASSUME TypeOK,
         db' \in [FormId -> Stored], upsertTasks' \in Seq(Task), exceptions' \in Seq(Error),
         upsertCallbacksToFire' \in Seq(Task), recycledBuffers' \in Seq(Buffer),
         saverPc' \in {"takeUpserts", "upserting", "publishExceptions",
                       "takeIterates", "iterating", "stopped"},
         tasks' \in Seq(Task), cursor' \in 0..NumIdx, okTasks' \in Seq(Task),
         failedTasks' \in Seq(Task),
         tickPc' \in {"outside", "takeUpserts", "fireUpserts", "takeIterates", "fireIterates"},
         prepared' \in Seq(Task),
         UNCHANGED <<iterateVars, destroyed, clientVars, iterated>>,
         numFinishedUpserts' \in Nat, UNCHANGED numFinishedIterates,
         fired' \in Seq(Callback), thrown' \subseteq Callback, raised' \in Seq(Callback),
         acked' \in [FormId -> Nat]
  PROVE  TypeOK'
BY DEF TypeOK, PipelineTypeOK, DbTypeOK, Error, iterateVars, clientVars

LEMMA TypeFacts ==
  ASSUME TypeOK
  PROVE  /\ db \in [FormId -> Stored] /\ upsertTasks \in Seq(Task) /\ exceptions \in Seq(Error)
         /\ upsertCallbacksToFire \in Seq(Task) /\ recycledBuffers \in Seq(Buffer)
         /\ saverPc \in {"takeUpserts", "upserting", "publishExceptions",
                         "takeIterates", "iterating", "stopped"}
         /\ tasks \in Seq(Task) /\ cursor \in 0..NumIdx /\ okTasks \in Seq(Task)
         /\ failedTasks \in Seq(Task)
         /\ tickPc \in {"outside", "takeUpserts", "fireUpserts", "takeIterates", "fireIterates"}
         /\ prepared \in Seq(Task)
         /\ numFinishedUpserts \in Nat /\ fired \in Seq(Callback) /\ thrown \subseteq Callback
         /\ raised \in Seq(Callback) /\ acked \in [FormId -> Nat]
BY DEF TypeOK, PipelineTypeOK, DbTypeOK, Error

\* The steps of the saver on upserts.
LEMMA SaverUpsertsTypes ==
  ASSUME TypeOK, SaverUpserts
  PROVE  TypeOK'
<1> DEFINE Kept == UNCHANGED <<iterateVars, counters, destroyed, clientVars, history>>
<1>1. Kept
  BY DEF SaverUpserts
<1>2. \A S : <<>> \in Seq(S)
  OBVIOUS
<1>3. CASE SaverTakeUpserts
  BY <1>1, <1>2, <1>3, TypeFacts, PipelineTypes
     DEF SaverTakeUpserts, tickVars, counters, history
<1>4. CASE SaverStoreRecord
  <2>1. PICK i \in Idx : /\ StoreRecord(Head(tasks).forms[i].form, Head(tasks).forms[i].ver)
                         /\ NextRecord(i) /\ cursor' = i + 1
    BY <1>4 DEF SaverStoreRecord
  <2>2. Head(tasks) \in Task
    BY <1>4, TypeFacts, HeadTailProperties DEF SaverStoreRecord, Upserting
  <2>3. Head(tasks).forms[i] \in Entry
    BY <2>1, <2>2, TaskFacts DEF NextRecord
  <2>4. Head(tasks).forms[i].form \in FormId /\ Head(tasks).forms[i].ver \in Stored
    BY <2>3, TaskFacts DEF Stored
  <2>5. db' \in [FormId -> Stored]
    BY <2>1, <2>4, TypeFacts DEF StoreRecord
  <2>6. cursor' \in 0..NumIdx
    BY <2>1, TaskFacts DEF Idx
  <2> QED BY <1>1, <1>4, <2>5, <2>6, TypeFacts, PipelineTypes
             DEF SaverStoreRecord, shareVars, tickVars, counters, history
<1>5. CASE SaverUpsertSucceeds
  <2>1. Head(tasks) \in Task /\ Tail(tasks) \in Seq(Task)
    BY <1>5, TypeFacts, HeadTailProperties DEF SaverUpsertSucceeds, Upserting
  <2>2. okTasks' \in Seq(Task) /\ tasks' \in Seq(Task)
    BY <1>5, <2>1, TypeFacts DEF SaverUpsertSucceeds
  <2>3. cursor' \in 0..NumIdx
    BY <1>5, TaskFacts DEF SaverUpsertSucceeds
  <2> QED BY <1>1, <1>5, <2>2, <2>3, TypeFacts, PipelineTypes
             DEF SaverUpsertSucceeds, shareVars, tickVars, counters, history
<1>6. CASE SaverUpsertFails
  <2>1. Head(tasks) \in Task /\ Tail(tasks) \in Seq(Task)
    BY <1>6, TypeFacts, HeadTailProperties DEF SaverUpsertFails, Upserting
  <2>2. failedTasks' \in Seq(Task) /\ tasks' \in Seq(Task)
    BY <1>6, <2>1, TypeFacts DEF SaverUpsertFails
  <2>3. cursor' \in 0..NumIdx
    BY <1>6, TaskFacts DEF SaverUpsertFails
  <2>4. db' \in [FormId -> Stored]
    <3>1. CASE RejectRecord
      BY <3>1, TypeFacts DEF RejectRecord
    <3>2. CASE \E i \in Idx : NextRecord(i) /\ TruncateRecord(Head(tasks).forms[i].form)
      BY <3>2, TypeFacts DEF TruncateRecord, Stored
    <3> QED BY <1>6, <3>1, <3>2 DEF SaverUpsertFails
  <2> QED BY <1>1, <1>6, <2>2, <2>3, <2>4, TypeFacts, PipelineTypes
             DEF SaverUpsertFails, shareVars, tickVars, counters, history
<1>7. CASE SaverPublishCallbacks
  <2> DEFINE back == [n \in 1..Len(okTasks) |-> Recycled(okTasks[n].forms)]
  <2>1. \A n \in 1..Len(okTasks) : Recycled(okTasks[n].forms) \in Buffer
    <3>1. ASSUME NEW n \in 1..Len(okTasks) PROVE Recycled(okTasks[n].forms) \in Buffer
      <4>1. okTasks[n] \in Task
        BY TypeFacts, ElementOfSeq
      <4>2. okTasks[n].forms \in [Idx -> Entry \cup {NoChange}]
        BY <4>1, TaskFacts DEF Buffer
      <4> QED BY <4>2 DEF Recycled, Buffer
    <3> QED BY <3>1
  <2>2. back \in Seq(Buffer)
    BY <2>1, TypeFacts
  <2> HIDE DEF back
  <2>3. upsertCallbacksToFire' \in Seq(Task) /\ recycledBuffers' \in Seq(Buffer)
    BY <1>7, <2>2, TypeFacts, ConcatProperties DEF SaverPublishCallbacks, back
  <2> QED BY <1>1, <1>2, <1>7, <2>3, TypeFacts, PipelineTypes
             DEF SaverPublishCallbacks, tickVars, counters, history
<1>8. CASE SaverPublishExceptions("takeIterates")
  <2>1. exceptions' = exceptions \o Failures(failedTasks)
    BY <1>8 DEF SaverPublishExceptions, Failures
  <2>2. exceptions' \in Seq(Error)
    BY <2>1, FailuresFacts, TypeFacts, ConcatProperties
  <2> QED BY <1>1, <1>2, <1>8, <2>2, TypeFacts, PipelineTypes
             DEF SaverPublishExceptions, tickVars, counters, history
<1> QED BY <1>3, <1>4, <1>5, <1>6, <1>7, <1>8 DEF SaverUpserts

\* The steps of Tick on upserts and their outcomes.
LEMMA TickTypes ==
  ASSUME TypeOK,
         \/ Rethrow \/ StartTick \/ TakeUpsertCallbacks \/ CallUpsertCallback
         \/ UpsertCallbackThrows \/ UpsertCallbacksDone
  PROVE  TypeOK'
<1>1. \A S : <<>> \in Seq(S)
  OBVIOUS
<1>2. CASE Rethrow
  <2>1. exceptions # <<>> /\ exceptions' = Tail(exceptions)
    BY <1>2 DEF Rethrow, TickRethrow
  <2>2. exceptions' \in Seq(Error) /\ Head(exceptions) \in Error
    BY <2>1, TypeFacts, HeadTailProperties
  <2>3. Head(exceptions).kind = "upsert" => Head(exceptions).task.callback \in Callback
    BY <2>2, TaskFacts DEF Error
  <2>4. raised' \in Seq(Callback)
    BY <1>2, <2>3, TypeFacts DEF Rethrow
  <2> QED BY <1>2, <2>2, <2>4, TypeFacts, PipelineTypes
             DEF Rethrow, TickRethrow, saverVars, counters
<1>3. CASE StartTick
  BY <1>3, TypeFacts, PipelineTypes
     DEF StartTick, TickNoException, shareVars, saverVars, counters, history
<1>4. CASE TakeUpsertCallbacks
  <2>1. prepared' \in Seq(Task)
    BY <1>4, TypeFacts, ConcatProperties DEF TakeUpsertCallbacks, TickTakeUpsertCallbacks
  <2> QED BY <1>1, <1>4, <2>1, TypeFacts, PipelineTypes
             DEF TakeUpsertCallbacks, TickTakeUpsertCallbacks, saverVars, counters, history
<1>5. ASSUME FiringUpsert, prepared' = Tail(prepared), fired' = Append(fired, Head(prepared).callback),
             acked' = AckedBy(Head(prepared))
      PROVE  /\ prepared' \in Seq(Task) /\ Head(prepared).callback \in Callback
             /\ fired' \in Seq(Callback) /\ acked' \in [FormId -> Nat]
  <2>1. Head(prepared) \in Task /\ prepared' \in Seq(Task)
    BY <1>5, TypeFacts, HeadTailProperties DEF FiringUpsert
  <2>2. Head(prepared).callback \in Callback /\ Head(prepared).callback \in Nat
    BY <2>1, TaskFacts, ClientAssumption
  <2>3. acked' \in [FormId -> Nat]
    BY <1>5, <2>2, TypeFacts DEF AckedBy
  <2> QED BY <1>5, <2>1, <2>2, <2>3, TypeFacts
<1>6. CASE CallUpsertCallback
  <2>1. /\ FiringUpsert /\ prepared' = Tail(prepared)
        /\ fired' = Append(fired, Head(prepared).callback) /\ acked' = AckedBy(Head(prepared))
    BY <1>6 DEF CallUpsertCallback, TickFireUpsertCallback
  <2>2. numFinishedUpserts' \in Nat
    BY <1>6, TypeFacts DEF CallUpsertCallback
  <2> QED BY <1>5, <1>6, <2>1, <2>2, TypeFacts, PipelineTypes
             DEF CallUpsertCallback, TickFireUpsertCallback, shareVars, saverVars
<1>7. CASE UpsertCallbackThrows
  <2>1. /\ FiringUpsert /\ prepared' = Tail(prepared)
        /\ fired' = Append(fired, Head(prepared).callback) /\ acked' = AckedBy(Head(prepared))
    BY <1>7 DEF UpsertCallbackThrows, TickUpsertCallbackThrows
  <2>2. thrown' \subseteq Callback
    BY <1>5, <1>7, <2>1, TypeFacts DEF UpsertCallbackThrows
  <2> QED BY <1>5, <1>7, <2>1, <2>2, TypeFacts, PipelineTypes
             DEF UpsertCallbackThrows, TickUpsertCallbackThrows, shareVars, saverVars, counters
<1>8. CASE UpsertCallbacksDone
  BY <1>8, TypeFacts, PipelineTypes
     DEF UpsertCallbacksDone, TickUpsertCallbacksDone, shareVars, saverVars, counters, history
<1> QED BY <1>2, <1>3, <1>4, <1>6, <1>7, <1>8

\* The requests, the destructor and everything on iterates.
LEMMA IterateTypeFacts ==
  ASSUME TypeOK
  PROVE  /\ iterateTasks \in Seq(IterateTask) /\ iterateCallbacksToFire \in Seq(IterateResult)
         /\ iterating \in Seq(IterateTask) /\ iterateOk \in Seq(IterateResult)
         /\ iterateFailed \in Seq(IterateTask) /\ preparedIterates \in Seq(IterateResult)
         /\ numFinishedIterates \in Nat /\ destroyed \in BOOLEAN
         /\ requested \in 0..MaxUpserts /\ requestedIterates \in 0..MaxIterates
         /\ iterated \in Seq(IterateResult)
BY DEF TypeOK

LEMMA IterateTypes ==
  ASSUME TypeOK,
         UNCHANGED <<db, upsertCallbacksToFire, tasks, cursor, okTasks, failedTasks, prepared>>,
         UNCHANGED <<numFinishedUpserts, fired, thrown, raised, acked>>,
         upsertTasks' \in Seq(Task), exceptions' \in Seq(Error), recycledBuffers' \in Seq(Buffer),
         saverPc' \in {"takeUpserts", "upserting", "publishExceptions",
                       "takeIterates", "iterating", "stopped"},
         tickPc' \in {"outside", "takeUpserts", "fireUpserts", "takeIterates", "fireIterates"},
         iterateTasks' \in Seq(IterateTask), iterateCallbacksToFire' \in Seq(IterateResult),
         iterating' \in Seq(IterateTask), iterateOk' \in Seq(IterateResult),
         iterateFailed' \in Seq(IterateTask), preparedIterates' \in Seq(IterateResult),
         numFinishedIterates' \in Nat, destroyed' \in BOOLEAN,
         requested' \in 0..MaxUpserts, requestedIterates' \in 0..MaxIterates,
         iterated' \in Seq(IterateResult)
  PROVE  TypeOK'
BY DEF TypeOK, PipelineTypeOK, DbTypeOK, Error

LEMMA ClientTypes ==
  ASSUME TypeOK, RequestUpsert \/ RequestIterate \/ TakeRecycledBuffer \/ Destroy
  PROVE  TypeOK'
<1>1. MaxUpserts \in Nat /\ MaxIterates \in Nat /\ Callback = 1..MaxUpserts
  BY ClientAssumption
<1>2. CASE RequestUpsert
  <2>1. PICK S \in SUBSET FormId : Upsert(BufferOf(S, requested + 1), requested + 1)
    BY <1>2 DEF RequestUpsert
  <2>2. requested + 1 \in Callback /\ requested' \in 0..MaxUpserts
    BY <1>1, <1>2, IterateTypeFacts DEF RequestUpsert
  <2>3. upsertTasks' \in Seq(Task)
    BY <2>1, <2>2, BufferOfFacts, TypeFacts DEF Upsert
  <2> QED BY <1>2, <2>2, <2>3, TypeFacts, IterateTypeFacts, IterateTypes
             DEF RequestUpsert, saverVars, tickVars, iterateVars, counters, history
<1>3. CASE RequestIterate
  <2>1. requestedIterates + 1 \in 1..MaxIterates /\ requestedIterates' \in 0..MaxIterates
    BY <1>1, <1>3, IterateTypeFacts DEF RequestIterate
  <2>2. iterateTasks' \in Seq(IterateTask)
    <3>1. [id |-> requestedIterates + 1, floor |-> acked] \in IterateTask
      BY <2>1, TypeFacts DEF IterateTask
    <3> QED BY <1>3, <3>1, IterateTypeFacts DEF RequestIterate
  <2> QED BY <1>3, <2>1, <2>2, TypeFacts, IterateTypeFacts, IterateTypes
             DEF RequestIterate, pipelineVars, shareVars, saverVars, tickVars, counters, history
<1>4. CASE TakeRecycledBuffer
  <2>1. recycledBuffers' \in Seq(Buffer)
    BY <1>4, TypeFacts, HeadTailProperties DEF TakeRecycledBuffer, GetRecycledChangeFormsBuffer
  <2> QED BY <1>4, <2>1, TypeFacts, IterateTypeFacts, IterateTypes
             DEF TakeRecycledBuffer, saverVars, tickVars, iterateVars, counters, clientVars, history
<1>5. CASE Destroy
  BY <1>5, TypeFacts, IterateTypeFacts, IterateTypes
     DEF Destroy, pipelineVars, shareVars, saverVars, tickVars, iterateVars, counters, clientVars, history
<1> QED BY <1>2, <1>3, <1>4, <1>5

LEMMA IterateStepTypes ==
  ASSUME TypeOK,
         \/ TakeIterateCallbacks \/ CallIterateCallback \/ TickReturns
         \/ SaverTakeIterates \/ SaverIterate \/ SaverPublishIterates \/ SaverLoops
  PROVE  TypeOK'
<1>1. \A S : <<>> \in Seq(S)
  OBVIOUS
<1>2. CASE TakeIterateCallbacks
  <2>1. preparedIterates' \in Seq(IterateResult)
    BY <1>2, IterateTypeFacts, ConcatProperties DEF TakeIterateCallbacks
  <2> QED BY <1>1, <1>2, <2>1, TypeFacts, IterateTypeFacts, IterateTypes
             DEF TakeIterateCallbacks, shareVars, saverVars, counters, clientVars, history
<1>3. CASE CallIterateCallback
  <2>1. Head(preparedIterates) \in IterateResult /\ preparedIterates' \in Seq(IterateResult)
    BY <1>3, IterateTypeFacts, HeadTailProperties DEF CallIterateCallback
  <2>2. iterated' \in Seq(IterateResult)
    BY <1>3, <2>1, IterateTypeFacts DEF CallIterateCallback
  <2>3. /\ numFinishedIterates' \in Nat
        /\ tickPc' \in {"outside", "takeUpserts", "fireUpserts", "takeIterates", "fireIterates"}
    <3>1. \/ numFinishedIterates' = numFinishedIterates + 1 /\ tickPc' = tickPc
          \/ tickPc' = "outside" /\ numFinishedIterates' = numFinishedIterates
      BY <1>3 DEF CallIterateCallback
    <3>2. numFinishedIterates \in Nat
      BY IterateTypeFacts
    <3>3. tickPc \in {"outside", "takeUpserts", "fireUpserts", "takeIterates", "fireIterates"}
      BY TypeFacts
    <3> QED BY <3>1, <3>2, <3>3
  <2> QED BY <1>3, <2>1, <2>2, <2>3, TypeFacts, IterateTypeFacts, IterateTypes
             DEF CallIterateCallback, shareVars, saverVars, clientVars
<1>4. CASE TickReturns
  BY <1>4, TypeFacts, IterateTypeFacts, IterateTypes
     DEF TickReturns, shareVars, saverVars, iterateVars, counters, clientVars, history
<1>5. CASE SaverTakeIterates
  BY <1>1, <1>5, TypeFacts, IterateTypeFacts, IterateTypes
     DEF SaverTakeIterates, shareVars, tickVars, counters, clientVars, history
<1>6. CASE SaverIterate
  <2>1. Head(iterating) \in IterateTask /\ iterating' \in Seq(IterateTask)
    BY <1>6, IterateTypeFacts, HeadTailProperties DEF SaverIterate
  <2>2. [task |-> Head(iterating), view |-> db] \in IterateResult
    BY <2>1, TypeFacts DEF IterateResult
  <2>3. iterateOk' \in Seq(IterateResult) /\ iterateFailed' \in Seq(IterateTask)
    <3>1. /\ iterateOk' = Append(iterateOk, [task |-> Head(iterating), view |-> db])
             \/ iterateOk' = iterateOk
          /\ iterateFailed' = Append(iterateFailed, Head(iterating)) \/ iterateFailed' = iterateFailed
      BY <1>6 DEF SaverIterate
    <3>2. /\ Append(iterateOk, [task |-> Head(iterating), view |-> db]) \in Seq(IterateResult)
          /\ Append(iterateFailed, Head(iterating)) \in Seq(IterateTask)
      BY <2>1, <2>2, IterateTypeFacts
    <3> QED BY <3>1, <3>2, IterateTypeFacts
  <2> QED BY <1>6, <2>1, <2>3, TypeFacts, IterateTypeFacts, IterateTypes
             DEF SaverIterate, pipelineVars, shareVars, saverVars, tickVars, counters, clientVars, history
<1>7. CASE SaverPublishIterates
  <2>1. iterateCallbacksToFire' \in Seq(IterateResult)
    BY <1>7, IterateTypeFacts, ConcatProperties DEF SaverPublishIterates
  <2> QED BY <1>1, <1>7, <2>1, TypeFacts, IterateTypeFacts, IterateTypes
             DEF SaverPublishIterates, pipelineVars, shareVars, saverVars, tickVars, counters,
                 clientVars, history
<1>8. CASE SaverLoops
  <2> DEFINE failed == [n \in 1..Len(iterateFailed) |-> IterateFailed(iterateFailed[n])]
  <2>1. \A n \in 1..Len(iterateFailed) : IterateFailed(iterateFailed[n]) \in Error
    BY IterateTypeFacts, ElementOfSeq DEF IterateFailed, Error
  <2>2. failed \in Seq(Error)
    BY <2>1, IterateTypeFacts
  <2>3. exceptions' = exceptions \o failed
    BY <1>8 DEF SaverLoops
  <2> HIDE DEF failed
  <2>4. exceptions' \in Seq(Error)
    BY <2>2, <2>3, TypeFacts, ConcatProperties
  <2> QED BY <1>1, <1>8, <2>4, TypeFacts, IterateTypeFacts, IterateTypes
             DEF SaverLoops, tickVars, counters, clientVars, history
<1> QED BY <1>2, <1>3, <1>4, <1>5, <1>6, <1>7, <1>8

LEMMA NextTypes == TypeOK /\ [Next]_vars => TypeOK'
<1> SUFFICES ASSUME TypeOK, [Next]_vars PROVE TypeOK'
  OBVIOUS
<1>1. CASE UNCHANGED vars
  BY <1>1, TypeFacts, IterateTypeFacts, IterateTypes
     DEF vars, pipelineVars, shareVars, saverVars, tickVars, iterateVars, counters, clientVars, history
<1>2. CASE MainStep
  BY <1>2, TickTypes, ClientTypes, IterateStepTypes DEF MainStep
<1>3. CASE SaverStep
  BY <1>3, SaverUpsertsTypes, IterateStepTypes DEF SaverStep
<1> QED BY <1>1, <1>2, <1>3 DEF Next

-----------------------------------------------------------------------------
(* The other conjuncts of the invariant.                                    *)

\* Steps that leave the database and the batches alone.
LEMMA SameBatches ==
  ASSUME IInv, UNCHANGED <<db, upsertTasks, tasks, cursor, okTasks, failedTasks>>,
         saverPc' = saverPc \/ (saverPc # "upserting" /\ saverPc # "publishExceptions"
                                /\ saverPc' \notin {"upserting", "publishExceptions"})
  PROVE  SectionsEnd' /\ BatchesSeparate' /\ PrefixWritten'
<1>1. SectionsEnd'
  BY DEF IInv, SectionsEnd
<1>2. BatchesSeparate'
  BY DEF IInv, BatchesSeparate, Separate
<1>3. PrefixWritten'
  BY DEF IInv, PrefixWritten
<1> QED BY <1>1, <1>2, <1>3

LEMMA TailSeparate ==
  ASSUME NEW q \in Seq(Task), q # <<>>, \A n \in 1..Len(q) : Separate(q[n])
  PROVE  Separate(Head(q)) /\ \A n \in 1..Len(Tail(q)) : Separate(Tail(q)[n])
<1>1. /\ Len(Tail(q)) = Len(q) - 1 /\ Len(q) \in Nat \ {0}
      /\ \A n \in 1..Len(Tail(q)) : Tail(q)[n] = q[n + 1]
  BY HeadTailProperties, EmptySeq
<1>2. Head(q) = q[1] /\ 1 \in 1..Len(q)
  BY <1>1
<1>3. \A n \in 1..Len(Tail(q)) : n + 1 \in 1..Len(q)
  BY <1>1
<1> QED BY <1>1, <1>2, <1>3

\* The write of a record leaves what was written before: its form is at no other index.
LEMMA StoreWritesPrefix ==
  ASSUME IInv, SaverStoreRecord
  PROVE  PrefixWritten'
<1>1. PICK i \in Idx : /\ NextRecord(i) /\ cursor' = i + 1
                       /\ StoreRecord(Head(tasks).forms[i].form, Head(tasks).forms[i].ver)
  BY DEF SaverStoreRecord
<1>2. tasks # <<>> /\ tasks' = tasks /\ TypeOK
  BY DEF SaverStoreRecord, Upserting, IInv
<1> DEFINE forms == Head(tasks).forms
<1>3. Head(tasks) \in Task /\ Separate(Head(tasks))
  BY <1>2, TypeFacts, HeadTailProperties, TailSeparate DEF IInv, BatchesSeparate
<1>4. \A j \in Idx : forms[j] # NoChange => forms[j].form = j + 1 /\ forms[j].form \in FormId
  BY <1>3, TaskFacts DEF Separate
<1>5. \A j \in Idx : j < cursor /\ forms[j] # NoChange => db[forms[j].form] = forms[j].ver
  BY <1>2 DEF IInv, PrefixWritten
<1>6. db' = [db EXCEPT ![i + 1] = forms[i].ver] /\ forms[i] # NoChange
  BY <1>1, <1>4 DEF NextRecord, StoreRecord
<1>7. \A j \in Idx : cursor <= j /\ j < i => forms[j] = NoChange
  BY <1>1 DEF NextRecord
<1> HIDE DEF forms
<1>8. ASSUME NEW j \in Idx, j < i + 1, forms[j] # NoChange PROVE db'[forms[j].form] = forms[j].ver
  <2>1. db \in [FormId -> Stored] /\ cursor \in Nat /\ j \in Nat /\ i \in Nat
    BY <1>2, TypeFacts, TaskFacts
  <2>2. CASE j = i
    BY <1>4, <1>6, <1>8, <2>1, <2>2
  <2>3. CASE j # i
    <3>1. j < i /\ j < cursor
      BY <1>7, <1>8, <2>1, <2>3
    <3>2. forms[j].form = j + 1 /\ j + 1 # i + 1
      BY <1>4, <1>8, <2>1, <2>3
    <3> QED BY <1>4, <1>5, <1>6, <1>8, <2>1, <3>1, <3>2
  <2> QED BY <2>2, <2>3
<1> QED BY <1>1, <1>2, <1>8 DEF PrefixWritten, forms

LEMMA SaverUpsertsInv ==
  ASSUME IInv, SaverUpserts
  PROVE  SectionsEnd' /\ BatchesSeparate' /\ PrefixWritten'
<1>1. SectionsEnd /\ BatchesSeparate /\ PrefixWritten /\ TypeOK
  BY DEF IInv
<1>2. CASE SaverTakeUpserts
  <2>1. tasks = <<>> /\ cursor = 0 /\ okTasks = <<>> /\ failedTasks = <<>>
    BY <1>1, <1>2 DEF SaverTakeUpserts, SectionsEnd
  <2>2. tasks' = upsertTasks /\ upsertTasks' = <<>> /\ cursor' = 0 /\ saverPc' = "upserting"
    BY <1>2, <2>1 DEF SaverTakeUpserts
  <2>3. SectionsEnd'
    BY <2>2 DEF SectionsEnd
  <2>4. BatchesSeparate'
    BY <1>1, <2>2 DEF BatchesSeparate, Separate
  <2>5. PrefixWritten'
    <3>1. \A i \in Idx : ~(i < 0)
      BY TaskFacts
    <3> QED BY <2>2, <3>1 DEF PrefixWritten
  <2> QED BY <2>3, <2>4, <2>5
<1>3. CASE SaverStoreRecord
  <2>1. UNCHANGED <<upsertTasks, tasks, saverPc, okTasks, failedTasks>> /\ tasks # <<>>
    BY <1>3 DEF SaverStoreRecord, Upserting, shareVars
  <2>2. SectionsEnd'
    BY <1>1, <2>1 DEF SectionsEnd
  <2>3. BatchesSeparate'
    BY <1>1, <2>1 DEF BatchesSeparate, Separate
  <2> QED BY <1>3, <2>2, <2>3, StoreWritesPrefix
<1>4. CASE SaverUpsertSucceeds \/ SaverUpsertFails
  <2>1. /\ tasks # <<>> /\ tasks' = Tail(tasks) /\ cursor' = 0 /\ upsertTasks' = upsertTasks
        /\ saverPc = "upserting" /\ saverPc' = "upserting"
    BY <1>4 DEF SaverUpsertSucceeds, SaverUpsertFails, Upserting, shareVars
  <2>2. SectionsEnd'
    BY <2>1 DEF SectionsEnd
  <2>3. BatchesSeparate'
    BY <1>1, <2>1, TailSeparate, TypeFacts DEF BatchesSeparate, Separate
  <2>4. PrefixWritten'
    <3>1. \A i \in Idx : ~(i < 0)
      BY TaskFacts
    <3> QED BY <2>1, <3>1 DEF PrefixWritten
  <2> QED BY <2>2, <2>3, <2>4
<1>5. CASE SaverPublishCallbacks
  <2>1. /\ tasks = <<>> /\ tasks' = <<>> /\ cursor' = cursor /\ upsertTasks' = upsertTasks
        /\ okTasks' = <<>> /\ saverPc' = "publishExceptions"
    BY <1>5 DEF SaverPublishCallbacks
  <2>2. SectionsEnd'
    BY <1>1, <2>1 DEF SectionsEnd
  <2>3. BatchesSeparate'
    BY <1>1, <2>1 DEF BatchesSeparate, Separate
  <2> QED BY <2>1, <2>2, <2>3 DEF PrefixWritten
<1>6. CASE SaverPublishExceptions("takeIterates")
  <2>1. /\ tasks' = tasks /\ cursor' = cursor /\ upsertTasks' = upsertTasks /\ okTasks' = okTasks
        /\ failedTasks' = <<>> /\ saverPc = "publishExceptions" /\ saverPc' = "takeIterates"
    BY <1>6 DEF SaverPublishExceptions
  <2>2. SectionsEnd' /\ tasks = <<>>
    BY <1>1, <2>1 DEF SectionsEnd
  <2>3. BatchesSeparate'
    BY <1>1, <2>1 DEF BatchesSeparate, Separate
  <2> QED BY <2>1, <2>2, <2>3 DEF PrefixWritten
<1> QED BY <1>2, <1>3, <1>4, <1>5, <1>6 DEF SaverUpserts

LEMMA NextIInv == IInv /\ [Next]_vars => IInv'
<1> SUFFICES ASSUME IInv, [Next]_vars PROVE IInv'
  OBVIOUS
<1> DEFINE Rest == SectionsEnd' /\ BatchesSeparate' /\ PrefixWritten'
<1>1. TypeOK'
  BY NextTypes DEF IInv
<1>2. CASE UNCHANGED vars
  <2>1. UNCHANGED <<db, upsertTasks, tasks, cursor, okTasks, failedTasks, saverPc>>
    BY <1>2 DEF vars, pipelineVars, shareVars, saverVars
  <2>2. Rest
    BY <2>1, SameBatches
  <2> QED BY <1>1, <2>2 DEF IInv
<1>3. ASSUME RequestUpsert PROVE Rest
  <2>1. PICK S \in SUBSET FormId : Upsert(BufferOf(S, requested + 1), requested + 1)
    BY <1>3 DEF RequestUpsert
  <2>2. requested + 1 \in Callback /\ upsertTasks \in Seq(Task)
    <3>1. TypeOK
      BY DEF IInv
    <3>2. requested \in 0..MaxUpserts /\ upsertTasks \in Seq(Task)
      BY <3>1, TypeFacts, IterateTypeFacts
    <3>3. requested < MaxUpserts
      BY <1>3 DEF RequestUpsert
    <3> QED BY <3>2, <3>3, ClientAssumption
  <2> DEFINE t == [forms |-> BufferOf(S, requested + 1), callback |-> requested + 1]
  <2>3. t \in Task /\ Separate(t)
    BY <2>2, BufferOfFacts
  <2>4. upsertTasks' = Append(upsertTasks, t)
    BY <2>1 DEF Upsert
  <2>5. UNCHANGED <<db, saverPc, tasks, cursor, okTasks, failedTasks>>
    BY <1>3 DEF RequestUpsert, saverVars
  <2> HIDE DEF t
  <2>6. /\ Len(upsertTasks') = Len(upsertTasks) + 1 /\ Len(upsertTasks) \in Nat
        /\ \A n \in 1..(Len(upsertTasks) + 1) :
             upsertTasks'[n] = IF n <= Len(upsertTasks) THEN upsertTasks[n] ELSE t
    BY <2>2, <2>3, <2>4
  <2>7. \A n \in 1..Len(upsertTasks) : Separate(upsertTasks[n])
    BY DEF IInv, BatchesSeparate
  <2>8. \A n \in 1..Len(upsertTasks') : Separate(upsertTasks'[n])
    BY <2>3, <2>6, <2>7
  <2>9. BatchesSeparate'
    BY <2>5, <2>8 DEF IInv, BatchesSeparate, Separate
  <2>10. SectionsEnd' /\ PrefixWritten'
    BY <2>5 DEF IInv, SectionsEnd, PrefixWritten
  <2> QED BY <2>9, <2>10
<1>4. ASSUME RequestIterate \/ TakeRecycledBuffer \/ Destroy PROVE Rest
  BY <1>4, SameBatches
     DEF RequestIterate, TakeRecycledBuffer, GetRecycledChangeFormsBuffer, Destroy,
         pipelineVars, shareVars, saverVars
<1>5. ASSUME Rethrow \/ StartTick \/ TakeUpsertCallbacks PROVE Rest
  BY <1>5, SameBatches
     DEF Rethrow, TickRethrow, StartTick, TickNoException, TakeUpsertCallbacks,
         TickTakeUpsertCallbacks, shareVars, saverVars
<1>6. ASSUME CallUpsertCallback \/ UpsertCallbackThrows \/ UpsertCallbacksDone PROVE Rest
  BY <1>6, SameBatches
     DEF CallUpsertCallback, TickFireUpsertCallback, UpsertCallbackThrows, TickUpsertCallbackThrows,
         UpsertCallbacksDone, TickUpsertCallbacksDone, shareVars, saverVars
<1>7. ASSUME TakeIterateCallbacks \/ CallIterateCallback \/ TickReturns PROVE Rest
  BY <1>7, SameBatches
     DEF TakeIterateCallbacks, CallIterateCallback, TickReturns, shareVars, saverVars
<1>8. ASSUME SaverTakeIterates \/ SaverLoops PROVE Rest
  BY <1>8, SameBatches DEF SaverTakeIterates, SaverLoops, shareVars
<1>9. ASSUME SaverIterate \/ SaverPublishIterates PROVE Rest
  BY <1>9, SameBatches DEF SaverIterate, SaverPublishIterates, pipelineVars, shareVars, saverVars
<1>10. ASSUME MainStep PROVE Rest
  BY <1>3, <1>4, <1>5, <1>6, <1>7, <1>10 DEF MainStep
<1>11. ASSUME SaverStep PROVE Rest
  BY <1>8, <1>9, <1>11, SaverUpsertsInv DEF SaverStep
<1>12. CASE Next
  BY <1>1, <1>10, <1>11, <1>12 DEF IInv, Next
<1> QED BY <1>2, <1>12

LEMMA IInvHolds == Spec => []IInv
<1> QED BY InitIInv, NextIInv, PTL DEF Spec

-----------------------------------------------------------------------------
(* The refinement.                                                          *)

LEMMA QueueFacts ==
  ASSUME TypeOK
  PROVE  /\ Pending \in Seq(Task) /\ Acks \in Seq(Task) /\ Errors \in Seq(Error)
         /\ prepared \o upsertCallbacksToFire \in Seq(Task)
         /\ Failures(failedTasks) \in Seq(Error)
<1>1. /\ tasks \in Seq(Task) /\ upsertTasks \in Seq(Task) /\ prepared \in Seq(Task)
      /\ upsertCallbacksToFire \in Seq(Task) /\ okTasks \in Seq(Task)
      /\ exceptions \in Seq(Error) /\ failedTasks \in Seq(Task)
  BY TypeFacts
<1>2. prepared \o upsertCallbacksToFire \in Seq(Task)
  BY <1>1, ConcatProperties
<1>3. Failures(failedTasks) \in Seq(Error)
  BY <1>1, FailuresFacts
<1> QED BY <1>1, <1>2, <1>3, ConcatProperties DEF Pending, Acks, Errors

\* A step the queue does not see.
LEMMA Unseen ==
  ASSUME UNCHANGED <<db, Pending, Acks, Errors>>
  PROVE  UNCHANGED Queue!vars
BY DEF Queue!vars, Pending, Acks, Errors

LEMMA RecordsOf ==
  ASSUME NEW t \in Task
  PROVE  Queue!Records(t) = {t.forms[i] : i \in Idx} \ {NoChange}
BY TaskFacts DEF Queue!Records, Buffer

\* The task the saver works on is the first one of the queue.
LEMMA CurrentIsFirst ==
  ASSUME TypeOK, tasks # <<>>
  PROVE  /\ Pending # <<>> /\ Head(Pending) = Head(tasks) /\ Head(tasks) \in Task
         /\ Tail(Pending) = Tail(tasks) \o upsertTasks
<1>1. tasks \in Seq(Task) /\ upsertTasks \in Seq(Task)
  BY TypeFacts
<1> QED BY <1>1, TailConcat, HeadTailProperties DEF Pending

LEMMA InitRefines == Init => Queue!Init
<1> SUFFICES ASSUME Init PROVE Queue!Init
  OBVIOUS
<1>1. Failures(<<>>) = <<>> /\ <<>> \o <<>> = <<>>
  BY FailuresFacts
<1> QED BY <1>1 DEF Init, PipelineInit, Queue!Init, Queue!FormId, FormId, Queue!Absent, Absent,
                Pending, Acks, Errors

\* A request joins the end of the queue.
LEMMA RequestAppends ==
  ASSUME TypeOK, RequestUpsert
  PROVE  /\ \E t \in Task : /\ Pending' = Append(Pending, t)
                            /\ t.callback = requested + 1
         /\ requested' = requested + 1
         /\ UNCHANGED <<db, Acks, Errors, fired, raised, acked>>
<1>1. PICK S \in SUBSET FormId : Upsert(BufferOf(S, requested + 1), requested + 1)
  BY DEF RequestUpsert
<1>2. requested + 1 \in Callback /\ upsertTasks \in Seq(Task) /\ tasks \in Seq(Task)
  <2>1. requested \in 0..MaxUpserts /\ upsertTasks \in Seq(Task) /\ tasks \in Seq(Task)
    BY TypeFacts, IterateTypeFacts
  <2>2. requested < MaxUpserts
    BY DEF RequestUpsert
  <2> QED BY <2>1, <2>2, ClientAssumption
<1> DEFINE t == [forms |-> BufferOf(S, requested + 1), callback |-> requested + 1]
<1>3. t \in Task /\ t.callback = requested + 1
  BY <1>2, BufferOfFacts
<1>4. upsertTasks' = Append(upsertTasks, t)
  BY <1>1 DEF Upsert
<1> HIDE DEF t
<1>5. Pending' = Append(Pending, t)
  <2>1. tasks' = tasks
    BY DEF RequestUpsert, saverVars
  <2>2. tasks \o Append(upsertTasks, t) = Append(tasks \o upsertTasks, t)
    BY <1>2, <1>3, StorageSequences, Zenon
  <2>3. Pending' = tasks \o Append(upsertTasks, t)
    BY <1>4, <2>1 DEF Pending
  <2>4. Append(tasks \o upsertTasks, t) = Append(Pending, t)
    BY DEF Pending
  <2> QED BY <2>2, <2>3, <2>4
<1>6. UNCHANGED <<db, Acks, Errors, fired, raised, acked>> /\ requested' = requested + 1
  BY DEF RequestUpsert, saverVars, tickVars, history, Acks, Errors
<1> QED BY <1>3, <1>5, <1>6

LEMMA RequestRefines ==
  ASSUME TypeOK, RequestUpsert
  PROVE  Queue!Request
<1>1. PICK t \in Task : Pending' = Append(Pending, t)
  BY RequestAppends
<1>2. Pending' # <<>> /\ Pending'[Len(Pending')] = t
  <2>1. Pending \in Seq(Task)
    BY QueueFacts
  <2>2. ASSUME NEW q \in Seq(Task)
        PROVE  Append(q, t) # <<>> /\ Append(q, t)[Len(Append(q, t))] = t
    <3>1. /\ Len(q) \in Nat /\ Len(Append(q, t)) = Len(q) + 1
          /\ Append(q, t)[Len(q) + 1] = t
      OBVIOUS
    <3>2. Append(q, t) # <<>>
      BY <3>1, EmptySeq
    <3> QED BY <3>1, <3>2
  <2> QED BY <1>1, <2>1, <2>2, Zenon
<1>3. t \in Queue!Task
  BY DEF Queue!Task, Queue!Entry, Queue!FormId, Task, Buffer, Idx, Entry, FormId
<1> QED BY <1>1, <1>2, <1>3, RequestAppends DEF Queue!Request, Pending, Acks, Errors

LEMMA StoreRefines ==
  ASSUME TypeOK, SaverStoreRecord
  PROVE  Queue!Store
<1>1. PICK i \in Idx : /\ NextRecord(i)
                       /\ StoreRecord(Head(tasks).forms[i].form, Head(tasks).forms[i].ver)
  BY DEF SaverStoreRecord
<1>2. tasks # <<>>
  BY DEF SaverStoreRecord, Upserting
<1>3. Head(tasks).forms[i] \in Queue!Records(Head(Pending))
  BY <1>1, <1>2, CurrentIsFirst, RecordsOf DEF NextRecord
<1>4. Queue!StoreRecord(Head(tasks).forms[i].form, Head(tasks).forms[i].ver)
  BY <1>1 DEF StoreRecord, Queue!StoreRecord
<1>5. UNCHANGED <<Pending, Acks, Errors>>
  BY DEF SaverStoreRecord, shareVars, tickVars, Pending, Acks, Errors
<1> QED BY <1>2, <1>3, <1>4, <1>5, CurrentIsFirst DEF Queue!Store, Pending, Acks, Errors

LEMMA SucceedRefines ==
  ASSUME IInv, SaverUpsertSucceeds
  PROVE  Queue!Succeed
<1>1. TypeOK /\ tasks # <<>>
  BY DEF IInv, SaverUpsertSucceeds, Upserting
<1>2. /\ Pending # <<>> /\ Head(Pending) = Head(tasks) /\ Head(tasks) \in Task
      /\ Tail(Pending) = Tail(tasks) \o upsertTasks
  BY <1>1, CurrentIsFirst
<1>3. ASSUME NEW r \in Queue!Records(Head(tasks)) PROVE db[r.form] = r.ver
  <2>1. PICK i \in Idx : r = Head(tasks).forms[i] /\ r # NoChange
    BY <1>2, RecordsOf
  <2>2. i \in Nat /\ cursor \in Nat
    BY <1>1, TypeFacts, TaskFacts
  <2>3. i < cursor
    BY <2>1, <2>2 DEF SaverUpsertSucceeds, AllRecordsStored
  <2> QED BY <1>1, <2>1, <2>3 DEF IInv, PrefixWritten
<1>4. Pending' = Tail(Pending)
  BY <1>2 DEF SaverUpsertSucceeds, shareVars, Pending
<1>5. Acks' = Append(Acks, Head(Pending))
  <2>1. /\ okTasks' = Append(okTasks, Head(tasks)) /\ prepared' = prepared
        /\ upsertCallbacksToFire' = upsertCallbacksToFire
    BY DEF SaverUpsertSucceeds, shareVars, tickVars
  <2>2. okTasks \in Seq(Task)
    BY <1>1, TypeFacts
  <2>3. prepared \o upsertCallbacksToFire \in Seq(Task)
    BY <1>1, QueueFacts
  <2>4. (prepared \o upsertCallbacksToFire) \o Append(okTasks, Head(tasks))
          = Append((prepared \o upsertCallbacksToFire) \o okTasks, Head(tasks))
    BY <1>2, <2>2, <2>3, StorageSequences, Zenon
  <2> QED BY <1>2, <2>1, <2>4, Zenon DEF Acks
<1>6. UNCHANGED <<db, Errors>>
  BY DEF SaverUpsertSucceeds, shareVars, Errors
<1> QED BY <1>2, <1>3, <1>4, <1>5, <1>6 DEF Queue!Succeed, Pending, Acks, Errors

LEMMA FailRefines ==
  ASSUME TypeOK, SaverUpsertFails
  PROVE  Queue!Fail
<1>1. tasks # <<>>
  BY DEF SaverUpsertFails, Upserting
<1>2. /\ Pending # <<>> /\ Head(Pending) = Head(tasks) /\ Head(tasks) \in Task
      /\ Tail(Pending) = Tail(tasks) \o upsertTasks
  BY <1>1, CurrentIsFirst
<1>3. \/ Queue!RejectRecord
      \/ \E r \in Queue!Records(Head(Pending)) : Queue!TruncateRecord(r.form)
  <2>1. CASE RejectRecord
    BY <2>1 DEF RejectRecord, Queue!RejectRecord
  <2>2. ASSUME NEW i \in Idx, NextRecord(i), TruncateRecord(Head(tasks).forms[i].form)
        PROVE  \E r \in Queue!Records(Head(Pending)) : Queue!TruncateRecord(r.form)
    <3>1. Head(tasks).forms[i] \in Queue!Records(Head(Pending))
      BY <1>2, <2>2, RecordsOf DEF NextRecord
    <3>2. Queue!TruncateRecord(Head(tasks).forms[i].form)
      BY <2>2 DEF TruncateRecord, Queue!TruncateRecord, Corrupt, Queue!Corrupt
    <3> QED BY <3>1, <3>2
  <2> QED BY <2>1, <2>2 DEF SaverUpsertFails
<1>4. Pending' = Tail(Pending)
  BY <1>2 DEF SaverUpsertFails, shareVars, Pending
<1>5. Errors' = Append(Errors, UpsertFailed(Head(Pending)))
  <2>1. failedTasks' = Append(failedTasks, Head(tasks)) /\ exceptions' = exceptions
    BY DEF SaverUpsertFails, shareVars
  <2>2. failedTasks \in Seq(Task) /\ exceptions \in Seq(Error)
    BY TypeFacts
  <2>3. Failures(failedTasks') = Append(Failures(failedTasks), UpsertFailed(Head(tasks)))
    BY <1>2, <2>1, <2>2, FailuresFacts
  <2>4. UpsertFailed(Head(tasks)) \in Error
    BY <1>2 DEF UpsertFailed, Error
  <2>5. Errors' = exceptions \o Append(Failures(failedTasks), UpsertFailed(Head(tasks)))
    BY <2>1, <2>3 DEF Errors
  <2>6. Failures(failedTasks) \in Seq(Error)
    BY <2>2, FailuresFacts
  <2>7. exceptions \o Append(Failures(failedTasks), UpsertFailed(Head(tasks)))
          = Append(exceptions \o Failures(failedTasks), UpsertFailed(Head(tasks)))
    BY <2>2, <2>4, <2>6, StorageSequences, Zenon
  <2> QED BY <1>2, <2>5, <2>7, Zenon DEF Errors
<1>6. UNCHANGED Acks
  BY DEF SaverUpsertFails, shareVars, tickVars, Acks
<1>7. Queue!Failed(Head(Pending)) = UpsertFailed(Head(Pending))
  BY DEF Queue!Failed, UpsertFailed
<1> QED BY <1>2, <1>3, <1>4, <1>5, <1>6, <1>7 DEF Queue!Fail, Pending, Acks, Errors

LEMMA PublishUnseen ==
  ASSUME IInv, SaverTakeUpserts \/ SaverPublishCallbacks \/ SaverPublishExceptions("takeIterates")
  PROVE  UNCHANGED Queue!vars
<1>1. TypeOK /\ SectionsEnd
  BY DEF IInv
<1>2. /\ tasks \in Seq(Task) /\ upsertTasks \in Seq(Task) /\ okTasks \in Seq(Task)
      /\ upsertCallbacksToFire \in Seq(Task) /\ prepared \in Seq(Task)
      /\ exceptions \in Seq(Error) /\ failedTasks \in Seq(Task)
      /\ prepared \o upsertCallbacksToFire \in Seq(Task) /\ Failures(failedTasks) \in Seq(Error)
  BY <1>1, TypeFacts, QueueFacts
<1>3. CASE SaverTakeUpserts
  <2>1. tasks = <<>> /\ okTasks = <<>>
    BY <1>1, <1>3 DEF SaverTakeUpserts, SectionsEnd
  <2>2. Pending' = upsertTasks \o <<>> /\ Pending = <<>> \o upsertTasks
    BY <1>3, <2>1 DEF SaverTakeUpserts, Pending
  <2>3. Pending' = Pending
    BY <1>2, <2>2, ConcatEmptySeq
  <2>4. UNCHANGED <<db, Acks, Errors>>
    BY <1>3 DEF SaverTakeUpserts, tickVars, Acks, Errors
  <2> QED BY <2>3, <2>4, Unseen
<1>4. CASE SaverPublishCallbacks
  <2>1. Acks' = (prepared \o (upsertCallbacksToFire \o okTasks)) \o <<>>
    BY <1>4 DEF SaverPublishCallbacks, tickVars, Acks
  <2>2. prepared \o (upsertCallbacksToFire \o okTasks) = Acks
    <3>1. prepared \o (upsertCallbacksToFire \o okTasks)
            = (prepared \o upsertCallbacksToFire) \o okTasks
      <4>1. \A s, t, u \in Seq(Task) : s \o (t \o u) = (s \o t) \o u
        BY StorageSequences
      <4>2. prepared \in Seq(Task) /\ upsertCallbacksToFire \in Seq(Task) /\ okTasks \in Seq(Task)
        BY <1>2
      <4> QED BY <4>1, <4>2, Zenon
    <3> QED BY <3>1 DEF Acks
  <2>3. Acks' = Acks
    BY <1>1, <2>1, <2>2, QueueFacts, ConcatEmptySeq
  <2>4. UNCHANGED <<db, Pending, Errors>>
    BY <1>4 DEF SaverPublishCallbacks, Pending, Errors
  <2> QED BY <2>3, <2>4, Unseen
<1>5. CASE SaverPublishExceptions("takeIterates")
  <2>1. exceptions' = Errors /\ failedTasks' = <<>>
    BY <1>5 DEF SaverPublishExceptions, Errors, Failures
  <2>2. Errors' = Errors \o <<>>
    BY <2>1, FailuresFacts DEF Errors
  <2>3. Errors' = Errors
    BY <1>1, <2>2, QueueFacts, ConcatEmptySeq
  <2>4. UNCHANGED <<db, Pending, Acks>>
    BY <1>5 DEF SaverPublishExceptions, tickVars, Pending, Acks
  <2> QED BY <2>3, <2>4, Unseen
<1> QED BY <1>3, <1>4, <1>5

LEMMA RethrowRefines ==
  ASSUME TypeOK, Rethrow
  PROVE  Queue!DeliverError
<1>1. exceptions # <<>> /\ exceptions' = Tail(exceptions) /\ failedTasks' = failedTasks
  BY DEF Rethrow, TickRethrow, saverVars
<1>2. exceptions \in Seq(Error) /\ Failures(failedTasks) \in Seq(Error)
  BY TypeFacts, QueueFacts
<1>3. Errors # <<>> /\ Errors' = Tail(Errors)
  BY <1>1, <1>2, TailConcat DEF Errors
<1>4. UNCHANGED <<db, Pending, Acks>>
  BY DEF Rethrow, TickRethrow, saverVars, Pending, Acks
<1> QED BY <1>3, <1>4 DEF Queue!DeliverError, Pending, Acks, Errors

LEMMA CallbackRefines ==
  ASSUME TypeOK, CallUpsertCallback \/ UpsertCallbackThrows
  PROVE  Queue!DeliverAck
<1>1. /\ prepared # <<>> /\ prepared' = Tail(prepared)
      /\ UNCHANGED <<db, shareVars, saverVars>>
  BY DEF CallUpsertCallback, UpsertCallbackThrows, TickFireUpsertCallback,
         TickUpsertCallbackThrows, FiringUpsert
<1>2. /\ prepared \in Seq(Task) /\ upsertCallbacksToFire \in Seq(Task) /\ okTasks \in Seq(Task)
      /\ prepared \o upsertCallbacksToFire \in Seq(Task)
  BY TypeFacts, QueueFacts
<1>3. /\ prepared \o upsertCallbacksToFire # <<>>
      /\ Tail(prepared \o upsertCallbacksToFire) = Tail(prepared) \o upsertCallbacksToFire
  BY <1>1, <1>2, TailConcat
<1>4. /\ Acks # <<>>
      /\ Tail(Acks) = Tail(prepared \o upsertCallbacksToFire) \o okTasks
  BY <1>2, <1>3, TailConcat DEF Acks
<1>5. Acks' = Tail(Acks)
  BY <1>1, <1>3, <1>4 DEF Acks, shareVars, saverVars
<1>6. UNCHANGED <<db, Pending, Errors>>
  BY <1>1 DEF shareVars, saverVars, Pending, Errors
<1> QED BY <1>4, <1>5, <1>6 DEF Queue!DeliverAck, Pending, Acks, Errors

LEMMA TakeCallbacksUnseen ==
  ASSUME TypeOK, TakeUpsertCallbacks
  PROVE  UNCHANGED Queue!vars
<1>1. prepared \o upsertCallbacksToFire \in Seq(Task)
  BY QueueFacts
<1>2. Acks' = ((prepared \o upsertCallbacksToFire) \o <<>>) \o okTasks
  BY DEF TakeUpsertCallbacks, TickTakeUpsertCallbacks, saverVars, Acks
<1>3. Acks' = Acks
  BY <1>1, <1>2, ConcatEmptySeq DEF Acks
<1>4. UNCHANGED <<db, Pending, Errors>>
  BY DEF TakeUpsertCallbacks, TickTakeUpsertCallbacks, saverVars, Pending, Errors
<1> QED BY <1>3, <1>4, Unseen

\* The failures of iterates join the errors when none of upserts waits unpublished.
LEMMA LoopsRefines ==
  ASSUME IInv, SaverLoops
  PROVE  Queue!OtherErrors \/ UNCHANGED Queue!vars
<1> DEFINE failed == [n \in 1..Len(iterateFailed) |-> IterateFailed(iterateFailed[n])]
<1>1. TypeOK /\ failedTasks = <<>> /\ failedTasks' = <<>>
  BY DEF IInv, SectionsEnd, SaverLoops
<1>2. exceptions \in Seq(Error) /\ iterateFailed \in Seq(IterateTask)
  BY <1>1, TypeFacts, IterateTypeFacts
<1>3. /\ failed \in Seq(Error) /\ Len(failed) = Len(iterateFailed)
      /\ \A n \in 1..Len(failed) : failed[n].kind # "upsert"
  <2>1. \A n \in 1..Len(iterateFailed) :
          IterateFailed(iterateFailed[n]) \in Error /\ IterateFailed(iterateFailed[n]).kind # "upsert"
    BY <1>2, ElementOfSeq DEF IterateFailed, Error
  <2>2. Len(iterateFailed) \in Nat
    BY <1>2
  <2> QED BY <2>1, <2>2
<1>4. exceptions' = exceptions \o failed
  BY DEF SaverLoops
<1> HIDE DEF failed
<1>5. exceptions \o failed \in Seq(Error)
  BY <1>2, <1>3, ConcatProperties
<1>6. Errors = exceptions /\ Errors' = exceptions \o failed
  BY <1>1, <1>2, <1>4, <1>5, FailuresFacts, ConcatEmptySeq DEF Errors
<1>7. UNCHANGED <<db, Pending, Acks>>
  BY DEF SaverLoops, tickVars, Pending, Acks
<1>8. CASE failed = <<>>
  BY <1>2, <1>6, <1>7, <1>8, ConcatEmptySeq, Unseen
<1>9. CASE failed # <<>>
  <2>1. Len(failed) \in Nat \ {0} /\ Len(exceptions) \in Nat
    BY <1>2, <1>3, <1>9, EmptySeq
  <2>2. /\ Len(exceptions \o failed) = Len(exceptions) + Len(failed)
        /\ \A n \in 1..(Len(exceptions) + Len(failed)) :
             (exceptions \o failed)[n] =
               IF n <= Len(exceptions) THEN exceptions[n] ELSE failed[n - Len(exceptions)]
    BY <1>2, <1>3, StorageSequences
  <2>3. Len(Errors') > Len(Errors)
    BY <1>6, <2>1, <2>2
  <2>4. ASSUME NEW n \in 1..Len(Errors')
        PROVE  IF n <= Len(Errors) THEN Errors'[n] = Errors[n] ELSE Errors'[n].kind # "upsert"
    <3>1. n \in Nat /\ n \in 1..(Len(exceptions) + Len(failed))
      BY <1>6, <2>1, <2>2
    <3>2. CASE n <= Len(exceptions)
      BY <1>6, <2>2, <3>1, <3>2
    <3>3. CASE ~(n <= Len(exceptions))
      <4>1. n - Len(exceptions) \in 1..Len(failed)
        BY <2>1, <3>1, <3>3
      <4>2. Errors'[n] = failed[n - Len(exceptions)]
        BY <1>6, <2>2, <3>1, <3>3
      <4> QED BY <1>3, <1>6, <3>3, <4>1, <4>2
    <3> QED BY <3>2, <3>3
  <2> QED BY <1>7, <2>3, <2>4 DEF Queue!OtherErrors, Pending, Acks, Errors
<1> QED BY <1>8, <1>9

\* Every step of the two threads is a step of the queue, or one it does not see.
LEMMA StepRefines == IInv /\ [Next]_vars => [Queue!Next]_(Queue!vars)
<1> SUFFICES ASSUME IInv, [Next]_vars PROVE Queue!Next \/ UNCHANGED Queue!vars
  OBVIOUS
<1>1. TypeOK
  BY DEF IInv
<1>2. CASE UNCHANGED vars
  <2>1. UNCHANGED <<db, Pending, Acks, Errors>>
    BY <1>2 DEF vars, pipelineVars, shareVars, saverVars, tickVars, Pending, Acks, Errors
  <2> QED BY <2>1, Unseen
<1>3. ASSUME RequestIterate \/ TakeRecycledBuffer \/ Destroy
      PROVE  UNCHANGED Queue!vars
  <2>1. UNCHANGED <<db, Pending, Acks, Errors>>
    BY <1>3 DEF RequestIterate, TakeRecycledBuffer, GetRecycledChangeFormsBuffer, Destroy,
                pipelineVars, shareVars, saverVars, tickVars, Pending, Acks, Errors
  <2> QED BY <2>1, Unseen
<1>4. ASSUME \/ StartTick \/ UpsertCallbacksDone \/ TakeIterateCallbacks
             \/ CallIterateCallback \/ TickReturns
      PROVE  UNCHANGED Queue!vars
  <2>1. UNCHANGED <<db, shareVars, saverVars, prepared>>
    BY <1>4 DEF StartTick, TickNoException, UpsertCallbacksDone, TickUpsertCallbacksDone,
                TakeIterateCallbacks, CallIterateCallback, TickReturns
  <2>2. UNCHANGED <<db, Pending, Acks, Errors>>
    BY <2>1 DEF shareVars, saverVars, Pending, Acks, Errors
  <2> QED BY <2>2, Unseen
<1>5. ASSUME SaverTakeIterates \/ SaverIterate \/ SaverPublishIterates
      PROVE  UNCHANGED Queue!vars
  <2>1. UNCHANGED <<db, Pending, Acks, Errors>>
    BY <1>5 DEF SaverTakeIterates, SaverIterate, SaverPublishIterates, pipelineVars, shareVars,
                saverVars, tickVars, Pending, Acks, Errors
  <2> QED BY <2>1, Unseen
<1>6. CASE MainStep
  BY <1>1, <1>3, <1>4, <1>6, RequestRefines, RethrowRefines, CallbackRefines, TakeCallbacksUnseen
     DEF MainStep, Queue!Next
<1>7. CASE SaverStep
  BY <1>1, <1>5, <1>7, StoreRefines, SucceedRefines, FailRefines, PublishUnseen, LoopsRefines
     DEF SaverStep, SaverUpserts, Queue!Next
<1> QED BY <1>2, <1>6, <1>7 DEF Next

-----------------------------------------------------------------------------
(* The theorems.                                                            *)

\* Every variable of the storage always holds a value of its type, however
\* many forms, upserts and iterates there are.
THEOREM TypeCorrect == Spec => []TypeOK
<1>1. IInv => TypeOK
  BY DEF IInv
<1> QED BY <1>1, IInvHolds, PTL

\* When the saver thread has been joined, the loop has left none of the tasks
\* it took, nor an outcome it has not published (SaverThreadMain).
THEOREM ShutdownTearsNoBatchHolds == Spec => []ShutdownTearsNoBatch
<1>1. IInv => ShutdownTearsNoBatch
  BY DEF IInv, SectionsEnd, ShutdownTearsNoBatch
<1> QED BY <1>1, IInvHolds, PTL

\* The two threads, with their five locks and the half-done Ticks, implement
\* one queue: batches are written one at a time in request order, each that
\* is acknowledged was completely stored when it left the queue, and
\* acknowledgements and failures are delivered in that order.
THEOREM ImplementsQueueHolds == Spec => ImplementsQueue
<1> QED BY InitRefines, StepRefines, IInvHolds, PTL DEF Spec, ImplementsQueue, Queue!Spec

-----------------------------------------------------------------------------
(* Sequences of request numbers, where 0 is none.                           *)

Nums(s) == Members(s) \ {0}

Sorted(s) ==
  \A m, n \in 1..Len(s) : m < n /\ s[m] # 0 /\ s[n] # 0 => s[m] < s[n]

LEMMA AppendNums ==
  ASSUME NEW s \in Seq(Nat), NEW e \in Nat, e # 0, Sorted(s), \A x \in Nums(s) : x < e
  PROVE  /\ Append(s, e) \in Seq(Nat) /\ Sorted(Append(s, e))
         /\ Nums(Append(s, e)) = Nums(s) \cup {e}
<1> DEFINE u == Append(s, e)
<1>1. /\ u \in Seq(Nat) /\ Len(u) = Len(s) + 1 /\ Len(s) \in Nat
      /\ \A n \in 1..Len(s) : u[n] = s[n]
      /\ u[Len(s) + 1] = e
  OBVIOUS
<1>2. /\ DOMAIN u = 1..(Len(s) + 1) /\ DOMAIN s = 1..Len(s)
      /\ \A n \in 1..(Len(s) + 1) : n \in 1..Len(s) \/ n = Len(s) + 1
      /\ \A n \in 1..Len(s) : n \in 1..(Len(s) + 1) /\ n < Len(s) + 1
      /\ \A n \in 1..Len(s) : s[n] \in Nat
  BY <1>1
<1> HIDE DEF u
<1>3. \A n \in 1..Len(s) : s[n] # 0 => s[n] < e
  BY <1>2 DEF Nums, Members
<1>4. Sorted(u)
  <2>1. ASSUME NEW m \in 1..Len(u), NEW n \in 1..Len(u), m < n, u[m] # 0, u[n] # 0
        PROVE  u[m] < u[n]
    <3>1. m \in 1..Len(s)
      BY <1>1, <2>1
    <3>2. CASE n \in 1..Len(s)
      BY <1>1, <2>1, <3>1, <3>2 DEF Sorted
    <3>3. CASE n = Len(s) + 1
      BY <1>1, <1>3, <2>1, <3>1, <3>3
    <3> QED BY <1>1, <1>2, <3>2, <3>3
  <2> QED BY <2>1 DEF Sorted
<1>5. Members(u) = Members(s) \cup {e}
  BY <1>1, <1>2 DEF Members
<1> QED BY <1>1, <1>4, <1>5 DEF u, Nums

LEMMA TailNums ==
  ASSUME NEW s \in Seq(Nat), s # <<>>, Sorted(s)
  PROVE  /\ Tail(s) \in Seq(Nat) /\ Sorted(Tail(s)) /\ Head(s) \in Nat
         /\ Nums(s) = Nums(Tail(s)) \cup ({Head(s)} \ {0})
         /\ Head(s) # 0 => \A x \in Nums(Tail(s)) : Head(s) < x
<1> DEFINE u == Tail(s)
<1>1. /\ u \in Seq(Nat) /\ Len(u) = Len(s) - 1 /\ Len(s) \in Nat \ {0}
      /\ \A n \in 1..Len(u) : u[n] = s[n + 1]
      /\ Head(s) = s[1] /\ Head(s) \in Nat
  BY HeadTailProperties, EmptySeq
<1>2. /\ DOMAIN s = 1..Len(s) /\ DOMAIN u = 1..Len(u) /\ 1 \in 1..Len(s)
      /\ \A n \in 1..Len(u) : n + 1 \in 1..Len(s) /\ 1 < n + 1 /\ n \in Nat
      /\ \A n \in 1..Len(s) : n = 1 \/ (n - 1 \in 1..Len(u) /\ (n - 1) + 1 = n)
  BY <1>1
<1> HIDE DEF u
<1>3. Sorted(u)
  <2>1. ASSUME NEW m \in 1..Len(u), NEW n \in 1..Len(u), m < n, u[m] # 0, u[n] # 0
        PROVE  u[m] < u[n]
    <3>1. m + 1 \in 1..Len(s) /\ n + 1 \in 1..Len(s) /\ m + 1 < n + 1
      BY <1>2, <2>1
    <3> QED BY <1>1, <2>1, <3>1 DEF Sorted
  <2> QED BY <2>1 DEF Sorted
<1>4. Members(s) = Members(u) \cup {Head(s)}
  <2>1. ASSUME NEW n \in 1..Len(s) PROVE s[n] \in Members(u) \cup {Head(s)}
    <3>1. CASE n = 1
      BY <1>1, <3>1
    <3>2. CASE n - 1 \in 1..Len(u) /\ (n - 1) + 1 = n
      <4>1. u[n - 1] = s[n]
        BY <1>1, <3>2
      <4> QED BY <1>2, <3>2, <4>1 DEF Members
    <3> QED BY <1>2, <3>1, <3>2
  <2>2. \A k \in 1..Len(s) : s[k] \in Members(s)
    BY <1>2 DEF Members
  <2>3. \A n \in 1..Len(u) : u[n] \in Members(s)
    BY <1>1, <1>2, <2>2
  <2>4. ASSUME NEW x \in Members(u) PROVE x \in Members(s)
    <3>1. PICK n \in 1..Len(u) : x = u[n]
      BY <1>2 DEF Members
    <3> QED BY <2>3, <3>1
  <2>5. ASSUME NEW x \in Members(s) PROVE x \in Members(u) \cup {Head(s)}
    <3>1. PICK n \in 1..Len(s) : x = s[n]
      BY <1>2 DEF Members
    <3> QED BY <2>1, <3>1
  <2>6. Head(s) \in Members(s)
    BY <1>1, <1>2, <2>2
  <2> QED BY <2>4, <2>5, <2>6
<1>5. ASSUME Head(s) # 0, NEW n \in 1..Len(u), u[n] # 0 PROVE Head(s) < u[n]
  BY <1>1, <1>2, <1>5 DEF Sorted
<1>6. Head(s) # 0 => \A x \in Nums(u) : Head(s) < x
  BY <1>2, <1>5 DEF Nums, Members
<1> QED BY <1>1, <1>3, <1>4, <1>6 DEF u, Nums

\* Entries that are no request may follow.
LEMMA ZerosNums ==
  ASSUME NEW s \in Seq(Nat), NEW t \in Seq(Nat), Sorted(s), Len(t) > Len(s),
         \A n \in 1..Len(t) : t[n] = IF n <= Len(s) THEN s[n] ELSE 0
  PROVE  Sorted(t) /\ Nums(t) = Nums(s)
<1>1. /\ Len(s) \in Nat /\ Len(t) \in Nat /\ DOMAIN s = 1..Len(s) /\ DOMAIN t = 1..Len(t)
      /\ \A n \in 1..Len(s) : n \in 1..Len(t) /\ n <= Len(s)
      /\ \A n \in 1..Len(t) : n <= Len(s) => n \in 1..Len(s)
  OBVIOUS
<1>2. \A n \in 1..Len(t) : t[n] # 0 => n \in 1..Len(s) /\ t[n] = s[n]
  BY <1>1
<1>3. Sorted(t)
  BY <1>2 DEF Sorted
<1>4. \A n \in 1..Len(s) : t[n] = s[n]
  BY <1>1
<1>5. Nums(t) \subseteq Nums(s)
  BY <1>1, <1>2 DEF Nums, Members
<1>6. Nums(s) \subseteq Nums(t)
  BY <1>1, <1>4 DEF Nums, Members
<1> QED BY <1>3, <1>5, <1>6

LEMMA NumsEmpty == Nums(<<>>) = {} /\ Sorted(<<>>)
BY DEF Nums, Members, Sorted

-----------------------------------------------------------------------------
(* The numbers of tasks and errors.                                         *)

LEMMA CallbacksFacts ==
  /\ CallbacksOf(<<>>) = <<>>
  /\ \A s \in Seq(Task) :
       /\ CallbacksOf(s) \in Seq(Nat) /\ Len(CallbacksOf(s)) = Len(s)
       /\ \A n \in 1..Len(s) : CallbacksOf(s)[n] = s[n].callback /\ s[n].callback # 0
       /\ \A t \in Task : CallbacksOf(Append(s, t)) = Append(CallbacksOf(s), t.callback)
       /\ s # <<>> => /\ CallbacksOf(s) # <<>> /\ Head(CallbacksOf(s)) = Head(s).callback
                      /\ CallbacksOf(Tail(s)) = Tail(CallbacksOf(s))
<1>1. \A t \in Task : t.callback \in Nat /\ t.callback # 0
  BY TaskFacts, ClientAssumption
<1>2. ASSUME NEW s \in Seq(Task)
      PROVE  /\ CallbacksOf(s) \in Seq(Nat) /\ Len(CallbacksOf(s)) = Len(s)
             /\ \A n \in 1..Len(s) : CallbacksOf(s)[n] = s[n].callback /\ s[n].callback # 0
  <2>1. \A n \in 1..Len(s) : s[n].callback \in Nat /\ s[n].callback # 0
    BY <1>1, ElementOfSeq
  <2> QED BY <2>1 DEF CallbacksOf
<1>3. ASSUME NEW s \in Seq(Task), NEW t \in Task
      PROVE  CallbacksOf(Append(s, t)) = Append(CallbacksOf(s), t.callback)
  <2> DEFINE a == CallbacksOf(Append(s, t))
             b == Append(CallbacksOf(s), t.callback)
  <2>1. Append(s, t) \in Seq(Task) /\ Len(Append(s, t)) = Len(s) + 1 /\ Len(s) \in Nat
    OBVIOUS
  <2>2. a \in Seq(Nat) /\ Len(a) = Len(s) + 1
    BY <1>2, <2>1
  <2>3. b \in Seq(Nat) /\ Len(b) = Len(s) + 1
    BY <1>1, <1>2, <2>1
  <2>4. \A n \in 1..(Len(s) + 1) : a[n] = Append(s, t)[n].callback
    BY <1>2, <2>1
  <2>5. \A n \in 1..(Len(s) + 1) : Append(s, t)[n] = IF n <= Len(s) THEN s[n] ELSE t
    BY <2>1
  <2>6. \A n \in 1..(Len(s) + 1) :
          b[n] = IF n <= Len(s) THEN CallbacksOf(s)[n] ELSE t.callback
    BY <1>1, <1>2, <2>1
  <2>7. \A n \in 1..(Len(s) + 1) : n <= Len(s) => n \in 1..Len(s)
    BY <2>1
  <2>8. \A n \in 1..(Len(s) + 1) : a[n] = b[n]
    <3> HIDE DEF a, b
    <3> QED BY <1>2, <2>4, <2>5, <2>6, <2>7
  <2> HIDE DEF a, b
  <2>9. a = b
    BY <2>2, <2>3, <2>8, SeqEqual
  <2> QED BY <2>9 DEF a, b
<1>4. ASSUME NEW s \in Seq(Task), s # <<>>
      PROVE  /\ CallbacksOf(s) # <<>> /\ Head(CallbacksOf(s)) = Head(s).callback
             /\ CallbacksOf(Tail(s)) = Tail(CallbacksOf(s))
  <2> DEFINE c == CallbacksOf(s)
             a == CallbacksOf(Tail(s))
  <2>1. c \in Seq(Nat) /\ Len(c) = Len(s) /\ \A n \in 1..Len(s) : c[n] = s[n].callback
    BY <1>2
  <2>2. /\ Tail(s) \in Seq(Task) /\ Len(Tail(s)) = Len(s) - 1 /\ Len(s) \in Nat \ {0}
        /\ \A n \in 1..Len(Tail(s)) : Tail(s)[n] = s[n + 1]
        /\ Head(s) = s[1]
    BY <1>4, HeadTailProperties, EmptySeq
  <2>3. a \in Seq(Nat) /\ Len(a) = Len(s) - 1 /\ \A n \in 1..(Len(s) - 1) : a[n] = Tail(s)[n].callback
    BY <1>2, <2>2
  <2> HIDE DEF a, c
  <2>4. c # <<>>
    BY <2>1, <2>2, EmptySeq
  <2>5. /\ Tail(c) \in Seq(Nat) /\ Len(Tail(c)) = Len(s) - 1
        /\ \A n \in 1..(Len(s) - 1) : Tail(c)[n] = c[n + 1]
        /\ Head(c) = c[1]
    BY <2>1, <2>2, <2>4, HeadTailProperties
  <2>6. \A n \in 1..(Len(s) - 1) : n + 1 \in 1..Len(s)
    BY <2>2
  <2>7. \A n \in 1..(Len(s) - 1) : a[n] = Tail(c)[n]
    BY <2>1, <2>2, <2>3, <2>5, <2>6
  <2>8. a = Tail(c)
    BY <2>3, <2>5, <2>7, SeqEqual
  <2>9. Head(c) = Head(s).callback
    BY <2>1, <2>2, <2>5
  <2> QED BY <2>4, <2>8, <2>9 DEF a, c
<1>5. CallbacksOf(<<>>) = <<>>
  BY DEF CallbacksOf
<1> QED BY <1>2, <1>3, <1>4, <1>5

LEMMA ErrorFacts ==
  /\ \A e \in Error : FailedUpsert(e) \in Nat
  /\ \A e \in Error : e.kind = "upsert" => FailedUpsert(e) = e.task.callback /\ FailedUpsert(e) # 0
  /\ \A e \in Error : e.kind # "upsert" => FailedUpsert(e) = 0
  /\ \A t \in Task : UpsertFailed(t) \in Error /\ FailedUpsert(UpsertFailed(t)) = t.callback
<1>1. \A t \in Task : t.callback \in Nat /\ t.callback # 0
  BY TaskFacts, ClientAssumption
<1> QED BY <1>1 DEF Error, FailedUpsert, UpsertFailed

LEMMA FailuresOfFacts ==
  /\ FailuresOf(<<>>) = <<>>
  /\ \A s \in Seq(Error) :
       /\ FailuresOf(s) \in Seq(Nat) /\ Len(FailuresOf(s)) = Len(s)
       /\ \A n \in 1..Len(s) : FailuresOf(s)[n] = FailedUpsert(s[n])
       /\ \A e \in Error : FailuresOf(Append(s, e)) = Append(FailuresOf(s), FailedUpsert(e))
       /\ s # <<>> => /\ FailuresOf(s) # <<>> /\ Head(FailuresOf(s)) = FailedUpsert(Head(s))
                      /\ FailuresOf(Tail(s)) = Tail(FailuresOf(s))
<1>1. \A e \in Error : FailedUpsert(e) \in Nat
  BY ErrorFacts
<1>2. ASSUME NEW s \in Seq(Error)
      PROVE  /\ FailuresOf(s) \in Seq(Nat) /\ Len(FailuresOf(s)) = Len(s)
             /\ \A n \in 1..Len(s) : FailuresOf(s)[n] = FailedUpsert(s[n])
  <2>1. \A n \in 1..Len(s) : FailedUpsert(s[n]) \in Nat
    BY <1>1, ElementOfSeq
  <2> QED BY <2>1 DEF FailuresOf
<1>3. ASSUME NEW s \in Seq(Error), NEW e \in Error
      PROVE  FailuresOf(Append(s, e)) = Append(FailuresOf(s), FailedUpsert(e))
  <2> DEFINE a == FailuresOf(Append(s, e))
             b == Append(FailuresOf(s), FailedUpsert(e))
  <2>1. Append(s, e) \in Seq(Error) /\ Len(Append(s, e)) = Len(s) + 1 /\ Len(s) \in Nat
    OBVIOUS
  <2>2. a \in Seq(Nat) /\ Len(a) = Len(s) + 1
    BY <1>2, <2>1
  <2>3. b \in Seq(Nat) /\ Len(b) = Len(s) + 1
    BY <1>1, <1>2, <2>1
  <2>4. \A n \in 1..(Len(s) + 1) : a[n] = FailedUpsert(Append(s, e)[n])
    BY <1>2, <2>1
  <2>5. \A n \in 1..(Len(s) + 1) : Append(s, e)[n] = IF n <= Len(s) THEN s[n] ELSE e
    BY <2>1
  <2>6. \A n \in 1..(Len(s) + 1) :
          b[n] = IF n <= Len(s) THEN FailuresOf(s)[n] ELSE FailedUpsert(e)
    BY <1>1, <1>2, <2>1
  <2>7. \A n \in 1..(Len(s) + 1) : n <= Len(s) => n \in 1..Len(s)
    BY <2>1
  <2>8. \A n \in 1..(Len(s) + 1) : a[n] = b[n]
    <3> HIDE DEF a, b
    <3> QED BY <1>2, <2>4, <2>5, <2>6, <2>7
  <2> HIDE DEF a, b
  <2>9. a = b
    BY <2>2, <2>3, <2>8, SeqEqual
  <2> QED BY <2>9 DEF a, b
<1>4. ASSUME NEW s \in Seq(Error), s # <<>>
      PROVE  /\ FailuresOf(s) # <<>> /\ Head(FailuresOf(s)) = FailedUpsert(Head(s))
             /\ FailuresOf(Tail(s)) = Tail(FailuresOf(s))
  <2> DEFINE c == FailuresOf(s)
             a == FailuresOf(Tail(s))
  <2>1. c \in Seq(Nat) /\ Len(c) = Len(s) /\ \A n \in 1..Len(s) : c[n] = FailedUpsert(s[n])
    BY <1>2
  <2>2. /\ Tail(s) \in Seq(Error) /\ Len(Tail(s)) = Len(s) - 1 /\ Len(s) \in Nat \ {0}
        /\ \A n \in 1..Len(Tail(s)) : Tail(s)[n] = s[n + 1]
        /\ Head(s) = s[1]
    BY <1>4, HeadTailProperties, EmptySeq
  <2>3. /\ a \in Seq(Nat) /\ Len(a) = Len(s) - 1
        /\ \A n \in 1..(Len(s) - 1) : a[n] = FailedUpsert(Tail(s)[n])
    BY <1>2, <2>2
  <2> HIDE DEF a, c
  <2>4. c # <<>>
    BY <2>1, <2>2, EmptySeq
  <2>5. /\ Tail(c) \in Seq(Nat) /\ Len(Tail(c)) = Len(s) - 1
        /\ \A n \in 1..(Len(s) - 1) : Tail(c)[n] = c[n + 1]
        /\ Head(c) = c[1]
    BY <2>1, <2>2, <2>4, HeadTailProperties
  <2>6. \A n \in 1..(Len(s) - 1) : n + 1 \in 1..Len(s)
    BY <2>2
  <2>7. \A n \in 1..(Len(s) - 1) : a[n] = Tail(c)[n]
    BY <2>1, <2>2, <2>3, <2>5, <2>6
  <2>8. a = Tail(c)
    BY <2>3, <2>5, <2>7, SeqEqual
  <2>9. Head(c) = FailedUpsert(Head(s))
    BY <2>1, <2>2, <2>5
  <2> QED BY <2>4, <2>8, <2>9 DEF a, c
<1>5. FailuresOf(<<>>) = <<>>
  BY DEF FailuresOf
<1> QED BY <1>2, <1>3, <1>4, <1>5

-----------------------------------------------------------------------------
(* Where requests are, and in which order.                                  *)

PendingNums == Nums(CallbacksOf(Pending))
AckNums == Nums(CallbacksOf(Acks))
ErrorNums == Nums(FailuresOf(Errors))

InOrder ==
  /\ Sorted(CallbacksOf(Pending)) /\ Sorted(CallbacksOf(Acks)) /\ Sorted(fired)
  /\ Sorted(FailuresOf(Errors)) /\ Sorted(raised)

\* Each place holds older requests than the one it is filled from.
Older(S, T) == \A x \in S, y \in T : x < y

PlacesOlder ==
  /\ Older(Nums(fired), AckNums) /\ Older(Nums(raised), ErrorNums)
  /\ Older(AckNums \cup Nums(fired) \cup ErrorNums \cup Nums(raised), PendingNums)

\* A request succeeds or fails, not both; all requests are somewhere.
PlacesSplit ==
  /\ (AckNums \cup Nums(fired)) \cap (ErrorNums \cup Nums(raised)) = {}
  /\ PendingNums \cup AckNums \cup Nums(fired) \cup ErrorNums \cup Nums(raised) = 1..requested

Arranged == InOrder /\ PlacesOlder /\ PlacesSplit

\* The sequences as sequences of numbers.
LEMMA PlaceTypes ==
  ASSUME TypeOK
  PROVE  /\ CallbacksOf(Pending) \in Seq(Nat) /\ CallbacksOf(Acks) \in Seq(Nat)
         /\ FailuresOf(Errors) \in Seq(Nat) /\ fired \in Seq(Nat) /\ raised \in Seq(Nat)
         /\ \A s \in {CallbacksOf(Pending), CallbacksOf(Acks), fired, raised} :
              \A n \in 1..Len(s) : s[n] # 0
         /\ requested \in Nat
<1>1. ASSUME NEW s \in Seq(Task)
      PROVE  CallbacksOf(s) \in Seq(Nat) /\ \A n \in 1..Len(CallbacksOf(s)) : CallbacksOf(s)[n] # 0
  <2>1. /\ CallbacksOf(s) \in Seq(Nat) /\ Len(CallbacksOf(s)) = Len(s)
        /\ \A n \in 1..Len(s) : CallbacksOf(s)[n] = s[n].callback /\ s[n].callback # 0
    BY CallbacksFacts
  <2> QED BY <2>1
<1>2. ASSUME NEW s \in Seq(Callback) PROVE s \in Seq(Nat) /\ \A n \in 1..Len(s) : s[n] # 0
  <2>1. \A n \in 1..Len(s) : s[n] \in Nat /\ s[n] # 0
    BY ElementOfSeq, ClientAssumption
  <2> QED BY <2>1
<1>3. Pending \in Seq(Task) /\ Acks \in Seq(Task) /\ FailuresOf(Errors) \in Seq(Nat)
  BY QueueFacts, FailuresOfFacts
<1>4. fired \in Seq(Callback) /\ raised \in Seq(Callback) /\ requested \in Nat
  BY TypeFacts, IterateTypeFacts, ClientAssumption
<1>5. /\ CallbacksOf(Pending) \in Seq(Nat) /\ CallbacksOf(Acks) \in Seq(Nat)
      /\ \A n \in 1..Len(CallbacksOf(Pending)) : CallbacksOf(Pending)[n] # 0
      /\ \A n \in 1..Len(CallbacksOf(Acks)) : CallbacksOf(Acks)[n] # 0
  BY <1>1, <1>3, Zenon
<1>6. /\ fired \in Seq(Nat) /\ raised \in Seq(Nat)
      /\ \A n \in 1..Len(fired) : fired[n] # 0
      /\ \A n \in 1..Len(raised) : raised[n] # 0
  BY <1>2, <1>4, Zenon
<1> QED BY <1>3, <1>4, <1>5, <1>6, Zenon

LEMMA InitArranged == Init => Arranged
<1> SUFFICES ASSUME Init PROVE Arranged
  OBVIOUS
<1>1. Failures(<<>>) = <<>> /\ <<>> \o <<>> = <<>>
  BY FailuresFacts
<1>2. Pending = <<>> /\ Acks = <<>> /\ Errors = <<>>
  BY <1>1 DEF Init, PipelineInit, Pending, Acks, Errors
<1>3. CallbacksOf(Pending) = <<>> /\ CallbacksOf(Acks) = <<>> /\ FailuresOf(Errors) = <<>>
  BY <1>2, CallbacksFacts, FailuresOfFacts
<1>4. fired = <<>> /\ raised = <<>> /\ requested = 0 /\ 1..0 = {}
  BY DEF Init
<1> QED BY <1>3, <1>4, NumsEmpty
        DEF Arranged, InOrder, PlacesOlder, PlacesSplit, Older, PendingNums, AckNums, ErrorNums

LEMMA SameArranged ==
  ASSUME Arranged, UNCHANGED <<Pending, Acks, Errors, fired, raised, requested>>
  PROVE  Arranged'
<1>1. UNCHANGED <<CallbacksOf(Pending), CallbacksOf(Acks), FailuresOf(Errors)>>
  BY DEF CallbacksOf, FailuresOf
<1>2. UNCHANGED <<PendingNums, AckNums, ErrorNums, Nums(fired), Nums(raised)>>
  BY <1>1 DEF PendingNums, AckNums, ErrorNums, Nums, Members
<1>3. InOrder'
  BY <1>1 DEF Arranged, InOrder, Sorted
<1>4. PlacesOlder' /\ PlacesSplit'
  BY <1>2 DEF Arranged, PlacesOlder, PlacesSplit, Older
<1> QED BY <1>3, <1>4 DEF Arranged

LEMMA RequestArranged ==
  ASSUME TypeOK, Arranged, NEW t \in Task, Pending' = Append(Pending, t),
         t.callback = requested + 1, requested' = requested + 1,
         UNCHANGED <<Acks, Errors, fired, raised>>
  PROVE  Arranged'
<1> DEFINE p == CallbacksOf(Pending)
<1>1. Pending \in Seq(Task) /\ p \in Seq(Nat) /\ requested \in Nat
  BY QueueFacts, PlaceTypes
<1>2. CallbacksOf(Pending)' = Append(p, requested + 1)
  <2>1. CallbacksOf(Append(Pending, t)) = Append(p, requested + 1)
    BY <1>1, CallbacksFacts
  <2> QED BY <2>1 DEF CallbacksOf
<1>3. UNCHANGED <<CallbacksOf(Acks), FailuresOf(Errors)>>
  BY DEF CallbacksOf, FailuresOf
<1>4. Sorted(p) /\ Nums(p) = PendingNums /\ Nums(p) \subseteq 1..requested
  BY DEF Arranged, InOrder, PlacesSplit, PendingNums
<1> HIDE DEF p
<1>5. Sorted(Append(p, requested + 1)) /\ Nums(Append(p, requested + 1)) = Nums(p) \cup {requested + 1}
  <2>1. requested + 1 \in Nat /\ requested + 1 # 0 /\ \A x \in Nums(p) : x < requested + 1
    BY <1>1, <1>4
  <2> QED BY <1>1, <1>4, <2>1, AppendNums
<1>6. PendingNums' = PendingNums \cup {requested + 1} /\ Sorted(CallbacksOf(Pending))'
  BY <1>2, <1>4, <1>5 DEF PendingNums, Nums, Members, Sorted
<1>7. UNCHANGED <<AckNums, ErrorNums, Nums(fired), Nums(raised)>>
  BY <1>3 DEF AckNums, ErrorNums, Nums, Members
<1>8. InOrder'
  BY <1>3, <1>6 DEF Arranged, InOrder, Sorted
<1>9. PlacesOlder'
  <2>1. \A x \in AckNums \cup Nums(fired) \cup ErrorNums \cup Nums(raised) : x < requested + 1
    BY <1>1 DEF Arranged, PlacesSplit
  <2> QED BY <1>6, <1>7, <2>1 DEF Arranged, PlacesOlder, Older
<1>10. PlacesSplit'
  <2>1. 1..(requested + 1) = (1..requested) \cup {requested + 1}
    BY <1>1
  <2> QED BY <1>6, <1>7, <2>1 DEF Arranged, PlacesSplit
<1> QED BY <1>8, <1>9, <1>10 DEF Arranged

LEMMA PrimedNums ==
  /\ AckNums' = Nums(CallbacksOf(Acks)') /\ ErrorNums' = Nums(FailuresOf(Errors)')
  /\ Nums(fired)' = Nums(fired') /\ Nums(raised)' = Nums(raised')
  /\ Sorted(CallbacksOf(Acks))' <=> Sorted(CallbacksOf(Acks)')
  /\ Sorted(FailuresOf(Errors))' <=> Sorted(FailuresOf(Errors)')
  /\ Sorted(fired)' <=> Sorted(fired')
  /\ Sorted(raised)' <=> Sorted(raised')
BY DEF AckNums, ErrorNums, Nums, Members, Sorted

\* The first request of the queue goes to one of its ends.
LEMMA SettleArranged ==
  ASSUME TypeOK, Arranged, Pending # <<>>, Pending' = Tail(Pending),
         \/ Acks' = Append(Acks, Head(Pending)) /\ UNCHANGED Errors
         \/ Errors' = Append(Errors, UpsertFailed(Head(Pending))) /\ UNCHANGED Acks,
         UNCHANGED <<fired, raised, requested>>
  PROVE  /\ Arranged'
         /\ Head(Pending).callback \in PendingNums
         /\ AckNums \subseteq AckNums' /\ ErrorNums \subseteq ErrorNums'
         /\ UNCHANGED Errors \/ Head(Pending).callback \in ErrorNums'
<1> DEFINE p == CallbacksOf(Pending)
           a == CallbacksOf(Acks)
           e == FailuresOf(Errors)
           h == Head(Pending).callback
<1>1. /\ Pending \in Seq(Task) /\ Acks \in Seq(Task) /\ Errors \in Seq(Error)
      /\ p \in Seq(Nat) /\ a \in Seq(Nat) /\ e \in Seq(Nat) /\ requested \in Nat
  BY QueueFacts, PlaceTypes
<1>2. Head(Pending) \in Task /\ UpsertFailed(Head(Pending)) \in Error
      /\ FailedUpsert(UpsertFailed(Head(Pending))) = h
  BY <1>1, HeadTailProperties, ErrorFacts
<1>3. p # <<>> /\ Head(p) = h /\ CallbacksOf(Pending)' = Tail(p)
  <2>1. p # <<>> /\ Head(p) = h /\ CallbacksOf(Tail(Pending)) = Tail(p)
    BY <1>1, CallbacksFacts
  <2> QED BY <2>1 DEF CallbacksOf
<1>4. h \in Nat /\ h # 0
  BY <1>2, TaskFacts, ClientAssumption
<1>5. \/ CallbacksOf(Acks)' = Append(a, h) /\ FailuresOf(Errors)' = e /\ UNCHANGED Errors
      \/ FailuresOf(Errors)' = Append(e, h) /\ CallbacksOf(Acks)' = a
  <2>1. CallbacksOf(Append(Acks, Head(Pending))) = Append(a, h)
    BY <1>1, <1>2, CallbacksFacts
  <2>2. FailuresOf(Append(Errors, UpsertFailed(Head(Pending)))) = Append(e, h)
    BY <1>1, <1>2, FailuresOfFacts
  <2>3. CASE Acks' = Append(Acks, Head(Pending)) /\ UNCHANGED Errors
    BY <2>1, <2>3 DEF CallbacksOf, FailuresOf
  <2>4. CASE Errors' = Append(Errors, UpsertFailed(Head(Pending))) /\ UNCHANGED Acks
    BY <2>2, <2>4 DEF CallbacksOf, FailuresOf
  <2> QED BY <2>3, <2>4
<1>6. /\ Sorted(p) /\ Sorted(a) /\ Sorted(e)
      /\ Nums(p) = PendingNums /\ Nums(a) = AckNums /\ Nums(e) = ErrorNums
  BY DEF Arranged, InOrder, PendingNums, AckNums, ErrorNums
<1> HIDE DEF p, a, e, h
<1>7. /\ Sorted(Tail(p)) /\ PendingNums = Nums(Tail(p)) \cup {h}
      /\ \A x \in Nums(Tail(p)) : h < x
  BY <1>1, <1>3, <1>4, <1>6, TailNums
<1>8. PendingNums' = Nums(Tail(p)) /\ Sorted(CallbacksOf(Pending))'
  BY <1>3, <1>7 DEF PendingNums, Nums, Members, Sorted
<1>9. \A x \in AckNums \cup Nums(fired) \cup ErrorNums \cup Nums(raised) : x < h
  BY <1>7 DEF Arranged, PlacesOlder, Older
<1>10. /\ Sorted(Append(a, h)) /\ Nums(Append(a, h)) = AckNums \cup {h}
       /\ Sorted(Append(e, h)) /\ Nums(Append(e, h)) = ErrorNums \cup {h}
  <2>1. \A x \in Nums(a) \cup Nums(e) : x < h
    BY <1>6, <1>9
  <2> QED BY <1>1, <1>4, <1>6, <2>1, AppendNums
<1>11. /\ Sorted(CallbacksOf(Acks))' /\ Sorted(FailuresOf(Errors))'
       /\ \/ AckNums' = AckNums \cup {h} /\ ErrorNums' = ErrorNums /\ UNCHANGED Errors
          \/ ErrorNums' = ErrorNums \cup {h} /\ AckNums' = AckNums
  <2>1. CASE CallbacksOf(Acks)' = Append(a, h) /\ FailuresOf(Errors)' = e /\ UNCHANGED Errors
    BY <1>6, <1>10, <2>1, PrimedNums
  <2>2. CASE FailuresOf(Errors)' = Append(e, h) /\ CallbacksOf(Acks)' = a
    BY <1>6, <1>10, <2>2, PrimedNums
  <2> QED BY <1>5, <2>1, <2>2
<1>12. UNCHANGED <<Nums(fired), Nums(raised), requested>> /\ Sorted(fired)' /\ Sorted(raised)'
  BY DEF Arranged, InOrder, Nums, Members, Sorted
<1>13. InOrder'
  BY <1>8, <1>11, <1>12 DEF InOrder
<1>14. PlacesOlder'
  <2>1. \A x \in AckNums \cup Nums(fired) \cup ErrorNums \cup Nums(raised) \cup {h} :
          \A y \in PendingNums' : x < y
    BY <1>7, <1>8 DEF Arranged, PlacesOlder, Older
  <2>2. Older(Nums(fired), AckNums') /\ Older(Nums(raised), ErrorNums')
    BY <1>9, <1>11 DEF Arranged, PlacesOlder, Older
  <2> QED BY <1>11, <1>12, <2>1, <2>2 DEF PlacesOlder, Older
<1>15. PlacesSplit'
  <2>1. h \notin AckNums \cup Nums(fired) \cup ErrorNums \cup Nums(raised)
    BY <1>4, <1>9
  <2> QED BY <1>7, <1>8, <1>11, <1>12, <2>1 DEF Arranged, PlacesSplit
<1> QED BY <1>7, <1>11, <1>13, <1>14, <1>15 DEF Arranged, h

\* A callback is called, or an error rethrown, that of an iterate to nobody.
LEMMA DeliverArranged ==
  ASSUME TypeOK, Arranged, UNCHANGED <<Pending, requested>>,
         \/ /\ Acks # <<>> /\ Acks' = Tail(Acks) /\ fired' = Append(fired, Head(Acks).callback)
            /\ UNCHANGED <<Errors, raised>>
         \/ /\ Errors # <<>> /\ Errors' = Tail(Errors)
            /\ raised' = IF Head(Errors).kind = "upsert"
                         THEN Append(raised, Head(Errors).task.callback) ELSE raised
            /\ UNCHANGED <<Acks, fired>>
  PROVE  /\ Arranged'
         /\ (ErrorNums \cup Nums(raised))' = ErrorNums \cup Nums(raised)
         /\ UNCHANGED <<Acks, fired>> \/ Nums(fired)' = Nums(fired) \cup {Head(Acks).callback}
<1> DEFINE a == CallbacksOf(Acks)
           e == FailuresOf(Errors)
<1>1. /\ Acks \in Seq(Task) /\ Errors \in Seq(Error) /\ a \in Seq(Nat) /\ e \in Seq(Nat)
      /\ fired \in Seq(Nat) /\ raised \in Seq(Nat) /\ requested \in Nat
  BY QueueFacts, PlaceTypes
<1>2. /\ Sorted(a) /\ Sorted(e) /\ Sorted(fired) /\ Sorted(raised)
      /\ Nums(a) = AckNums /\ Nums(e) = ErrorNums
  BY DEF Arranged, InOrder, AckNums, ErrorNums
<1>3. UNCHANGED <<PendingNums, requested>> /\ Sorted(CallbacksOf(Pending))'
  BY DEF Arranged, InOrder, PendingNums, Nums, Members, Sorted, CallbacksOf
<1>4. CASE /\ Acks # <<>> /\ Acks' = Tail(Acks) /\ fired' = Append(fired, Head(Acks).callback)
           /\ UNCHANGED <<Errors, raised>>
  <2> DEFINE h == Head(Acks).callback
  <2>1. a # <<>> /\ Head(a) = h /\ CallbacksOf(Acks)' = Tail(a)
    <3>1. a # <<>> /\ Head(a) = h /\ CallbacksOf(Tail(Acks)) = Tail(a)
      BY <1>1, <1>4, CallbacksFacts
    <3> QED BY <1>4, <3>1 DEF CallbacksOf
  <2>2. h \in Nat /\ h # 0
    <3>1. Head(Acks) \in Task
      BY <1>1, <1>4, HeadTailProperties
    <3> QED BY <3>1, TaskFacts, ClientAssumption
  <2>3. FailuresOf(Errors)' = e /\ fired' = Append(fired, h)
    BY <1>4 DEF FailuresOf
  <2> HIDE DEF a, e, h
  <2>4. /\ Sorted(Tail(a)) /\ AckNums = Nums(Tail(a)) \cup {h}
        /\ \A x \in Nums(Tail(a)) : h < x
    BY <1>1, <1>2, <2>1, <2>2, TailNums
  <2>5. \A x \in Nums(fired) : x < h
    BY <2>4 DEF Arranged, PlacesOlder, Older
  <2>6. Sorted(Append(fired, h)) /\ Nums(Append(fired, h)) = Nums(fired) \cup {h}
    BY <1>1, <1>2, <2>2, <2>5, AppendNums
  <2>7. /\ AckNums' = Nums(Tail(a)) /\ ErrorNums' = ErrorNums
        /\ Nums(fired)' = Nums(fired) \cup {h} /\ Nums(raised)' = Nums(raised)
        /\ Sorted(CallbacksOf(Acks))' /\ Sorted(FailuresOf(Errors))' /\ Sorted(fired)'
        /\ Sorted(raised)'
    <3>1. raised' = raised
      BY <1>4
    <3> QED BY <1>2, <2>1, <2>3, <2>4, <2>6, <3>1, PrimedNums
  <2>8. InOrder'
    BY <1>3, <2>7 DEF InOrder
  <2>9. PlacesOlder'
    <3>1. Older(Nums(fired) \cup {h}, Nums(Tail(a)))
      BY <2>4 DEF Arranged, PlacesOlder, Older
    <3> QED BY <1>3, <2>4, <2>7, <3>1 DEF Arranged, PlacesOlder, Older
  <2>10. PlacesSplit'
    BY <1>3, <2>4, <2>7 DEF Arranged, PlacesSplit
  <2> QED BY <2>7, <2>8, <2>9, <2>10 DEF Arranged, h
<1>5. CASE /\ Errors # <<>> /\ Errors' = Tail(Errors)
           /\ raised' = IF Head(Errors).kind = "upsert"
                        THEN Append(raised, Head(Errors).task.callback) ELSE raised
           /\ UNCHANGED <<Acks, fired>>
  <2> DEFINE h == FailedUpsert(Head(Errors))
  <2>1. e # <<>> /\ Head(e) = h /\ FailuresOf(Errors)' = Tail(e)
    <3>1. e # <<>> /\ Head(e) = h /\ FailuresOf(Tail(Errors)) = Tail(e)
      BY <1>1, <1>5, FailuresOfFacts
    <3> QED BY <1>5, <3>1 DEF FailuresOf
  <2>2. h \in Nat /\ raised' = IF h # 0 THEN Append(raised, h) ELSE raised
    <3>1. Head(Errors) \in Error
      BY <1>1, <1>5, HeadTailProperties
    <3> QED BY <1>5, <3>1, ErrorFacts
  <2>3. CallbacksOf(Acks)' = a /\ fired' = fired
    BY <1>5 DEF CallbacksOf
  <2> HIDE DEF a, e, h
  <2>4. /\ Sorted(Tail(e)) /\ ErrorNums = Nums(Tail(e)) \cup ({h} \ {0})
        /\ h # 0 => \A x \in Nums(Tail(e)) : h < x
    BY <1>1, <1>2, <2>1, TailNums
  <2>5. h # 0 => \A x \in Nums(raised) : x < h
    BY <2>4 DEF Arranged, PlacesOlder, Older
  <2>6. Sorted(raised') /\ Nums(raised') = Nums(raised) \cup ({h} \ {0})
    <3>1. CASE h = 0
      BY <1>2, <2>2, <3>1
    <3>2. CASE h # 0
      BY <1>1, <1>2, <2>2, <2>5, <3>2, AppendNums
    <3> QED BY <3>1, <3>2
  <2>7. /\ ErrorNums' = Nums(Tail(e)) /\ AckNums' = AckNums
        /\ Nums(raised)' = Nums(raised) \cup ({h} \ {0}) /\ Nums(fired)' = Nums(fired)
        /\ Sorted(CallbacksOf(Acks))' /\ Sorted(FailuresOf(Errors))' /\ Sorted(fired)'
        /\ Sorted(raised)'
    BY <1>2, <2>1, <2>3, <2>4, <2>6, PrimedNums
  <2>8. InOrder'
    BY <1>3, <2>7 DEF InOrder
  <2>9. PlacesOlder'
    <3>1. Older(Nums(raised) \cup ({h} \ {0}), Nums(Tail(e)))
      BY <2>4 DEF Arranged, PlacesOlder, Older
    <3> QED BY <1>3, <2>4, <2>7, <3>1 DEF Arranged, PlacesOlder, Older
  <2>10. PlacesSplit' /\ (ErrorNums \cup Nums(raised))' = ErrorNums \cup Nums(raised)
    BY <1>3, <2>4, <2>7 DEF Arranged, PlacesSplit
  <2> QED BY <1>5, <2>8, <2>9, <2>10 DEF Arranged
<1> QED BY <1>4, <1>5

\* The errors of iterates are no requests.
LEMMA OtherErrorsArranged ==
  ASSUME TypeOK, TypeOK', Arranged, Queue!OtherErrors, UNCHANGED <<fired, raised, requested>>
  PROVE  Arranged' /\ ErrorNums' = ErrorNums
<1>1. /\ UNCHANGED <<Pending, Acks>> /\ Len(Errors') > Len(Errors)
      /\ \A n \in 1..Len(Errors') :
           IF n <= Len(Errors) THEN Errors'[n] = Errors[n] ELSE Errors'[n].kind # "upsert"
  BY DEF Queue!OtherErrors, Pending, Acks, Errors
<1>2. Errors \in Seq(Error) /\ Errors' \in Seq(Error)
  <2>1. Error' = Error
    BY DEF Error, Task, IterateTask, Buffer, Idx, Entry
  <2>2. (Errors \in Seq(Error))'
    BY QueueFacts, PTL
  <2> QED BY <2>1, <2>2, QueueFacts
<1> DEFINE s == FailuresOf(Errors)
           t == FailuresOf(Errors')
<1>3. /\ s \in Seq(Nat) /\ Len(s) = Len(Errors) /\ \A n \in 1..Len(Errors) : s[n] = FailedUpsert(Errors[n])
      /\ t \in Seq(Nat) /\ Len(t) = Len(Errors')
      /\ \A n \in 1..Len(Errors') : t[n] = FailedUpsert(Errors'[n])
  BY <1>2, FailuresOfFacts
<1>4. FailuresOf(Errors)' = t /\ CallbacksOf(Acks)' = CallbacksOf(Acks)
  BY <1>1 DEF FailuresOf, CallbacksOf
<1>5. Sorted(s) /\ Nums(s) = ErrorNums
  BY DEF Arranged, InOrder, ErrorNums
<1> HIDE DEF s, t
<1>6. \A n \in 1..Len(t) : t[n] = IF n <= Len(s) THEN s[n] ELSE 0
  <2>1. ASSUME NEW n \in 1..Len(t), n <= Len(s) PROVE t[n] = s[n]
    <3>1. n \in 1..Len(Errors)
      BY <1>2, <1>3, <2>1
    <3> QED BY <1>1, <1>3, <2>1, <3>1
  <2>2. ASSUME NEW n \in 1..Len(t), ~(n <= Len(s)) PROVE t[n] = 0
    <3>1. Errors'[n] \in Error /\ Errors'[n].kind # "upsert"
      BY <1>1, <1>2, <1>3, <2>2, ElementOfSeq
    <3> QED BY <1>3, <2>2, <3>1, ErrorFacts
  <2> QED BY <2>1, <2>2
<1>7. Sorted(t) /\ Nums(t) = ErrorNums
  BY <1>1, <1>3, <1>5, <1>6, ZerosNums
<1>8. /\ ErrorNums' = ErrorNums /\ Sorted(FailuresOf(Errors))'
      /\ AckNums' = AckNums /\ Sorted(CallbacksOf(Acks))'
  <2>1. Sorted(CallbacksOf(Acks)) /\ AckNums = Nums(CallbacksOf(Acks))
    BY DEF Arranged, InOrder, AckNums
  <2> QED BY <1>4, <1>7, <2>1, PrimedNums
<1>9. /\ UNCHANGED <<PendingNums, Nums(fired), Nums(raised), requested>>
      /\ Sorted(CallbacksOf(Pending))' /\ Sorted(fired)' /\ Sorted(raised)'
  BY <1>1 DEF Arranged, InOrder, PendingNums, Nums, Members, Sorted, CallbacksOf
<1>10. InOrder'
  BY <1>8, <1>9 DEF InOrder
<1>11. PlacesOlder' /\ PlacesSplit'
  BY <1>8, <1>9 DEF Arranged, PlacesOlder, PlacesSplit, Older
<1> QED BY <1>8, <1>10, <1>11 DEF Arranged

-----------------------------------------------------------------------------
(* What is stored.                                                          *)

FailedNums == ErrorNums \cup Nums(raised)

LEMMA CoversFacts ==
  ASSUME TypeOK
  PROVE  /\ FailedNums \subseteq Nat /\ db \in [FormId -> Stored]
         /\ \A form \in FormId, n \in Nat :
              Covers(form, n) <=>
                \/ db[form] >= n
                \/ db[form] = Corrupt /\ \E f \in FailedNums : f > n
<1>1. Members(FailuresOf(Errors)) \subseteq Nat /\ Members(raised) \subseteq Nat
  <2>1. FailuresOf(Errors) \in Seq(Nat) /\ raised \in Seq(Nat)
    BY PlaceTypes
  <2>2. \A s \in Seq(Nat) : Members(s) \subseteq Nat
    BY DEF Members
  <2> QED BY <2>1, <2>2
<1>2. FailedRequests = Members(FailuresOf(Errors)) \cup Members(raised)
  BY DEF FailedRequests, Places
<1>3. FailedNums = FailedRequests \ {0}
  BY <1>2 DEF FailedNums, ErrorNums, Nums
<1>4. ASSUME NEW form \in FormId, NEW n \in Nat
      PROVE  (\E f \in FailedRequests : f > n) <=> (\E f \in FailedNums : f > n)
  BY <1>1, <1>2, <1>3
<1>5. db \in [FormId -> Stored]
  BY TypeFacts
<1> QED BY <1>1, <1>2, <1>3, <1>4, <1>5 DEF Covers

Promised(t) == \A i \in Idx : t.forms[i] # NoChange => Covers(t.forms[i].form, t.callback)

Kept ==
  /\ \A form \in FormId : acked[form] \in Nums(fired) \cup {0}
  /\ AckedIsStored
  /\ \A k \in 1..Len(Acks) : Promised(Acks[k])

LEMMA InitKept == Init => Kept
<1> SUFFICES ASSUME Init PROVE Kept
  OBVIOUS
<1>1. Acks = <<>>
  <2>1. <<>> \o <<>> = <<>>
    OBVIOUS
  <2> QED BY <2>1 DEF Init, PipelineInit, Acks
<1>2. \A form \in FormId : acked[form] = 0 /\ db[form] = 0
  BY DEF Init, Absent
<1> QED BY <1>1, <1>2 DEF Kept, AckedIsStored, Covers

LEMMA CoversPrimed ==
  ASSUME TypeOK'
  PROVE  \A form \in FormId, n \in Nat :
           Covers(form, n)' <=>
             \/ db'[form] >= n
             \/ db'[form] = Corrupt /\ \E f \in FailedNums' : f > n
<1>1. (\A form \in FormId, n \in Nat :
         Covers(form, n) <=>
           \/ db[form] >= n
           \/ db[form] = Corrupt /\ \E f \in FailedNums : f > n)'
  BY CoversFacts, PTL
<1> QED BY <1>1 DEF FormId, Corrupt

\* A version stays covered while failures are only added and the file keeps its version, gets a
\* newer one, or is torn by a newer request.
LEMMA StaysCovered ==
  ASSUME TypeOK, TypeOK', NEW form \in FormId, NEW n \in Nat, Covers(form, n),
         FailedNums \subseteq FailedNums',
         \/ db'[form] = db[form]
         \/ db'[form] >= n
         \/ db'[form] = Corrupt /\ \E f \in FailedNums' : f > n
  PROVE  Covers(form, n)'
<1>1. \/ db'[form] >= n
      \/ db'[form] = Corrupt /\ \E f \in FailedNums' : f > n
  <2>1. \/ db[form] >= n
        \/ db[form] = Corrupt /\ \E f \in FailedNums : f > n
    BY CoversFacts
  <2> QED BY <2>1
<1> QED BY <1>1, CoversPrimed

\* A step of the queue that gives no acknowledgement, to the queue or from it.
LEMMA KeptWithoutAck ==
  ASSUME TypeOK, TypeOK', Arranged, Kept, UNCHANGED <<Acks, acked, fired>>,
         FailedNums \subseteq FailedNums', NEW h \in Nat,
         \A x \in AckNums \cup Nums(fired) : x < h,
         \A form \in FormId :
           \/ db'[form] = db[form]
           \/ h # 0 /\ db'[form] = h
           \/ h # 0 /\ db'[form] = Corrupt /\ h \in FailedNums'
  PROVE  Kept'
<1>1. ASSUME NEW form \in FormId, NEW n \in AckNums \cup Nums(fired) \cup {0}, Covers(form, n)
      PROVE  n \in Nat /\ Covers(form, n)'
  <2>1. n \in Nat
    <3>1. CallbacksOf(Acks) \in Seq(Nat) /\ fired \in Seq(Nat)
      BY PlaceTypes
    <3>2. \A s \in Seq(Nat) : Nums(s) \subseteq Nat
      BY DEF Nums, Members
    <3> QED BY <3>1, <3>2 DEF AckNums
  <2>2. \/ db'[form] = db[form]
        \/ db'[form] >= n
        \/ db'[form] = Corrupt /\ \E f \in FailedNums' : f > n
    BY <2>1
  <2> QED BY <1>1, <2>1, <2>2, StaysCovered
<1>2. \A form \in FormId : acked[form] \in Nums(fired) \cup {0} /\ Covers(form, acked[form])
  BY DEF Kept, AckedIsStored
<1>3. \A form \in FormId : acked'[form] \in Nums(fired') \cup {0}
  BY <1>2
<1>4. AckedIsStored'
  BY <1>1, <1>2 DEF AckedIsStored, Covers
<1>5. ASSUME NEW k \in 1..Len(Acks) PROVE Promised(Acks[k])'
  <2>1. Acks[k] \in Task /\ Acks[k].callback \in AckNums
    <3>1. /\ Acks \in Seq(Task) /\ CallbacksOf(Acks) \in Seq(Nat) /\ Len(CallbacksOf(Acks)) = Len(Acks)
          /\ CallbacksOf(Acks)[k] = Acks[k].callback /\ Acks[k].callback # 0
      BY QueueFacts, CallbacksFacts
    <3> QED BY <3>1, ElementOfSeq DEF AckNums, Nums, Members
  <2>2. Promised(Acks[k])
    BY DEF Kept
  <2>3. \A i \in Idx : Acks[k].forms[i] # NoChange => Acks[k].forms[i].form \in FormId
    BY <2>1, TaskFacts
  <2> QED BY <1>1, <2>1, <2>2, <2>3 DEF Promised, Covers
<1> QED BY <1>3, <1>4, <1>5 DEF Kept, Nums, Members

\* A batch joins the acknowledgements when all of it is in the database.
LEMMA KeptWithSuccess ==
  ASSUME TypeOK, TypeOK', Kept, NEW t \in Task, Acks' = Append(Acks, t),
         UNCHANGED <<db, acked, fired>>, FailedNums' = FailedNums,
         \A i \in Idx : t.forms[i] # NoChange => db[t.forms[i].form] = t.callback
  PROVE  Kept'
<1>1. Acks \in Seq(Task) /\ t.callback \in Nat
  BY QueueFacts, TaskFacts, ClientAssumption
<1>2. ASSUME NEW form \in FormId, NEW n \in Nat, Covers(form, n) PROVE Covers(form, n)'
  BY <1>2, StaysCovered
<1>3. \A form \in FormId : acked[form] \in Nat
  BY TypeFacts
<1>4. AckedIsStored'
  BY <1>2, <1>3 DEF Kept, AckedIsStored, Covers
<1>5. ASSUME NEW u \in Task, Promised(u) PROVE Promised(u)'
  <2>1. u.callback \in Nat /\ \A i \in Idx : u.forms[i] # NoChange => u.forms[i].form \in FormId
    BY TaskFacts, ClientAssumption
  <2> QED BY <1>2, <1>5, <2>1 DEF Promised, Covers
<1>6. Promised(t)
  <2>1. \A i \in Idx : t.forms[i] # NoChange => t.forms[i].form \in FormId
    BY TaskFacts
  <2>2. \A i \in Idx : t.forms[i] # NoChange => db[t.forms[i].form] >= t.callback
    BY <1>1
  <2> QED BY <2>2 DEF Promised, Covers
<1>7. ASSUME NEW k \in 1..Len(Acks') PROVE Acks'[k] \in Task /\ Promised(Acks'[k])
  <2>1. CASE k \in 1..Len(Acks)
    <3>1. Acks'[k] = Acks[k]
      BY <1>1, <2>1
    <3> QED BY <1>1, <2>1, <3>1, ElementOfSeq DEF Kept
  <2>2. CASE ~(k \in 1..Len(Acks))
    <3>1. Acks'[k] = t
      BY <1>1, <2>2
    <3> QED BY <1>6, <3>1
  <2> QED BY <2>1, <2>2
<1>8. \A k \in 1..Len(Acks') : Promised(Acks[k])'
  BY <1>5, <1>7 DEF Promised, Covers
<1> QED BY <1>4, <1>8 DEF Kept, Nums, Members

\* A callback is called: what the batch has is acknowledged from now on.
LEMMA KeptWithCallback ==
  ASSUME TypeOK, TypeOK', Kept, Acks # <<>>, Acks' = Tail(Acks), UNCHANGED db,
         FailedNums' = FailedNums, acked' = AckedBy(Head(Acks)),
         Nums(fired)' = Nums(fired) \cup {Head(Acks).callback}
  PROVE  Kept'
<1> DEFINE t == Head(Acks)
<1>1. /\ Acks \in Seq(Task) /\ t = Acks[1] /\ 1 \in 1..Len(Acks) /\ t \in Task
      /\ Len(Acks') = Len(Acks) - 1
      /\ \A k \in 1..Len(Acks') : Acks'[k] = Acks[k + 1] /\ k + 1 \in 1..Len(Acks)
  BY QueueFacts, HeadTailProperties, EmptySeq
<1>2. ASSUME NEW form \in FormId, NEW n \in Nat, Covers(form, n) PROVE Covers(form, n)'
  BY <1>2, StaysCovered
<1>3. ASSUME NEW form \in FormId
      PROVE  \/ acked'[form] = acked[form]
             \/ acked'[form] = t.callback /\ Covers(form, t.callback)
  <2>1. Promised(t)
    BY <1>1 DEF Kept
  <2>2. acked'[form] = IF \E i \in Idx : t.forms[i] # NoChange /\ t.forms[i].form = form
                       THEN t.callback ELSE acked[form]
    BY DEF AckedBy
  <2> QED BY <2>1, <2>2 DEF Promised
<1>4. t.callback \in Nat /\ \A form \in FormId : acked[form] \in Nat
  BY <1>1, TaskFacts, ClientAssumption, TypeFacts
<1>5. ASSUME NEW form \in FormId PROVE Covers(form, acked[form])'
  <2>1. PICK n \in Nat : n = acked'[form] /\ Covers(form, n)
    BY <1>3, <1>4 DEF Kept, AckedIsStored
  <2>2. Covers(form, n)'
    BY <1>2, <2>1
  <2> QED BY <2>1, <2>2 DEF Covers
<1>6. AckedIsStored'
  BY <1>5 DEF AckedIsStored, FormId
<1>7. \A form \in FormId : acked'[form] \in Nums(fired)' \cup {0}
  BY <1>3 DEF Kept
<1>8. ASSUME NEW u \in Task, Promised(u) PROVE Promised(u)'
  <2>1. u.callback \in Nat /\ \A i \in Idx : u.forms[i] # NoChange => u.forms[i].form \in FormId
    BY TaskFacts, ClientAssumption
  <2> QED BY <1>2, <1>8, <2>1 DEF Promised, Covers
<1>9. \A k \in 1..Len(Acks') : Acks'[k] \in Task /\ Promised(Acks'[k])
  BY <1>1, ElementOfSeq DEF Kept
<1>10. \A k \in 1..Len(Acks') : Promised(Acks[k])'
  BY <1>8, <1>9 DEF Promised, Covers
<1> QED BY <1>6, <1>7, <1>10 DEF Kept, FormId

LEMMA SameKept ==
  ASSUME Kept, UNCHANGED <<db, Acks, Errors, fired, raised, acked>>
  PROVE  Kept'
<1>1. FailedRequests' = FailedRequests
  BY DEF FailedRequests, Members, Places, FailuresOf
<1>2. AckedIsStored'
  BY <1>1 DEF Kept, AckedIsStored, Covers, Corrupt, FormId
<1>3. \A k \in 1..Len(Acks) : Promised(Acks[k])'
  BY <1>1 DEF Kept, Promised, Covers, Corrupt, Idx
<1>4. \A form \in FormId : acked'[form] \in Nums(fired)' \cup {0}
  BY DEF Kept, Nums, Members
<1> QED BY <1>2, <1>3, <1>4 DEF Kept, FormId

-----------------------------------------------------------------------------
(* The steps of the queue.                                                  *)

AckedGrows == \A form \in FormId : acked[form] <= acked'[form]

LEMMA AckedStays == ASSUME TypeOK, UNCHANGED acked PROVE AckedGrows
<1>1. \A form \in FormId : acked[form] \in Nat
  BY TypeFacts
<1> QED BY <1>1 DEF AckedGrows

LEMMA HeadPending ==
  ASSUME TypeOK, Arranged, Pending # <<>>
  PROVE  /\ Head(Pending) \in Task /\ Head(Pending).callback \in Nat \ {0}
         /\ \A x \in AckNums \cup Nums(fired) : x < Head(Pending).callback
<1> DEFINE p == CallbacksOf(Pending)
<1>1. /\ Pending \in Seq(Task) /\ p \in Seq(Nat) /\ Len(p) = Len(Pending)
      /\ p # <<>> /\ Head(p) = Head(Pending).callback
  BY QueueFacts, CallbacksFacts
<1>2. Head(Pending) \in Task
  BY <1>1, HeadTailProperties
<1>3. Head(Pending).callback \in Nat \ {0}
  BY <1>2, TaskFacts, ClientAssumption
<1>4. Head(p) \in PendingNums
  <2>1. 1 \in DOMAIN p /\ Head(p) = p[1]
    BY <1>1, EmptySeq
  <2> QED BY <1>1, <1>3, <2>1 DEF PendingNums, Nums, Members
<1> QED BY <1>1, <1>2, <1>3, <1>4 DEF Arranged, PlacesOlder, Older

LEMMA RequestOutcomes ==
  ASSUME TypeOK, Arranged, Kept, RequestUpsert
  PROVE  Arranged' /\ Kept' /\ AckedGrows
<1>1. PICK t \in Task : Pending' = Append(Pending, t) /\ t.callback = requested + 1
  BY RequestAppends
<1>2. requested' = requested + 1 /\ UNCHANGED <<db, Acks, Errors, fired, raised, acked>>
  BY RequestAppends
<1>3. Arranged'
  BY <1>1, <1>2, RequestArranged
<1> QED BY <1>2, <1>3, SameKept, AckedStays

LEMMA StoreOutcomes ==
  ASSUME IInv, TypeOK', Arranged, Kept, SaverStoreRecord, UNCHANGED <<clientVars, history>>
  PROVE  Arranged' /\ Kept' /\ AckedGrows
<1>1. /\ TypeOK /\ tasks # <<>>
      /\ UNCHANGED <<Pending, Acks, Errors, fired, raised, requested, acked>>
  BY DEF IInv, SaverStoreRecord, Upserting, shareVars, tickVars, clientVars, history,
         Pending, Acks, Errors
<1>2. /\ Pending # <<>> /\ Head(Pending) = Head(tasks) /\ Head(tasks) \in Task
      /\ Head(tasks).callback \in Nat \ {0}
      /\ \A x \in AckNums \cup Nums(fired) : x < Head(tasks).callback
  BY <1>1, CurrentIsFirst, HeadPending
<1>3. PICK i \in Idx : /\ Head(tasks).forms[i] # NoChange
                       /\ StoreRecord(Head(tasks).forms[i].form, Head(tasks).forms[i].ver)
  BY DEF SaverStoreRecord, NextRecord
<1>4. Head(tasks).forms[i].ver = Head(tasks).callback
  <2>1. tasks \in Seq(Task) /\ Head(tasks) = tasks[1] /\ 1 \in 1..Len(tasks)
    BY <1>1, TypeFacts, EmptySeq
  <2> QED BY <1>3, <2>1 DEF IInv, BatchesSeparate, Separate
<1>5. \A form \in FormId : db'[form] = db[form] \/ db'[form] = Head(tasks).callback
  BY <1>1, <1>3, <1>4, TypeFacts DEF StoreRecord
<1>6. FailedNums' = FailedNums
  BY <1>1 DEF FailedNums, ErrorNums, Nums, Members, FailuresOf
<1>7. Kept'
  BY <1>1, <1>2, <1>5, <1>6, KeptWithoutAck
<1> QED BY <1>1, <1>7, SameArranged, AckedStays

LEMMA SucceedOutcomes ==
  ASSUME IInv, TypeOK', Arranged, Kept, SaverUpsertSucceeds, UNCHANGED <<clientVars, history>>
  PROVE  Arranged' /\ Kept' /\ AckedGrows
<1>1. TypeOK /\ tasks # <<>> /\ UNCHANGED <<fired, raised, requested, acked>>
  BY DEF IInv, SaverUpsertSucceeds, Upserting, clientVars, history
<1>2. /\ Pending # <<>> /\ Head(Pending) = Head(tasks) /\ Head(tasks) \in Task
  BY <1>1, CurrentIsFirst
<1>3. /\ \A r \in Queue!Records(Head(Pending)) : db[r.form] = r.ver
      /\ Acks' = Append(Acks, Head(Pending)) /\ Pending' = Tail(Pending)
      /\ UNCHANGED <<db, Errors>>
  BY SucceedRefines DEF Queue!Succeed, Pending, Acks, Errors
<1>4. \A i \in Idx : Head(tasks).forms[i] # NoChange =>
                       db[Head(tasks).forms[i].form] = Head(tasks).callback
  <2>1. tasks \in Seq(Task) /\ Head(tasks) = tasks[1] /\ 1 \in 1..Len(tasks)
    BY <1>1, TypeFacts, EmptySeq
  <2>2. Separate(Head(tasks))
    BY <2>1 DEF IInv, BatchesSeparate
  <2> QED BY <1>2, <1>3, <2>2, RecordsOf DEF Separate
<1>5. Arranged'
  BY <1>1, <1>2, <1>3, SettleArranged
<1>6. FailedNums' = FailedNums
  BY <1>1, <1>3 DEF FailedNums, ErrorNums, Nums, Members, FailuresOf
<1>7. Kept'
  BY <1>1, <1>2, <1>3, <1>4, <1>6, KeptWithSuccess
<1> QED BY <1>1, <1>5, <1>7, AckedStays

LEMMA FailOutcomes ==
  ASSUME TypeOK, TypeOK', Arranged, Kept, SaverUpsertFails, UNCHANGED <<clientVars, history>>
  PROVE  Arranged' /\ Kept' /\ AckedGrows
<1>1. UNCHANGED <<fired, raised, requested, acked>>
  BY DEF clientVars, history
<1>2. /\ Pending # <<>> /\ Pending' = Tail(Pending) /\ UNCHANGED Acks
      /\ Errors' = Append(Errors, UpsertFailed(Head(Pending)))
  BY FailRefines DEF Queue!Fail, Queue!Failed, UpsertFailed, Pending, Acks, Errors
<1>3. /\ Head(Pending) \in Task /\ Head(Pending).callback \in Nat \ {0}
      /\ \A x \in AckNums \cup Nums(fired) : x < Head(Pending).callback
  BY <1>2, HeadPending
<1>4. Arranged' /\ ErrorNums \subseteq ErrorNums' /\ Head(Pending).callback \in ErrorNums'
  <2>1. /\ Arranged' /\ ErrorNums \subseteq ErrorNums'
        /\ UNCHANGED Errors \/ Head(Pending).callback \in ErrorNums'
    BY <1>1, <1>2, SettleArranged
  <2>2. Errors' # Errors
    <3>1. Errors \in Seq(Error) /\ UpsertFailed(Head(Pending)) \in Error
      BY <1>3, QueueFacts, ErrorFacts
    <3>2. Len(Errors) \in Nat /\ Len(Errors') = Len(Errors) + 1
      BY <1>2, <3>1
    <3> QED BY <3>2
  <2> QED BY <2>1, <2>2
<1>5. FailedNums \subseteq FailedNums' /\ Head(Pending).callback \in FailedNums'
  BY <1>1, <1>4 DEF FailedNums, Nums, Members
<1>6. \A form \in FormId : db'[form] = db[form] \/ db'[form] = Corrupt
  <2>1. RejectRecord \/ \E form \in FormId \cup {Head(tasks).forms[i].form : i \in Idx} :
                          TruncateRecord(form)
    BY DEF SaverUpsertFails
  <2>2. db \in [FormId -> Stored]
    BY TypeFacts
  <2> QED BY <2>1, <2>2 DEF RejectRecord, TruncateRecord
<1>7. Kept'
  BY <1>1, <1>2, <1>3, <1>5, <1>6, KeptWithoutAck
<1> QED BY <1>1, <1>4, <1>7, AckedStays

LEMMA CallbackOutcomes ==
  ASSUME TypeOK, TypeOK', Arranged, Kept, CallUpsertCallback \/ UpsertCallbackThrows
  PROVE  Arranged' /\ Kept' /\ AckedGrows
<1>1. /\ prepared # <<>> /\ fired' = Append(fired, Head(prepared).callback)
      /\ acked' = AckedBy(Head(prepared)) /\ UNCHANGED <<raised, requested>>
  BY DEF CallUpsertCallback, UpsertCallbackThrows, TickFireUpsertCallback,
         TickUpsertCallbackThrows, FiringUpsert, clientVars
<1>2. /\ Acks # <<>> /\ Acks' = Tail(Acks) /\ UNCHANGED <<db, Pending, Errors>>
  BY CallbackRefines DEF Queue!DeliverAck, Pending, Acks, Errors
<1>3. Head(Acks) = Head(prepared)
  <2>1. /\ prepared \in Seq(Task) /\ upsertCallbacksToFire \in Seq(Task) /\ okTasks \in Seq(Task)
        /\ prepared \o upsertCallbacksToFire \in Seq(Task)
    BY TypeFacts, QueueFacts
  <2>2. /\ prepared \o upsertCallbacksToFire # <<>>
        /\ Head(prepared \o upsertCallbacksToFire) = Head(prepared)
    BY <1>1, <2>1, TailConcat
  <2> QED BY <2>1, <2>2, TailConcat DEF Acks
<1>4. /\ Arranged' /\ (ErrorNums \cup Nums(raised))' = ErrorNums \cup Nums(raised)
      /\ UNCHANGED <<Acks, fired>> \/ Nums(fired)' = Nums(fired) \cup {Head(Acks).callback}
  BY <1>1, <1>2, <1>3, DeliverArranged
<1>5. ~UNCHANGED fired
  <2>1. fired \in Seq(Callback) /\ Head(prepared) \in Task
    BY <1>1, TypeFacts, HeadTailProperties
  <2>2. Head(prepared).callback \in Callback
    BY <2>1, TaskFacts
  <2>3. Len(fired) \in Nat /\ Len(fired') = Len(fired) + 1
    BY <1>1, <2>1, <2>2
  <2> QED BY <2>3
<1>6. Kept'
  BY <1>1, <1>2, <1>3, <1>4, <1>5, KeptWithCallback DEF FailedNums
<1>7. AckedGrows
  <2> DEFINE h == Head(Acks).callback
  <2>1. h \in AckNums
    <3>1. /\ Acks \in Seq(Task) /\ CallbacksOf(Acks) \in Seq(Nat) /\ Len(CallbacksOf(Acks)) = Len(Acks)
          /\ \A k \in 1..Len(Acks) : CallbacksOf(Acks)[k] = Acks[k].callback /\ Acks[k].callback # 0
      BY QueueFacts, CallbacksFacts
    <3>2. 1 \in 1..Len(Acks) /\ Head(Acks) = Acks[1]
      BY <1>2, <3>1, EmptySeq
    <3> QED BY <3>1, <3>2 DEF AckNums, Nums, Members
  <2>2. \A x \in Nums(fired) : x < h
    BY <2>1 DEF Arranged, PlacesOlder, Older
  <2>3. h \in Nat /\ h # 0 /\ \A form \in FormId : acked[form] \in Nat
    <3>1. Acks \in Seq(Task)
      BY QueueFacts
    <3>2. Head(Acks) \in Task
      BY <1>2, <3>1, HeadTailProperties
    <3> QED BY <3>2, TaskFacts, ClientAssumption, TypeFacts
  <2>4. \A form \in FormId : acked[form] <= h
    BY <2>2, <2>3 DEF Kept
  <2>5. \A form \in FormId : acked'[form] = acked[form] \/ acked'[form] = h
    BY <1>1, <1>3 DEF AckedBy
  <2> QED BY <2>3, <2>4, <2>5 DEF AckedGrows
<1> QED BY <1>4, <1>6, <1>7

\* No acknowledgement is above the requests.
LEMMA AcksRequested ==
  ASSUME TypeOK, Arranged
  PROVE  requested + 1 \in Nat /\ \A x \in AckNums \cup Nums(fired) : x < requested + 1
<1>1. requested \in Nat
  BY PlaceTypes
<1> QED BY <1>1 DEF Arranged, PlacesSplit

LEMMA RethrowOutcomes ==
  ASSUME TypeOK, TypeOK', Arranged, Kept, Rethrow
  PROVE  Arranged' /\ Kept' /\ AckedGrows
<1>1. /\ Errors # <<>> /\ Errors' = Tail(Errors) /\ UNCHANGED <<db, Pending, Acks>>
  BY RethrowRefines DEF Queue!DeliverError, Pending, Acks, Errors
<1>2. /\ exceptions # <<>> /\ UNCHANGED <<requested, fired, acked>>
      /\ raised' = IF Head(exceptions).kind = "upsert"
                   THEN Append(raised, Head(exceptions).task.callback) ELSE raised
  BY DEF Rethrow, TickRethrow, clientVars
<1>3. Head(Errors) = Head(exceptions)
  <2>1. exceptions \in Seq(Error) /\ Failures(failedTasks) \in Seq(Error)
    BY TypeFacts, QueueFacts
  <2> QED BY <1>2, <2>1, TailConcat DEF Errors
<1>4. Arranged' /\ (ErrorNums \cup Nums(raised))' = ErrorNums \cup Nums(raised)
  BY <1>1, <1>2, <1>3, DeliverArranged
<1>5. Kept'
  BY <1>1, <1>2, <1>4, AcksRequested, KeptWithoutAck DEF FailedNums
<1> QED BY <1>2, <1>4, <1>5, AckedStays

LEMMA SameOutcomes ==
  ASSUME TypeOK, Arranged, Kept, UNCHANGED <<Queue!vars, fired, raised, requested, acked>>
  PROVE  Arranged' /\ Kept' /\ AckedGrows
<1>1. UNCHANGED <<db, Pending, Acks, Errors>>
  BY DEF Queue!vars, Pending, Acks, Errors
<1> QED BY <1>1, SameArranged, SameKept, AckedStays

LEMMA LoopsOutcomes ==
  ASSUME IInv, TypeOK', Arranged, Kept, SaverLoops
  PROVE  Arranged' /\ Kept' /\ AckedGrows
<1>1. TypeOK /\ UNCHANGED <<fired, raised, requested, acked>>
  BY DEF IInv, SaverLoops, clientVars, history
<1>2. CASE UNCHANGED Queue!vars
  BY <1>1, <1>2, SameOutcomes
<1>3. CASE Queue!OtherErrors
  <2>1. UNCHANGED <<db, Pending, Acks>>
    BY <1>3 DEF Queue!OtherErrors, Pending, Acks, Errors
  <2>2. Arranged' /\ ErrorNums' = ErrorNums
    BY <1>1, <1>3, OtherErrorsArranged
  <2>3. FailedNums' = FailedNums
    BY <1>1, <2>2 DEF FailedNums, Nums, Members
  <2>4. Kept'
    BY <1>1, <2>1, <2>3, AcksRequested, KeptWithoutAck
  <2> QED BY <1>1, <2>2, <2>4, AckedStays
<1> QED BY <1>2, <1>3, LoopsRefines

LEMMA NextOutcomes ==
  ASSUME IInv, TypeOK', Arranged, Kept, [Next]_vars
  PROVE  Arranged' /\ Kept' /\ AckedGrows
<1>1. TypeOK
  BY DEF IInv
<1>2. CASE UNCHANGED vars
  <2>1. UNCHANGED <<db, Pending, Acks, Errors, fired, raised, requested, acked>>
    BY <1>2 DEF vars, pipelineVars, shareVars, saverVars, tickVars, history, clientVars,
                Pending, Acks, Errors
  <2> QED BY <1>1, <2>1, Unseen, SameOutcomes
<1>3. ASSUME \/ RequestIterate \/ TakeRecycledBuffer \/ Destroy
             \/ SaverTakeIterates \/ SaverIterate \/ SaverPublishIterates
      PROVE  Arranged' /\ Kept' /\ AckedGrows
  <2>1. UNCHANGED <<db, Pending, Acks, Errors, fired, raised, requested, acked>>
    BY <1>3 DEF RequestIterate, TakeRecycledBuffer, GetRecycledChangeFormsBuffer, Destroy,
                SaverTakeIterates, SaverIterate, SaverPublishIterates, pipelineVars, shareVars,
                saverVars, tickVars, history, clientVars, Pending, Acks, Errors
  <2> QED BY <1>1, <2>1, Unseen, SameOutcomes
<1>4. ASSUME \/ StartTick \/ UpsertCallbacksDone \/ TakeIterateCallbacks
             \/ CallIterateCallback \/ TickReturns
      PROVE  Arranged' /\ Kept' /\ AckedGrows
  <2>1. UNCHANGED <<db, shareVars, saverVars, prepared, fired, raised, requested, acked>>
    BY <1>4 DEF StartTick, TickNoException, UpsertCallbacksDone, TickUpsertCallbacksDone,
                TakeIterateCallbacks, CallIterateCallback, TickReturns, history, clientVars
  <2>2. UNCHANGED <<db, Pending, Acks, Errors, fired, raised, requested, acked>>
    BY <2>1 DEF shareVars, saverVars, Pending, Acks, Errors
  <2> QED BY <1>1, <2>2, Unseen, SameOutcomes
<1>5. CASE TakeUpsertCallbacks
  <2>1. UNCHANGED <<fired, raised, requested, acked>>
    BY <1>5 DEF TakeUpsertCallbacks, history, clientVars
  <2> QED BY <1>1, <1>5, <2>1, TakeCallbacksUnseen, SameOutcomes
<1>6. CASE MainStep
  BY <1>1, <1>3, <1>4, <1>5, <1>6, RequestOutcomes, RethrowOutcomes, CallbackOutcomes DEF MainStep
<1>7. CASE SaverUpserts
  <2>1. UNCHANGED <<clientVars, history>> /\ UNCHANGED <<fired, raised, requested, acked>>
    BY <1>7 DEF SaverUpserts, history, clientVars
  <2>2. CASE SaverTakeUpserts \/ SaverPublishCallbacks \/ SaverPublishExceptions("takeIterates")
    BY <1>1, <2>1, <2>2, PublishUnseen, SameOutcomes
  <2> QED BY <1>1, <1>7, <2>1, <2>2, StoreOutcomes, SucceedOutcomes, FailOutcomes DEF SaverUpserts
<1>8. CASE SaverStep
  BY <1>3, <1>7, <1>8, LoopsOutcomes DEF SaverStep
<1> QED BY <1>2, <1>6, <1>8 DEF Next

-----------------------------------------------------------------------------
(* Iterates.                                                                *)

Low == {t \in IterateTask : \A form \in FormId : t.floor[form] <= acked[form]}
Good == {r \in IterateResult : SeesFloor(r)}

\* The floor of a waiting iterate is acknowledged, and a result has what its iterate asked for.
Floors ==
  /\ iterateTasks \in Seq(Low) /\ iterating \in Seq(Low)
  /\ iterateOk \in Seq(Good) /\ iterateCallbacksToFire \in Seq(Good)
  /\ preparedIterates \in Seq(Good) /\ iterated \in Seq(Good)

LEMMA InitFloors == Init => Floors
<1>1. \A S : <<>> \in Seq(S)
  OBVIOUS
<1> QED BY <1>1 DEF Init, Floors

LEMMA FloorSets ==
  ASSUME TypeOK, TypeOK', AckedGrows
  PROVE  /\ Good' = Good /\ Low \subseteq Low'
         /\ \A s \in Seq(Low) : s \in Seq(Low')
<1>1. \A t \in IterateTask, form \in FormId : t.floor[form] \in Nat
  BY DEF IterateTask
<1>2. Good' = Good
  BY DEF Good, IterateResult, IterateTask, Stored, SeesFloor, Corrupt, FormId
<1>3. IterateTask' = IterateTask /\ FormId' = FormId
  BY DEF IterateTask, FormId
<1>4. Low' = {t \in IterateTask : \A form \in FormId : t.floor[form] <= acked'[form]}
  BY <1>3 DEF Low, FormId
<1>5. ASSUME NEW t \in Low PROVE t \in Low'
  <2>1. ASSUME NEW form \in FormId PROVE t.floor[form] <= acked'[form]
    <3>1. /\ t.floor[form] \in Nat /\ acked[form] \in Nat /\ acked[form] <= acked'[form]
          /\ t.floor[form] <= acked[form]
      BY <1>1, TypeFacts DEF Low, AckedGrows
    <3>2. acked' \in [FormId -> Nat]
      BY DEF TypeOK, FormId
    <3> QED BY <3>1, <3>2
  <2> QED BY <1>4, <2>1 DEF Low
<1>6. ASSUME NEW s \in Seq(Low) PROVE s \in Seq(Low')
  <2>1. \A n \in 1..Len(s) : s[n] \in Low'
    BY <1>5, ElementOfSeq
  <2> QED BY <2>1
<1> QED BY <1>2, <1>5, <1>6

\* The sequences a step leaves alone stay what they are.
LEMMA SameFloors ==
  ASSUME TypeOK, TypeOK', AckedGrows, Floors, UNCHANGED <<iterateVars, iterated>>
  PROVE  Floors'
BY FloorSets DEF Floors, iterateVars

LEMMA IterateFloors ==
  ASSUME TypeOK, TypeOK', AckedGrows, Floors, AckedIsStored, SaverIterate
  PROVE  Floors'
<1> DEFINE t == Head(iterating)
           r == [task |-> t, view |-> db]
<1>1. iterating # <<>> /\ iterating' = Tail(iterating) /\ iterating \in Seq(Low)
  BY DEF SaverIterate, Floors
<1>2. t \in Low /\ iterating' \in Seq(Low)
  BY <1>1, HeadTailProperties
<1>3. r \in Good
  <2>1. t \in IterateTask /\ \A form \in FormId : t.floor[form] \in Nat /\ t.floor[form] <= acked[form]
    BY <1>2 DEF Low, IterateTask
  <2>2. db \in [FormId -> Stored] /\ \A form \in FormId : acked[form] \in Nat
    BY TypeFacts
  <2>3. \A form \in FormId : db[form] >= acked[form] \/ db[form] = Corrupt
    BY DEF AckedIsStored, Covers
  <2>4. \A form \in FormId : db[form] \in Int
    BY <2>2 DEF Stored, Corrupt
  <2>5. \A form \in FormId : db[form] >= t.floor[form] \/ db[form] = Corrupt
    BY <2>1, <2>2, <2>3, <2>4
  <2>6. r \in IterateResult
    BY <2>1, <2>2 DEF IterateResult
  <2> QED BY <2>5, <2>6 DEF Good, SeesFloor
<1> HIDE DEF t, r
<1>4. iterateOk' \in Seq(Good)
  <2>1. iterateOk' = Append(iterateOk, r) \/ iterateOk' = iterateOk
    BY DEF SaverIterate, t, r
  <2>2. iterateOk \in Seq(Good)
    BY DEF Floors
  <2> QED BY <1>3, <2>1, <2>2
<1>5. UNCHANGED <<iterateTasks, iterateCallbacksToFire, preparedIterates, iterated>>
  BY DEF SaverIterate, history
<1> QED BY <1>2, <1>4, <1>5, FloorSets DEF Floors

LEMMA NextFloors ==
  ASSUME TypeOK, TypeOK', AckedGrows, Floors, AckedIsStored, [Next]_vars
  PROVE  Floors'
<1>1. \A S : <<>> \in Seq(S)
  OBVIOUS
<1>2. CASE UNCHANGED vars
  <2>1. UNCHANGED <<iterateVars, iterated>>
    BY <1>2 DEF vars, history
  <2> QED BY <2>1, SameFloors
<1>3. CASE RequestIterate
  <2> DEFINE t == [id |-> requestedIterates + 1, floor |-> acked]
  <2>1. /\ iterateTasks' = Append(iterateTasks, t)
        /\ UNCHANGED <<iterateCallbacksToFire, iterating, iterateOk, preparedIterates, iterated>>
    BY <1>3 DEF RequestIterate, history
  <2>2. t \in Low
    <3>1. requestedIterates + 1 \in 1..MaxIterates
      <4>1. requestedIterates \in 0..MaxIterates /\ MaxIterates \in Nat
        BY IterateTypeFacts, ClientAssumption
      <4> QED BY <1>3, <4>1 DEF RequestIterate
    <3>2. acked \in [FormId -> Nat]
      BY TypeFacts
    <3> QED BY <3>1, <3>2 DEF Low, IterateTask
  <2> HIDE DEF t
  <2>3. iterateTasks' \in Seq(Low)
    BY <2>1, <2>2 DEF Floors
  <2> QED BY <2>1, <2>3, FloorSets DEF Floors
<1>4. CASE SaverTakeIterates
  <2>1. /\ iterating' = iterateTasks /\ iterateTasks' = <<>>
        /\ UNCHANGED <<iterateCallbacksToFire, iterateOk, preparedIterates, iterated>>
    BY <1>4 DEF SaverTakeIterates, history
  <2>2. iterateTasks' \in Seq(Low')
    BY <1>1, <2>1
  <2>3. iterating' \in Seq(Low')
    BY <2>1, FloorSets DEF Floors
  <2> QED BY <2>1, <2>2, <2>3, FloorSets DEF Floors
<1>5. CASE SaverPublishIterates
  <2>1. /\ iterateCallbacksToFire' = iterateCallbacksToFire \o iterateOk /\ iterateOk' = <<>>
        /\ UNCHANGED <<iterateTasks, iterating, preparedIterates, iterated>>
    BY <1>5 DEF SaverPublishIterates, history
  <2>2. iterateCallbacksToFire' \in Seq(Good) /\ iterateOk' \in Seq(Good)
    BY <1>1, <2>1, ConcatProperties DEF Floors
  <2> QED BY <2>1, <2>2, FloorSets DEF Floors
<1>6. CASE TakeIterateCallbacks
  <2>1. /\ preparedIterates' = preparedIterates \o iterateCallbacksToFire
        /\ iterateCallbacksToFire' = <<>>
        /\ UNCHANGED <<iterateTasks, iterating, iterateOk, iterated>>
    BY <1>6 DEF TakeIterateCallbacks, history
  <2>2. preparedIterates' \in Seq(Good) /\ iterateCallbacksToFire' \in Seq(Good)
    BY <1>1, <2>1, ConcatProperties DEF Floors
  <2> QED BY <2>1, <2>2, FloorSets DEF Floors
<1>7. CASE CallIterateCallback
  <2>1. /\ preparedIterates # <<>> /\ preparedIterates' = Tail(preparedIterates)
        /\ iterated' = Append(iterated, Head(preparedIterates))
        /\ UNCHANGED <<iterateTasks, iterateCallbacksToFire, iterating, iterateOk>>
    BY <1>7 DEF CallIterateCallback
  <2>2. Head(preparedIterates) \in Good /\ preparedIterates' \in Seq(Good)
    BY <2>1, HeadTailProperties DEF Floors
  <2>3. iterated' \in Seq(Good)
    BY <2>1, <2>2 DEF Floors
  <2> QED BY <2>1, <2>2, <2>3, FloorSets DEF Floors
<1>8. CASE SaverLoops
  <2>1. UNCHANGED <<iterateTasks, iterateCallbacksToFire, iterating, iterateOk, preparedIterates,
                    iterated>>
    BY <1>8 DEF SaverLoops, history
  <2> QED BY <2>1, FloorSets DEF Floors
<1>9. ASSUME \/ RequestUpsert \/ TakeRecycledBuffer \/ Destroy \/ Rethrow \/ StartTick
             \/ TakeUpsertCallbacks \/ CallUpsertCallback \/ UpsertCallbackThrows
             \/ UpsertCallbacksDone \/ TickReturns \/ SaverUpserts
      PROVE  Floors'
  <2>1. UNCHANGED <<iterateVars, iterated>>
    BY <1>9 DEF RequestUpsert, TakeRecycledBuffer, Destroy, Rethrow, StartTick,
                TakeUpsertCallbacks, CallUpsertCallback, UpsertCallbackThrows,
                UpsertCallbacksDone, TickReturns, SaverUpserts, history
  <2> QED BY <2>1, SameFloors
<1> QED BY <1>2, <1>3, <1>4, <1>5, <1>6, <1>7, <1>8, <1>9, IterateFloors
        DEF Next, MainStep, SaverStep

-----------------------------------------------------------------------------
(* The theorems.                                                            *)

OInv == IInv /\ Arranged /\ Kept /\ Floors

LEMMA OInvHolds == Spec => []OInv
<1>1. Init => OInv
  BY InitIInv, InitArranged, InitKept, InitFloors DEF OInv
<1>2. OInv /\ [Next]_vars => OInv'
  <2> SUFFICES ASSUME OInv, [Next]_vars PROVE OInv'
    OBVIOUS
  <2>1. IInv' /\ TypeOK /\ TypeOK' /\ AckedIsStored
    BY NextIInv DEF OInv, IInv, Kept
  <2>2. Arranged' /\ Kept' /\ AckedGrows
    BY <2>1, NextOutcomes DEF OInv
  <2>3. Floors'
    BY <2>1, <2>2, NextFloors DEF OInv
  <2> QED BY <2>1, <2>2, <2>3 DEF OInv
<1> QED BY <1>1, <1>2, PTL DEF Spec

LEMMA ArrangedInOnePlace ==
  ASSUME TypeOK, Arranged
  PROVE  EveryRequestInOnePlace
<1> DEFINE Names == DOMAIN Places
<1>1. Names = {"pending", "acks", "fired", "errors", "raised"}
  BY DEF Places
<1>2. /\ Places["pending"] = CallbacksOf(Pending) /\ Places["acks"] = CallbacksOf(Acks)
      /\ Places["fired"] = fired /\ Places["errors"] = FailuresOf(Errors)
      /\ Places["raised"] = raised
  BY DEF Places
<1>3. \A p \in Names : Places[p] \in Seq(Nat) /\ Sorted(Places[p])
  BY <1>1, <1>2, PlaceTypes DEF Arranged, InOrder
<1>4. /\ Nums(Places["pending"]) = PendingNums /\ Nums(Places["acks"]) = AckNums
      /\ Nums(Places["errors"]) = ErrorNums
  BY <1>2 DEF PendingNums, AckNums, ErrorNums
<1>5. \A n : (\E p \in Names : n \in Nums(Places[p])) <=> n \in 1..requested
  BY <1>1, <1>2, <1>4 DEF Arranged, PlacesSplit
<1>6. ASSUME NEW p \in Names, NEW q \in Names, NEW n \in Nums(Places[p]), n \in Nums(Places[q])
      PROVE  p = q
  <2>1. n \in Nat
    BY <1>3 DEF Nums, Members
  <2>2. ~(n < n)
    BY <2>1
  <2>3. /\ ~(n \in Nums(fired) /\ n \in AckNums) /\ ~(n \in Nums(raised) /\ n \in ErrorNums)
        /\ n \in PendingNums =>
             n \notin AckNums /\ n \notin Nums(fired) /\ n \notin ErrorNums /\ n \notin Nums(raised)
        /\ n \in AckNums \/ n \in Nums(fired) => n \notin ErrorNums /\ n \notin Nums(raised)
    BY <2>2 DEF Arranged, PlacesOlder, PlacesSplit, Older
  <2> QED BY <1>1, <1>2, <1>4, <1>6, <2>3
<1> HIDE DEF Names
<1>7. ASSUME NEW n \in 1..MaxUpserts
      PROVE  \A o : o \in PlacesOf(n) <=>
                      \E p \in Names : \E k \in 1..Len(Places[p]) : o = <<p, k>> /\ Places[p][k] = n
  BY <1>3 DEF PlacesOf, Names
<1>8. ASSUME NEW n \in 1..MaxUpserts
      PROVE  \A p \in Names : \A k \in 1..Len(Places[p]) : Places[p][k] = n => n \in Nums(Places[p])
  BY <1>3, ClientAssumption DEF Nums, Members
<1>9. ASSUME NEW n \in 1..MaxUpserts
      PROVE  PlacesOf(n) # {} <=> n <= requested
  <2>1. n \in Nat /\ n >= 1 /\ requested \in Nat
    BY ClientAssumption, PlaceTypes
  <2>2. ASSUME NEW p \in Names, n \in Nums(Places[p]) PROVE PlacesOf(n) # {}
    <3>1. PICK k \in 1..Len(Places[p]) : Places[p][k] = n
      BY <1>3, <2>2 DEF Nums, Members
    <3> QED BY <1>7, <3>1
  <2> QED BY <1>5, <1>7, <1>8, <2>1, <2>2
<1>10. ASSUME NEW n \in 1..MaxUpserts, NEW o1 \in PlacesOf(n), NEW o2 \in PlacesOf(n)
       PROVE  o1 = o2
  <2>1. PICK p1 \in Names : \E k \in 1..Len(Places[p1]) : o1 = <<p1, k>> /\ Places[p1][k] = n
    BY <1>7
  <2>2. PICK p2 \in Names : \E k \in 1..Len(Places[p2]) : o2 = <<p2, k>> /\ Places[p2][k] = n
    BY <1>7
  <2>3. PICK k1 \in 1..Len(Places[p1]) : o1 = <<p1, k1>> /\ Places[p1][k1] = n
    BY <2>1
  <2>4. PICK k2 \in 1..Len(Places[p2]) : o2 = <<p2, k2>> /\ Places[p2][k2] = n
    BY <2>2
  <2>5. p1 = p2
    BY <1>6, <1>8, <2>3, <2>4
  <2>6. n \in Nat /\ n # 0 /\ ~(n < n)
    BY ClientAssumption
  <2>7. ~(k1 < k2) /\ ~(k2 < k1)
    BY <1>3, <2>3, <2>4, <2>5, <2>6 DEF Sorted
  <2>8. k1 \in Nat /\ k2 \in Nat
    BY <1>3
  <2> QED BY <2>3, <2>4, <2>5, <2>7, <2>8
<1> QED BY <1>9, <1>10 DEF EveryRequestInOnePlace

\* Every request is in exactly one place, outcomes come in the order of the requests,
\* acknowledged versions are stored, and a shutdown leaves no batch half done: what
\* AsyncSaveStorage promises its client, however many forms, upserts and iterates there are.
THEOREM InvHolds == Spec => []Inv
<1>1. OInv => Inv
  <2> SUFFICES ASSUME OInv PROVE Inv
    OBVIOUS
  <2>1. TypeOK /\ Arranged /\ AckedIsStored
    BY DEF OInv, IInv, Kept
  <2>2. ShutdownTearsNoBatch
    BY DEF OInv, IInv, SectionsEnd, ShutdownTearsNoBatch
  <2>3. OutcomesInRequestOrder
    <3>1. /\ fired \in Seq(Nat) /\ \A n \in 1..Len(fired) : fired[n] # 0
          /\ raised \in Seq(Nat) /\ \A n \in 1..Len(raised) : raised[n] # 0
      BY <2>1, PlaceTypes
    <3>2. Sorted(fired) /\ Sorted(raised)
      BY <2>1 DEF Arranged, InOrder
    <3>3. ASSUME NEW s \in Seq(Nat), \A n \in 1..Len(s) : s[n] # 0, Sorted(s)
          PROVE  Increasing(s)
      <4>1. DOMAIN s = 1..Len(s)
        OBVIOUS
      <4> QED BY <3>3, <4>1, Zenon DEF Increasing, Sorted
    <3>4. Increasing(fired)
      BY <3>1, <3>2, <3>3
    <3>5. Increasing(raised)
      BY <3>1, <3>2, <3>3
    <3> QED BY <3>4, <3>5 DEF OutcomesInRequestOrder
  <2> QED BY <2>1, <2>2, <2>3, ArrangedInOnePlace DEF Inv
<1> QED BY <1>1, OInvHolds, PTL

\* An iterate sees every upsert that was acknowledged when it was requested, wherever its
\* result is: the two queues of the storage do not let it overtake them (ProcessIterates).
THEOREM IterateSeesAckedHolds == Spec => []IterateSeesAcked
<1>1. OInv => IterateSeesAcked
  <2> SUFFICES ASSUME OInv PROVE IterateSeesAcked
    OBVIOUS
  <2>1. ASSUME NEW s \in Seq(Good), NEW n \in DOMAIN s PROVE SeesFloor(s[n])
    BY <2>1 DEF Good
  <2> QED BY <2>1 DEF OInv, Floors, IterateSeesAcked
<1> QED BY <1>1, OInvHolds, PTL
=============================================================================
