-------------------------- MODULE WorldSave_proofs --------------------------
(***************************************************************************)
(* Proofs about WorldSave for every number of forms and indices: type      *)
(* correctness, and the inductive invariant that gives NothingLost,        *)
(* SingleFlight, NoHiddenChange, SnapshotOnAck and FilesGrow.              *)
(***************************************************************************)
EXTENDS WorldSave, SequenceTheorems, TLAPS

(* Sequences.                                                              *)

\* The elements of a concatenation are those of its parts.
LEMMA RangeConcat ==
  ASSUME NEW S, NEW s \in Seq(S), NEW t \in Seq(S)
  PROVE  /\ s \o t \in Seq(S)
         /\ Len(s \o t) = Len(s) + Len(t)
         /\ Range(s \o t) = Range(s) \cup Range(t)
<1>1. /\ s \o t \in Seq(S)
      /\ Len(s \o t) = Len(s) + Len(t)
      /\ \A i \in 1..Len(s) + Len(t) :
           (s \o t)[i] = IF i <= Len(s) THEN s[i] ELSE t[i - Len(s)]
  BY ConcatProperties
<1>2. /\ DOMAIN s = 1..Len(s) /\ DOMAIN t = 1..Len(t)
      /\ DOMAIN (s \o t) = 1..Len(s) + Len(t)
      /\ Len(s) \in Nat /\ Len(t) \in Nat
  BY <1>1, LenProperties
<1>3. ASSUME NEW x \in Range(s) \cup Range(t) PROVE x \in Range(s \o t)
  <2>1. CASE x \in Range(s)
    <3>1. PICK i \in 1..Len(s) : x = s[i]
      BY <1>2, <2>1 DEF Range
    <3>2. i \in 1..Len(s) + Len(t) /\ (s \o t)[i] = x
      BY <1>1, <1>2, <3>1
    <3> QED BY <1>2, <3>2 DEF Range
  <2>2. CASE x \in Range(t)
    <3>1. PICK i \in 1..Len(t) : x = t[i]
      BY <1>2, <2>2 DEF Range
    <3>2. /\ i + Len(s) \in 1..Len(s) + Len(t)
          /\ (s \o t)[i + Len(s)] = x
      <4>1. i + Len(s) \in 1..Len(s) + Len(t) /\ ~(i + Len(s) <= Len(s)) /\ i + Len(s) - Len(s) = i
        BY <1>2
      <4> QED BY <1>1, <3>1, <4>1
    <3> QED BY <1>2, <3>2 DEF Range
  <2> QED BY <1>3, <2>1, <2>2
<1>4. ASSUME NEW x \in Range(s \o t) PROVE x \in Range(s) \cup Range(t)
  <2>1. PICK i \in 1..Len(s) + Len(t) : x = (s \o t)[i]
    BY <1>2, <1>4 DEF Range
  <2>2. CASE i <= Len(s)
    <3>1. i \in 1..Len(s) /\ x = s[i]
      BY <1>1, <1>2, <2>1, <2>2
    <3> QED BY <1>2, <3>1 DEF Range
  <2>3. CASE ~(i <= Len(s))
    <3>1. i - Len(s) \in 1..Len(t) /\ x = t[i - Len(s)]
      BY <1>1, <1>2, <2>1, <2>3
    <3> QED BY <1>2, <3>1 DEF Range
  <2> QED BY <2>2, <2>3
<1> QED BY <1>1, <1>3, <1>4

\* The elements of a sequence after an append.
LEMMA RangeAppend ==
  ASSUME NEW S, NEW s \in Seq(S), NEW e \in S
  PROVE  /\ Append(s, e) \in Seq(S)
         /\ Len(Append(s, e)) = Len(s) + 1
         /\ Range(Append(s, e)) = Range(s) \cup {e}
<1>1. <<e>> \in Seq(S) /\ Len(<<e>>) = 1 /\ Range(<<e>>) = {e}
  BY DEF Range
<1>2. Append(s, e) = s \o <<e>>
  BY AppendIsConcat
<1>3. /\ s \o <<e>> \in Seq(S)
      /\ Len(s \o <<e>>) = Len(s) + Len(<<e>>)
      /\ Range(s \o <<e>>) = Range(s) \cup Range(<<e>>)
  <2>1. <<e>> \in Seq(S) BY <1>1
  <2> QED BY <2>1, RangeConcat
<1> QED BY <1>1, <1>2, <1>3

\* A sequence is its head and its tail.
LEMMA RangeTail ==
  ASSUME NEW S, NEW s \in Seq(S), s # <<>>
  PROVE  /\ Head(s) \in S
         /\ Tail(s) \in Seq(S)
         /\ Len(Tail(s)) = Len(s) - 1
         /\ Len(s) \in Nat \ {0}
         /\ Head(s) \in Range(s)
         /\ Range(Tail(s)) \subseteq Range(s)
         /\ Len(s) = 1 => Range(s) = {Head(s)} /\ Tail(s) = <<>>
<1>1. /\ Head(s) \in S
      /\ Tail(s) \in Seq(S)
      /\ Len(Tail(s)) = Len(s) - 1
      /\ Len(s) \in Nat \ {0}
      /\ \A i \in 1..Len(Tail(s)) : Tail(s)[i] = s[i + 1]
  BY HeadTailProperties, EmptySeq
<1>2. /\ DOMAIN s = 1..Len(s) /\ DOMAIN Tail(s) = 1..Len(Tail(s))
  BY <1>1, LenProperties
<1>3. Head(s) \in Range(s) /\ Head(s) = s[1]
  BY <1>1, <1>2 DEF Range
<1>4. ASSUME NEW x \in Range(Tail(s)) PROVE x \in Range(s)
  <2>1. PICK i \in 1..Len(Tail(s)) : x = Tail(s)[i]
    BY <1>2, <1>4 DEF Range
  <2>2. i + 1 \in 1..Len(s) /\ s[i + 1] = x
    BY <1>1, <2>1
  <2> QED BY <1>2, <2>2 DEF Range
<1>5. ASSUME Len(s) = 1 PROVE Range(s) = {Head(s)} /\ Tail(s) = <<>>
  <2>1. DOMAIN s = {1}
    BY <1>2, <1>5
  <2>2. Range(s) = {Head(s)}
    BY <1>3, <2>1 DEF Range
  <2>3. Len(Tail(s)) = 0
    BY <1>1, <1>5
  <2> QED BY <1>1, <2>2, <2>3, EmptySeq
<1> QED BY <1>1, <1>3, <1>4, <1>5

\* The elements of a sequence belong to its type.
LEMMA RangeType ==
  ASSUME NEW S, NEW s \in Seq(S)
  PROVE  Range(s) \subseteq S
BY LenProperties, ElementOfSeq DEF Range

\* The empty sequence has no element, and is the only one of length 0.
LEMMA RangeEmpty ==
  /\ Range(<<>>) = {}
  /\ \A S : \A s \in Seq(S) : Len(s) \in Nat /\ (Len(s) = 0 <=> s = <<>>)
<1>1. Range(<<>>) = {}
  BY DEF Range
<1>2. ASSUME NEW S, NEW s \in Seq(S) PROVE Len(s) \in Nat /\ (Len(s) = 0 <=> s = <<>>)
  BY EmptySeq, LenProperties
<1> QED BY <1>1, <1>2

-----------------------------------------------------------------------------
(* Types.                                                                  *)

\* What the steps build from well-typed parts is well typed.
LEMMA BufferTypes ==
  /\ Entry = [form : FormId, ver : Nat]
  /\ EmptyBuffer \in Buffer
  /\ \A b \in Buffer : Recycled(b) = EmptyBuffer
  /\ \A b \in Buffer, i \in Idx : b[i] # NoChange => b[i] \in Entry
  /\ \A f \in FormId, i \in Idx : f \in Int /\ i \in Nat
<1>1. EmptyBuffer \in Buffer
  BY DEF EmptyBuffer, Buffer
<1>2. \A b \in Buffer : Recycled(b) = EmptyBuffer
  BY DEF EmptyBuffer, Buffer, Recycled
<1>3. \A b \in Buffer, i \in Idx : b[i] # NoChange => b[i] \in Entry
  BY DEF Buffer
<1>4. \A f \in FormId, i \in Idx : f \in Int /\ i \in Nat
  BY NumFormsAssumption, PipelineAssumption DEF FormId, Idx
<1> QED BY <1>1, <1>2, <1>3, <1>4 DEF Entry

\* The batches of the pipeline carry buffers.
LEMMA TaskTypes ==
  ASSUME TypeOK
  PROVE  /\ tasks # <<>> => Head(tasks) \in Task /\ Head(tasks).forms \in Buffer
         /\ exceptions # <<>> => /\ Head(exceptions) \in [kind : {"upsert"}, task : Task]
                                /\ Head(exceptions).task.forms \in Buffer
         /\ recycledBuffers # <<>> => Head(recycledBuffers) \in Buffer
         /\ \A n \in 1..Len(okTasks) : okTasks[n] \in Task /\ okTasks[n].forms \in Buffer
<1>1. tasks \in Seq(Task) /\ okTasks \in Seq(Task) /\ recycledBuffers \in Seq(Buffer)
  BY DEF TypeOK, PipelineTypeOK
<1>2. tasks # <<>> => Head(tasks) \in Task
  BY <1>1, RangeTail
<1>3. exceptions # <<>> => Head(exceptions) \in [kind : {"upsert"}, task : Task]
  <2>1. exceptions \in Seq([kind : {"upsert"}, task : Task])
    BY DEF TypeOK
  <2> QED BY <2>1, RangeTail
<1>4. recycledBuffers # <<>> => Head(recycledBuffers) \in Buffer
  BY <1>1, RangeTail
<1>5. \A n \in 1..Len(okTasks) : okTasks[n] \in Task
  BY <1>1, ElementOfSeq
<1> QED BY <1>2, <1>3, <1>4, <1>5 DEF Task

\* Init establishes the types.
LEMMA InitTypeOK == Init => TypeOK
<1> SUFFICES ASSUME Init PROVE TypeOK
  OBVIOUS
<1>1. PipelineTypeOK
  <2>1. db \in [FormId -> Stored]
    BY DEF Init, Absent, Stored
  <2>2. cursor \in 0..NumIdx
    BY PipelineAssumption DEF Init, PipelineInit
  <2> QED BY <2>1, <2>2 DEF Init, PipelineInit, PipelineTypeOK, DbTypeOK
<1>2. exceptions \in Seq([kind : {"upsert"}, task : Task])
  BY DEF Init, PipelineInit
<1>3. refrByIdx \in [Idx -> FormId \cup {NoForm}] /\ freed \in Buffer /\ changesByIdx \in Buffer
  BY BufferTypes DEF Init
<1>4. /\ idx \in [FormId -> Idx \cup {InvalidIdx}]
      /\ ver \in [FormId -> Nat]
      /\ requested \in [FormId -> Nat]
      /\ cutRequested \in [FormId -> Stored]
      /\ cutVer \in [FormId -> Nat]
      /\ nextId \in Nat \ {0}
  BY DEF Init, Stored
<1>5. /\ worldPc \in {"idle", "tick", "submit", "recycle"}
      /\ changesByIdxEmpty \in BOOLEAN
      /\ saveStorageBusy \in BOOLEAN
      /\ destroyed \subseteq FormId
  BY DEF Init
<1> QED BY <1>1, <1>2, <1>3, <1>4, <1>5 DEF TypeOK

\* Every step preserves the types.
LEMMA NextTypeOK == TypeOK /\ [Next]_vars => TypeOK'
<1> SUFFICES ASSUME TypeOK, [Next]_vars PROVE TypeOK'
  OBVIOUS
<1> USE DEF DbTypeOK, pipelineVars, shareVars, saverVars, tickVars, formVars, bufferVars, cutVars
<1>a. ASSUME NEW form \in FormId, NEW i \in Idx, Edit(form), RequestSave(form, i)
      PROVE  /\ ver' \in [FormId -> Nat]
             /\ [form |-> form, ver |-> ver'[form]] \in Entry
             /\ changesByIdx' \in Buffer
             /\ changesByIdxEmpty' \in BOOLEAN
             /\ requested' \in [FormId -> Nat]
  <2>1. ver' \in [FormId -> Nat]
    BY <1>a DEF Edit, TypeOK
  <2>2. [form |-> form, ver |-> ver'[form]] \in Entry
    BY <2>1 DEF Entry
  <2>3. changesByIdx' \in Buffer
    BY <1>a, <2>2 DEF RequestSave, TypeOK, Buffer
  <2>4. requested' \in [FormId -> Nat]
    BY <1>a, <2>1 DEF RequestSave, TypeOK
  <2> QED BY <1>a, <2>1, <2>2, <2>3, <2>4 DEF RequestSave
<1>1. ASSUME NEW form \in FormId, NEW i \in Idx, CreateForm(form, i) PROVE TypeOK'
  <2>1. Edit(form) /\ RequestSave(form, i)
    BY <1>1 DEF CreateForm
  <2>2. idx' \in [FormId -> Idx \cup {InvalidIdx}]
    BY <1>1 DEF CreateForm, TypeOK
  <2>3. refrByIdx' \in [Idx -> FormId \cup {NoForm}]
    BY <1>1 DEF CreateForm, TypeOK
  <2>4. freed' \in Buffer
    BY <1>1 DEF CreateForm, TypeOK, Buffer
  <2>5. nextId' \in Nat \ {0}
    BY <1>1, NumFormsAssumption DEF CreateForm, GenerateFormId, FormId
  <2> QED BY <1>1, <1>a, <2>1, <2>2, <2>3, <2>4, <2>5 DEF CreateForm, TypeOK, PipelineTypeOK
<1>2. ASSUME NEW form \in FormId, EditForm(form) PROVE TypeOK'
  <2>1. idx[form] \in Idx /\ Edit(form) /\ RequestSave(form, idx[form])
    BY <1>2 DEF EditForm, Alive, TypeOK
  <2> QED BY <1>2, <1>a, <2>1 DEF EditForm, TypeOK, PipelineTypeOK
<1>3. ASSUME NEW form \in FormId, EditSilently(form) PROVE TypeOK'
  <2>1. ver' \in [FormId -> Nat]
    BY <1>3 DEF EditSilently, Edit, TypeOK
  <2> QED BY <1>3, <2>1 DEF EditSilently, TypeOK, PipelineTypeOK
<1>4. ASSUME NEW form \in FormId, DestroyForm(form) PROVE TypeOK'
  <2>1. idx[form] \in Idx /\ Edit(form) /\ RequestSave(form, idx[form])
    BY <1>4 DEF DestroyForm, Alive, TypeOK
  <2>2. idx' \in [FormId -> Idx \cup {InvalidIdx}]
    BY <1>4 DEF DestroyForm, TypeOK
  <2>3. freed' \in Buffer
    BY <1>4, <1>a, <2>1 DEF DestroyForm, TypeOK, Buffer
  <2>4. destroyed' \subseteq FormId
    BY <1>4 DEF DestroyForm, TypeOK
  <2> QED BY <1>4, <1>a, <2>1, <2>2, <2>3, <2>4 DEF DestroyForm, TypeOK, PipelineTypeOK
<1>5. CASE BatchFailed
  <2>1. exceptions' \in Seq([kind : {"upsert"}, task : Task])
    BY <1>5, RangeTail DEF BatchFailed, TickRethrow, TypeOK
  <2>2. PICK stillReadable \in SUBSET {i \in Idx : freed[i] # NoChange} :
          LET again == Resaved(Head(exceptions).task.forms, stillReadable)
          IN /\ changesByIdx' =
                  [i \in Idx |-> IF i \in again THEN Found(i) ELSE changesByIdx[i]]
             /\ changesByIdxEmpty' = (changesByIdxEmpty /\ again = {})
             /\ requested' =
                  [f \in FormId |-> IF idx[f] \in again THEN ver[f] ELSE requested[f]]
    BY <1>5 DEF BatchFailed
  <2> DEFINE failed == Head(exceptions).task.forms
             again == Resaved(failed, stillReadable)
  <2>3. failed \in Buffer
    BY <1>5, TaskTypes DEF BatchFailed, TickRethrow
  <2>4. ASSUME NEW i \in again PROVE Found(i) \in Entry
    <3>1. i \in Idx /\ refrByIdx[i] = failed[i].form /\ failed[i] \in Entry
      BY <2>3, <2>4, BufferTypes DEF Resaved
    <3>2. refrByIdx[i] \in FormId
      BY <3>1 DEF Entry
    <3>3. Content(refrByIdx[i]) \in Entry
      BY <3>2 DEF Content, Entry, TypeOK
    <3>4. freed[i] # NoChange => freed[i] \in Entry
      BY <3>1, BufferTypes DEF TypeOK
    <3> QED BY <3>3, <3>4 DEF Found
  <2>5. changesByIdx' \in Buffer
    BY <2>2, <2>4 DEF Buffer, TypeOK
  <2>6. requested' \in [FormId -> Nat]
    BY <2>2 DEF TypeOK
  <2>7. changesByIdxEmpty' \in BOOLEAN /\ saveStorageBusy' \in BOOLEAN
    BY <1>5, <2>2 DEF BatchFailed
  <2> QED BY <1>5, <2>1, <2>5, <2>6, <2>7 DEF BatchFailed, TickRethrow, TypeOK, PipelineTypeOK
<1>6. CASE StartTick
  BY <1>6 DEF StartTick, TickNoException, TypeOK, PipelineTypeOK
<1>7. CASE TakeCallbacks
  BY <1>7 DEF TakeCallbacks, TickTakeUpsertCallbacks, TypeOK, PipelineTypeOK
<1>8. CASE BatchSaved
  <2>1. prepared' \in Seq(Task)
    BY <1>8, RangeTail DEF BatchSaved, TickFireUpsertCallback, FiringUpsert, TypeOK, PipelineTypeOK
  <2>2. saveStorageBusy' \in BOOLEAN
    BY <1>8 DEF BatchSaved
  <2> QED BY <1>8, <2>1, <2>2 DEF BatchSaved, TickFireUpsertCallback, TypeOK, PipelineTypeOK
<1>9. CASE TickReturns
  BY <1>9 DEF TickReturns, TickUpsertCallbacksDone, TypeOK, PipelineTypeOK
<1>10. CASE NothingToSubmit
  BY <1>10 DEF NothingToSubmit, TypeOK, PipelineTypeOK
<1>11. CASE SubmitBatch
  BY <1>11, BufferTypes, WorldAssumption DEF SubmitBatch, Upsert, Task, TypeOK, PipelineTypeOK, Stored
<1>12. CASE TakeBuffer
  <2>1. recycledBuffers' \in Seq(Buffer) /\ changesByIdx' \in Buffer
    <3>1. recycledBuffers \in Seq(Buffer) /\ changesByIdx \in Buffer
      BY DEF TypeOK, PipelineTypeOK
    <3>2. CASE GetRecycledChangeFormsBuffer /\ changesByIdx' = Head(recycledBuffers)
      BY <3>1, <3>2, RangeTail DEF GetRecycledChangeFormsBuffer
    <3>3. CASE UNCHANGED <<recycledBuffers, changesByIdx>>
      BY <3>1, <3>3
    <3> QED BY <1>12, <3>2, <3>3 DEF TakeBuffer
  <2> QED BY <1>12, <2>1 DEF TakeBuffer, TypeOK, PipelineTypeOK
<1>13. ASSUME SaverTakeUpserts, Saver PROVE TypeOK'
  BY <1>13 DEF SaverTakeUpserts, Saver, TypeOK, PipelineTypeOK
<1>14. ASSUME SaverStoreRecord, Saver PROVE TypeOK'
  <2>1. PICK i \in Idx : /\ NextRecord(i)
                         /\ StoreRecord(Head(tasks).forms[i].form, Head(tasks).forms[i].ver)
                         /\ cursor' = i + 1
    BY <1>14 DEF SaverStoreRecord
  <2>2. Head(tasks).forms \in Buffer
    BY <1>14, TaskTypes DEF SaverStoreRecord, Upserting
  <2>3. Head(tasks).forms[i] \in Entry
    BY <2>1, <2>2, BufferTypes DEF NextRecord
  <2>4. db' \in [FormId -> Stored]
    BY <2>1, <2>3 DEF StoreRecord, Entry, TypeOK, PipelineTypeOK, Stored
  <2>5. cursor' \in 0..NumIdx
    BY <2>1, PipelineAssumption DEF Idx
  <2> QED BY <1>14, <2>4, <2>5 DEF SaverStoreRecord, Saver, TypeOK, PipelineTypeOK
<1>15. ASSUME SaverUpsertSucceeds, Saver PROVE TypeOK'
  BY <1>15, PipelineAssumption DEF SaverUpsertSucceeds, Upserting, Saver, TypeOK, PipelineTypeOK
<1>16. ASSUME SaverUpsertFails, Saver PROVE TypeOK'
  <2>1. db' \in [FormId -> Stored]
    BY <1>16 DEF SaverUpsertFails, RejectRecord, TruncateRecord, TypeOK, PipelineTypeOK, Stored
  <2>2. tasks' \in Seq(Task) /\ failedTasks' \in Seq(Task)
    BY <1>16, RangeTail, RangeAppend DEF SaverUpsertFails, Upserting, TypeOK, PipelineTypeOK
  <2>3. cursor' \in 0..NumIdx
    BY <1>16, PipelineAssumption DEF SaverUpsertFails
  <2> QED BY <1>16, <2>1, <2>2, <2>3 DEF SaverUpsertFails, Saver, TypeOK, PipelineTypeOK
<1>17. ASSUME SaverPublishCallbacks, Saver PROVE TypeOK'
  <2>1. [n \in 1..Len(okTasks) |-> Recycled(okTasks[n].forms)] \in Seq(Buffer)
    <3>1. \A n \in 1..Len(okTasks) : Recycled(okTasks[n].forms) \in Buffer
      BY TaskTypes, BufferTypes
    <3>2. Len(okTasks) \in Nat
      BY LenProperties DEF TypeOK, PipelineTypeOK
    <3> QED BY <3>1, <3>2
  <2>2. recycledBuffers' \in Seq(Buffer) /\ upsertCallbacksToFire' \in Seq(Task)
    BY <1>17, <2>1, RangeConcat DEF SaverPublishCallbacks, TypeOK, PipelineTypeOK
  <2> QED BY <1>17, <2>2 DEF SaverPublishCallbacks, Saver, TypeOK, PipelineTypeOK
<1>18. ASSUME SaverPublishExceptions("takeUpserts"), Saver PROVE TypeOK'
  BY <1>18 DEF SaverPublishExceptions, UpsertFailed, Saver, TypeOK, PipelineTypeOK
<1>19. CASE Restart
  <2>1. PICK forms \in SUBSET Readable, index \in [FormId -> Idx \cup {InvalidIdx}] :
          /\ Loaded(forms, index)
          /\ idx' = index
          /\ ver' = [f \in FormId |-> IF f \in forms THEN db[f] ELSE ver[f]]
          /\ refrByIdx' = Pointers(forms, index)
          /\ requested' = [f \in FormId |-> IF f \in forms THEN db[f] ELSE requested[f]]
    BY <1>19 DEF Restart
  <2>2. \A f \in forms : f \in FormId /\ db[f] \in Nat
    BY DEF Readable, TypeOK, PipelineTypeOK, Stored, Absent, Corrupt
  <2>3. ver' \in [FormId -> Nat] /\ requested' \in [FormId -> Nat]
    BY <2>1, <2>2 DEF TypeOK
  <2>4. refrByIdx' \in [Idx -> FormId \cup {NoForm}]
    BY <2>1, <2>2 DEF Pointers
  <2>5. cutVer' \in [FormId -> Nat] /\ cutRequested' \in [FormId -> Stored]
    BY <1>19, <2>3 DEF Restart, Stored
  <2>6. changesByIdxEmpty' \in BOOLEAN /\ saveStorageBusy' \in BOOLEAN /\ destroyed' \subseteq FormId
    BY <1>19 DEF Restart
  <2>7. PipelineTypeOK' /\ exceptions' \in Seq([kind : {"upsert"}, task : Task])
    BY <1>19, PipelineAssumption DEF Restart, PipelineRestart, TypeOK, PipelineTypeOK
  <2>8. freed' \in Buffer /\ changesByIdx' \in Buffer /\ nextId' \in Nat \ {0} /\ worldPc' = "idle"
    BY <1>19, BufferTypes DEF Restart
  <2> QED BY <2>1, <2>3, <2>4, <2>5, <2>6, <2>7, <2>8 DEF TypeOK
<1>20. CASE UNCHANGED vars
  BY <1>20 DEF vars, TypeOK, PipelineTypeOK
<1> QED
  BY <1>1, <1>2, <1>3, <1>4, <1>5, <1>6, <1>7, <1>8, <1>9, <1>10, <1>11, <1>12, <1>13, <1>14, <1>15, <1>16, <1>17, <1>18, <1>19, <1>20 DEF Next, Handler, TickSaveStorage, Saver, Pipeline

\* Every variable holds a value of its type in every reachable state.
THEOREM TypeCorrect == Spec => []TypeOK
<1>1. Init => TypeOK
  BY InitTypeOK
<1>2. TypeOK /\ [Next]_vars => TypeOK'
  BY NextTypeOK
<1> QED BY <1>1, <1>2, PTL DEF Spec

-----------------------------------------------------------------------------
(* One batch at a time.                                                    *)

\* The types of the sequences a batch passes through.
LEMMA SeqTypes ==
  ASSUME TypeOK
  PROVE  /\ upsertTasks \in Seq(Task) /\ Len(upsertTasks) \in Nat
         /\ tasks \in Seq(Task) /\ Len(tasks) \in Nat
         /\ failedTasks \in Seq(Task) /\ Len(failedTasks) \in Nat
         /\ exceptions \in Seq([kind : {"upsert"}, task : Task]) /\ Len(exceptions) \in Nat
         /\ okTasks \in Seq(Task) /\ Len(okTasks) \in Nat
         /\ upsertCallbacksToFire \in Seq(Task) /\ Len(upsertCallbacksToFire) \in Nat
         /\ prepared \in Seq(Task) /\ Len(prepared) \in Nat
<1>1. /\ upsertTasks \in Seq(Task) /\ tasks \in Seq(Task) /\ failedTasks \in Seq(Task)
      /\ exceptions \in Seq([kind : {"upsert"}, task : Task])
      /\ okTasks \in Seq(Task) /\ upsertCallbacksToFire \in Seq(Task)
      /\ prepared \in Seq(Task)
  BY DEF TypeOK, PipelineTypeOK
<1> QED BY <1>1, LenProperties

\* While one of the places holds a batch, the other places are empty.
LEMMA Alone ==
  ASSUME TypeOK, SingleFlight
  PROVE  /\ tasks # <<>> =>
              /\ Tail(tasks) = <<>> /\ Range(tasks) = {Head(tasks)} /\ Len(tasks) = 1
              /\ upsertTasks = <<>> /\ failedTasks = <<>> /\ exceptions = <<>>
              /\ okTasks = <<>> /\ upsertCallbacksToFire = <<>> /\ prepared = <<>>
              /\ saveStorageBusy
         /\ exceptions # <<>> =>
              /\ Tail(exceptions) = <<>> /\ Range(exceptions) = {Head(exceptions)}
              /\ upsertTasks = <<>> /\ tasks = <<>> /\ failedTasks = <<>>
              /\ okTasks = <<>> /\ upsertCallbacksToFire = <<>> /\ prepared = <<>>
         /\ prepared # <<>> =>
              /\ Tail(prepared) = <<>>
              /\ upsertTasks = <<>> /\ tasks = <<>> /\ failedTasks = <<>>
              /\ exceptions = <<>> /\ okTasks = <<>> /\ upsertCallbacksToFire = <<>>
         /\ ~saveStorageBusy =>
              /\ upsertTasks = <<>> /\ tasks = <<>> /\ failedTasks = <<>>
              /\ exceptions = <<>> /\ okTasks = <<>> /\ upsertCallbacksToFire = <<>>
              /\ prepared = <<>>
         /\ okTasks # <<>> \/ upsertCallbacksToFire # <<>> \/ prepared # <<>> =>
              upsertTasks = <<>> /\ tasks = <<>> /\ failedTasks = <<>> /\ exceptions = <<>>
<1>1. /\ Len(upsertTasks) \in Nat /\ (Len(upsertTasks) = 0 <=> upsertTasks = <<>>)
      /\ Len(tasks) \in Nat /\ (Len(tasks) = 0 <=> tasks = <<>>)
      /\ Len(failedTasks) \in Nat /\ (Len(failedTasks) = 0 <=> failedTasks = <<>>)
      /\ Len(exceptions) \in Nat /\ (Len(exceptions) = 0 <=> exceptions = <<>>)
      /\ Len(okTasks) \in Nat /\ (Len(okTasks) = 0 <=> okTasks = <<>>)
      /\ Len(upsertCallbacksToFire) \in Nat
      /\ Len(upsertCallbacksToFire) = 0 <=> upsertCallbacksToFire = <<>>
      /\ Len(prepared) \in Nat /\ (Len(prepared) = 0 <=> prepared = <<>>)
  BY SeqTypes, RangeEmpty
<1>2. tasks # <<>> => /\ upsertTasks = <<>> /\ failedTasks = <<>> /\ exceptions = <<>>
                      /\ okTasks = <<>> /\ upsertCallbacksToFire = <<>> /\ prepared = <<>>
                      /\ saveStorageBusy
  BY <1>1 DEF SingleFlight
<1>3. exceptions # <<>> => /\ upsertTasks = <<>> /\ tasks = <<>> /\ failedTasks = <<>>
                           /\ okTasks = <<>> /\ upsertCallbacksToFire = <<>> /\ prepared = <<>>
  BY <1>1 DEF SingleFlight
<1>4. prepared # <<>> => /\ upsertTasks = <<>> /\ tasks = <<>> /\ failedTasks = <<>>
                         /\ exceptions = <<>> /\ okTasks = <<>> /\ upsertCallbacksToFire = <<>>
  BY <1>1 DEF SingleFlight
<1>5. ~saveStorageBusy => /\ upsertTasks = <<>> /\ tasks = <<>> /\ failedTasks = <<>>
                          /\ exceptions = <<>> /\ okTasks = <<>>
                          /\ upsertCallbacksToFire = <<>> /\ prepared = <<>>
  BY <1>1 DEF SingleFlight
<1>6. okTasks # <<>> \/ upsertCallbacksToFire # <<>> \/ prepared # <<>> =>
        upsertTasks = <<>> /\ tasks = <<>> /\ failedTasks = <<>> /\ exceptions = <<>>
  BY <1>1 DEF SingleFlight
<1>7. ASSUME tasks # <<>>
      PROVE  Tail(tasks) = <<>> /\ Range(tasks) = {Head(tasks)} /\ Len(tasks) = 1
  <2>1. Len(tasks) = 1
    BY <1>1, <1>2, <1>7 DEF SingleFlight
  <2>2. tasks \in Seq(Task)
    BY SeqTypes
  <2> QED BY <1>7, <2>1, <2>2, RangeTail
<1>8. ASSUME exceptions # <<>>
      PROVE  Tail(exceptions) = <<>> /\ Range(exceptions) = {Head(exceptions)}
  <2>1. Len(exceptions) = 1
    BY <1>1, <1>3, <1>8 DEF SingleFlight
  <2>2. exceptions \in Seq([kind : {"upsert"}, task : Task])
    BY SeqTypes
  <2> QED BY <1>8, <2>1, <2>2, RangeTail
<1>9. ASSUME prepared # <<>> PROVE Tail(prepared) = <<>>
  <2>1. Len(prepared) = 1
    BY <1>1, <1>4, <1>9 DEF SingleFlight
  <2>2. prepared \in Seq(Task)
    BY SeqTypes
  <2> QED BY <1>9, <2>1, <2>2, RangeTail
<1> QED BY <1>2, <1>3, <1>4, <1>5, <1>6, <1>7, <1>8, <1>9
-----------------------------------------------------------------------------
(* How the steps move batches.                                             *)

\* Steps that hand a batch from one place to another, or move none.
MovesNothing ==
  \/ Handler \/ StartTick \/ TickReturns \/ NothingToSubmit \/ TakeBuffer
  \/ UNCHANGED vars

HandsOver ==
  \/ TakeCallbacks
  \/ Saver /\ (SaverTakeUpserts \/ SaverPublishCallbacks \/ SaverPublishExceptions("takeUpserts"))

SameBatches ==
  /\ Outstanding' = Outstanding
  /\ Acknowledged' = Acknowledged
  /\ InFlight' = InFlight
  /\ db' = db
  /\ tasks' # <<>> => cursor' = 0 \/ (tasks' = tasks /\ cursor' = cursor)

LEMMA MovesNothingLemma ==
  ASSUME BatchPlaces, MovesNothing
  PROVE  BatchPlaces' /\ SameBatches
<1>1. /\ UNCHANGED <<upsertTasks, tasks, failedTasks, exceptions, okTasks,
                     upsertCallbacksToFire, prepared, db, saverPc, cursor>>
      /\ UNCHANGED saveStorageBusy
  BY DEF MovesNothing, Handler, CreateForm, EditForm, EditSilently, DestroyForm, StartTick,
         TickNoException, TickReturns, TickUpsertCallbacksDone, NothingToSubmit, TakeBuffer,
         vars, pipelineVars, shareVars, saverVars, tickVars
<1> QED BY <1>1 DEF BatchPlaces, SingleFlight, SameBatches, Outstanding, Acknowledged, InFlight

LEMMA HandsOverLemma ==
  ASSUME TypeOK, BatchPlaces, HandsOver
  PROVE  BatchPlaces' /\ SameBatches
<1> USE DEF BatchPlaces, SingleFlight, SameBatches, Outstanding, Acknowledged, InFlight,
            shareVars, saverVars, tickVars
<1>1. CASE TakeCallbacks
  <2>1. /\ prepared' = prepared \o upsertCallbacksToFire
        /\ upsertCallbacksToFire' = <<>>
        /\ UNCHANGED <<db, upsertTasks, exceptions, tasks, cursor, okTasks, failedTasks,
                       saverPc, saveStorageBusy>>
    BY <1>1 DEF TakeCallbacks, TickTakeUpsertCallbacks
  <2>2. /\ Len(prepared') = Len(prepared) + Len(upsertCallbacksToFire)
        /\ Range(prepared') = Range(prepared) \cup Range(upsertCallbacksToFire)
    BY <2>1, SeqTypes, RangeConcat
  <2>3. Len(upsertCallbacksToFire') = 0 /\ Range(upsertCallbacksToFire') = {}
    BY <2>1, RangeEmpty
  <2>4. SingleFlight'
    BY <2>1, <2>2, <2>3, SeqTypes
  <2> QED BY <2>1, <2>2, <2>3, <2>4
<1>2. CASE SaverTakeUpserts /\ Saver
  <2>1. /\ tasks = <<>> /\ cursor = 0
        /\ tasks' = upsertTasks /\ upsertTasks' = <<>> /\ saverPc' = "upserting"
        /\ UNCHANGED <<db, exceptions, upsertCallbacksToFire, cursor, okTasks, failedTasks,
                       prepared, saveStorageBusy>>
    BY <1>2 DEF SaverTakeUpserts, Saver
  <2>2. Len(<<>>) = 0 /\ Range(<<>>) = {}
    BY RangeEmpty
  <2>3. SingleFlight'
    BY <2>1, <2>2, SeqTypes
  <2> QED BY <2>1, <2>2, <2>3
<1>3. CASE SaverPublishCallbacks /\ Saver
  <2>1. /\ tasks = <<>>
        /\ upsertCallbacksToFire' = upsertCallbacksToFire \o okTasks
        /\ okTasks' = <<>> /\ saverPc' = "publishExceptions"
        /\ UNCHANGED <<db, upsertTasks, exceptions, tasks, cursor, failedTasks,
                       prepared, saveStorageBusy>>
    BY <1>3 DEF SaverPublishCallbacks, Saver
  <2>2. /\ Len(upsertCallbacksToFire') = Len(upsertCallbacksToFire) + Len(okTasks)
        /\ Range(upsertCallbacksToFire') = Range(upsertCallbacksToFire) \cup Range(okTasks)
    BY <2>1, SeqTypes, RangeConcat
  <2>3. Len(okTasks') = 0 /\ Range(okTasks') = {}
    BY <2>1, RangeEmpty
  <2>4. SingleFlight'
    BY <2>1, <2>2, <2>3, SeqTypes
  <2> QED BY <2>1, <2>2, <2>3, <2>4
<1>4. CASE SaverPublishExceptions("takeUpserts") /\ Saver
  <2> DEFINE errors == [n \in 1..Len(failedTasks) |-> UpsertFailed(failedTasks[n])]
             Failure == [kind : {"upsert"}, task : Task]
  <2>1. /\ exceptions' = exceptions \o errors
        /\ failedTasks' = <<>> /\ saverPc' = "takeUpserts"
        /\ saverPc = "publishExceptions"
        /\ UNCHANGED <<db, upsertTasks, upsertCallbacksToFire, tasks, cursor, okTasks,
                       prepared, saveStorageBusy>>
    BY <1>4 DEF SaverPublishExceptions, Saver
  <2>2. /\ Len(failedTasks) \in Nat /\ DOMAIN failedTasks = 1..Len(failedTasks)
        /\ \A n \in 1..Len(failedTasks) : failedTasks[n] \in Task
    BY SeqTypes, LenProperties, ElementOfSeq
  <2>3. errors \in Seq(Failure) /\ Len(errors) = Len(failedTasks)
    BY <2>2 DEF UpsertFailed
  <2>4. {e.task : e \in Range(errors)} = Range(failedTasks)
    <3>1. DOMAIN errors = DOMAIN failedTasks
      BY <2>2
    <3>2. \A n \in DOMAIN failedTasks : errors[n].task = failedTasks[n]
      BY <2>2 DEF UpsertFailed
    <3>3. {e.task : e \in Range(errors)} = {errors[n].task : n \in DOMAIN errors}
      BY DEF Range
    <3> HIDE DEF errors
    <3> QED BY <3>1, <3>2, <3>3 DEF Range
  <2> HIDE DEF errors, Failure
  <2>5. /\ Len(exceptions') = Len(exceptions) + Len(failedTasks)
        /\ Range(exceptions') = Range(exceptions) \cup Range(errors)
    <3>1. exceptions \in Seq(Failure)
      BY SeqTypes DEF Failure
    <3>2. /\ Len(exceptions \o errors) = Len(exceptions) + Len(errors)
          /\ Range(exceptions \o errors) = Range(exceptions) \cup Range(errors)
      BY <2>3, <3>1, RangeConcat
    <3> QED BY <2>1, <2>3, <3>2
  <2>6. Len(failedTasks') = 0 /\ Range(failedTasks') = {}
    BY <2>1, RangeEmpty
  <2>7. SingleFlight'
    BY <2>1, <2>5, <2>6, SeqTypes
  <2>8. Outstanding' = Outstanding
    BY <2>1, <2>4, <2>5, <2>6
  <2> QED BY <2>1, <2>7, <2>8
<1> QED BY <1>1, <1>2, <1>3, <1>4 DEF HandsOver
\* A record is stored: the batch stays where it is, and is the only one.
LEMMA StoreMoves ==
  ASSUME TypeOK, BatchPlaces, SaverStoreRecord, Saver
  PROVE  /\ BatchPlaces'
         /\ tasks # <<>> /\ tasks' = tasks
         /\ Outstanding = {Head(tasks)} /\ Outstanding' = {Head(tasks)}
         /\ InFlight = {Head(tasks)} /\ InFlight' = {Head(tasks)}
         /\ Acknowledged = {} /\ Acknowledged' = {}
<1>1. /\ tasks # <<>> /\ saverPc = "upserting"
      /\ UNCHANGED <<upsertTasks, exceptions, upsertCallbacksToFire, saverPc, tasks,
                     okTasks, failedTasks, prepared, saveStorageBusy>>
  BY DEF SaverStoreRecord, Saver, Upserting, shareVars, tickVars
<1>2. /\ Range(tasks) = {Head(tasks)}
      /\ upsertTasks = <<>> /\ failedTasks = <<>> /\ exceptions = <<>>
      /\ okTasks = <<>> /\ upsertCallbacksToFire = <<>> /\ prepared = <<>>
  BY <1>1, Alone DEF BatchPlaces
<1> QED BY <1>1, <1>2, RangeEmpty
        DEF BatchPlaces, SingleFlight, Outstanding, Acknowledged, InFlight

\* A batch is finished: the saver holds no other one.
LEMMA SucceedMoves ==
  ASSUME TypeOK, BatchPlaces, SaverUpsertSucceeds, Saver
  PROVE  /\ BatchPlaces'
         /\ tasks # <<>> /\ tasks' = <<>>
         /\ Outstanding = {Head(tasks)} /\ Outstanding' = {}
         /\ InFlight = {Head(tasks)} /\ InFlight' = {}
         /\ Acknowledged' = {Head(tasks)}
         /\ db' = db
<1>1. /\ tasks # <<>> /\ saverPc = "upserting"
      /\ okTasks' = Append(okTasks, Head(tasks)) /\ tasks' = Tail(tasks) /\ cursor' = 0
      /\ UNCHANGED <<db, upsertTasks, exceptions, upsertCallbacksToFire, saverPc,
                     failedTasks, prepared, saveStorageBusy>>
  BY DEF SaverUpsertSucceeds, Saver, Upserting, shareVars, tickVars
<1>2. /\ Range(tasks) = {Head(tasks)} /\ Tail(tasks) = <<>> /\ Len(tasks) = 1
      /\ upsertTasks = <<>> /\ failedTasks = <<>> /\ exceptions = <<>>
      /\ okTasks = <<>> /\ upsertCallbacksToFire = <<>> /\ prepared = <<>>
  BY <1>1, Alone DEF BatchPlaces
<1>3. Len(okTasks') = 1 /\ Range(okTasks') = {Head(tasks)}
  <2>1. Head(tasks) \in Task /\ okTasks \in Seq(Task)
    BY <1>1, TaskTypes, SeqTypes
  <2>2. /\ Len(okTasks') = Len(okTasks) + 1
        /\ Range(okTasks') = Range(okTasks) \cup {Head(tasks)}
    BY <1>1, <2>1, RangeAppend
  <2>3. Len(okTasks) = 0 /\ Range(okTasks) = {}
    BY <1>2, RangeEmpty
  <2> QED BY <2>2, <2>3
<1>4. SingleFlight'
  BY <1>1, <1>2, <1>3, RangeEmpty DEF BatchPlaces, SingleFlight
<1> QED BY <1>1, <1>2, <1>3, <1>4, RangeEmpty
        DEF BatchPlaces, Outstanding, Acknowledged, InFlight

\* A batch fails: it is outstanding until the main thread has seen the error.
LEMMA FailMoves ==
  ASSUME TypeOK, BatchPlaces, SaverUpsertFails, Saver
  PROVE  /\ BatchPlaces'
         /\ tasks # <<>> /\ tasks' = <<>>
         /\ Outstanding = {Head(tasks)} /\ Outstanding' = {Head(tasks)}
         /\ InFlight' = {}
         /\ Acknowledged' = {}
<1>1. /\ tasks # <<>> /\ saverPc = "upserting"
      /\ failedTasks' = Append(failedTasks, Head(tasks)) /\ tasks' = Tail(tasks) /\ cursor' = 0
      /\ UNCHANGED <<upsertTasks, exceptions, upsertCallbacksToFire, saverPc,
                     okTasks, prepared, saveStorageBusy>>
  BY DEF SaverUpsertFails, Saver, Upserting, shareVars, tickVars
<1>2. /\ Range(tasks) = {Head(tasks)} /\ Tail(tasks) = <<>> /\ Len(tasks) = 1
      /\ upsertTasks = <<>> /\ failedTasks = <<>> /\ exceptions = <<>>
      /\ okTasks = <<>> /\ upsertCallbacksToFire = <<>> /\ prepared = <<>>
  BY <1>1, Alone DEF BatchPlaces
<1>3. Len(failedTasks') = 1 /\ Range(failedTasks') = {Head(tasks)}
  <2>1. Head(tasks) \in Task /\ failedTasks \in Seq(Task)
    BY <1>1, TaskTypes, SeqTypes
  <2>2. /\ Len(failedTasks') = Len(failedTasks) + 1
        /\ Range(failedTasks') = Range(failedTasks) \cup {Head(tasks)}
    BY <1>1, <2>1, RangeAppend
  <2>3. Len(failedTasks) = 0 /\ Range(failedTasks) = {}
    BY <1>2, RangeEmpty
  <2> QED BY <2>2, <2>3
<1>4. SingleFlight'
  BY <1>1, <1>2, <1>3, RangeEmpty DEF BatchPlaces, SingleFlight
<1> QED BY <1>1, <1>2, <1>3, <1>4, RangeEmpty
        DEF BatchPlaces, Outstanding, Acknowledged, InFlight

\* The error of a batch reaches the main thread: no batch is left.
LEMMA BatchFailedMoves ==
  ASSUME TypeOK, BatchPlaces, BatchFailed
  PROVE  /\ BatchPlaces'
         /\ exceptions # <<>>
         /\ Outstanding = {Head(exceptions).task} /\ Outstanding' = {}
         /\ InFlight' = {} /\ tasks' = <<>>
         /\ Acknowledged' = {}
         /\ db' = db
<1>1. /\ exceptions # <<>> /\ exceptions' = Tail(exceptions) /\ saveStorageBusy' = FALSE
      /\ UNCHANGED <<db, upsertTasks, upsertCallbacksToFire, saverPc, tasks, cursor,
                     failedTasks, okTasks, prepared>>
  BY DEF BatchFailed, TickRethrow, saverVars
<1>2. /\ Range(exceptions) = {Head(exceptions)} /\ Tail(exceptions) = <<>>
      /\ upsertTasks = <<>> /\ failedTasks = <<>> /\ tasks = <<>>
      /\ okTasks = <<>> /\ upsertCallbacksToFire = <<>> /\ prepared = <<>>
  BY <1>1, Alone DEF BatchPlaces
<1>3. Len(<<>>) = 0 /\ Range(<<>>) = {}
  BY RangeEmpty
<1>4. SingleFlight'
  <2>1. ~saveStorageBusy'
    BY <1>1
  <2>2. Len(exceptions') = 0 /\ Len(prepared') = 0
    BY <1>1, <1>2, <1>3
  <2>3. /\ Len(upsertTasks') = 0 /\ Len(failedTasks') = 0 /\ Len(tasks') = 0
        /\ Len(okTasks') = 0 /\ Len(upsertCallbacksToFire') = 0
    BY <1>1, <1>2, <1>3
  <2> QED BY <2>1, <2>2, <2>3 DEF SingleFlight
<1>5. BatchPlaces'
  BY <1>1, <1>4 DEF BatchPlaces
<1> QED BY <1>1, <1>2, <1>3, <1>5 DEF Outstanding, Acknowledged, InFlight

\* The callback of a batch is called: no batch is left.
LEMMA BatchSavedMoves ==
  ASSUME TypeOK, BatchPlaces, BatchSaved
  PROVE  /\ BatchPlaces'
         /\ Outstanding = {} /\ Outstanding' = {}
         /\ InFlight' = {} /\ tasks' = <<>>
         /\ Acknowledged' = {}
         /\ db' = db
<1>1. /\ prepared # <<>> /\ prepared' = Tail(prepared) /\ saveStorageBusy' = FALSE
      /\ UNCHANGED <<db, upsertTasks, upsertCallbacksToFire, saverPc, tasks, cursor,
                     failedTasks, okTasks, exceptions>>
  BY DEF BatchSaved, TickFireUpsertCallback, FiringUpsert, shareVars, saverVars
<1>2. /\ Tail(prepared) = <<>>
      /\ upsertTasks = <<>> /\ failedTasks = <<>> /\ tasks = <<>>
      /\ okTasks = <<>> /\ upsertCallbacksToFire = <<>> /\ exceptions = <<>>
  BY <1>1, Alone DEF BatchPlaces
<1>3. Len(<<>>) = 0 /\ Range(<<>>) = {}
  BY RangeEmpty
<1>4. SingleFlight'
  <2>1. ~saveStorageBusy'
    BY <1>1
  <2>2. Len(exceptions') = 0 /\ Len(prepared') = 0
    BY <1>1, <1>2, <1>3
  <2>3. /\ Len(upsertTasks') = 0 /\ Len(failedTasks') = 0 /\ Len(tasks') = 0
        /\ Len(okTasks') = 0 /\ Len(upsertCallbacksToFire') = 0
    BY <1>1, <1>2, <1>3
  <2> QED BY <2>1, <2>2, <2>3 DEF SingleFlight
<1>5. BatchPlaces'
  BY <1>1, <1>4 DEF BatchPlaces
<1> QED BY <1>1, <1>2, <1>3, <1>5 DEF Outstanding, Acknowledged, InFlight

\* A batch is submitted only when there is none.
LEMMA SubmitMoves ==
  ASSUME TypeOK, BatchPlaces, SubmitBatch
  PROVE  /\ BatchPlaces'
         /\ Outstanding = {}
         /\ Outstanding' = {[forms |-> changesByIdx, callback |-> "clearBusy"]}
         /\ InFlight' = Outstanding'
         /\ Acknowledged' = {} /\ tasks' = <<>>
         /\ db' = db
<1> DEFINE batch == [forms |-> changesByIdx, callback |-> "clearBusy"]
<1>1. /\ ~saveStorageBusy /\ saveStorageBusy'
      /\ upsertTasks' = Append(upsertTasks, batch)
      /\ UNCHANGED <<db, exceptions, upsertCallbacksToFire, saverPc, tasks, cursor,
                     failedTasks, okTasks, prepared>>
  BY DEF SubmitBatch, Upsert, saverVars, tickVars
<1>2. /\ upsertTasks = <<>> /\ failedTasks = <<>> /\ tasks = <<>> /\ exceptions = <<>>
      /\ okTasks = <<>> /\ upsertCallbacksToFire = <<>> /\ prepared = <<>>
  BY <1>1, Alone DEF BatchPlaces
<1>3. Len(upsertTasks') = 1 /\ Range(upsertTasks') = {batch}
  <2>1. batch \in Task /\ upsertTasks \in Seq(Task)
    BY SeqTypes, WorldAssumption DEF Task, TypeOK
  <2> HIDE DEF batch
  <2>2. Len(upsertTasks') = Len(upsertTasks) + 1 /\ Range(upsertTasks') = Range(upsertTasks) \cup {batch}
    BY <1>1, <2>1, RangeAppend
  <2>3. Len(upsertTasks) = 0 /\ Range(upsertTasks) = {}
    BY <1>2, RangeEmpty
  <2> QED BY <2>2, <2>3
<1>4. SingleFlight'
  BY <1>1, <1>2, <1>3, RangeEmpty DEF BatchPlaces, SingleFlight
<1> QED BY <1>1, <1>2, <1>3, <1>4, RangeEmpty
        DEF BatchPlaces, Outstanding, Acknowledged, InFlight

\* Nothing of the pipeline survives the process.
LEMMA RestartMoves ==
  ASSUME Restart
  PROVE  /\ BatchPlaces'
         /\ Outstanding' = {} /\ InFlight' = {} /\ Acknowledged' = {} /\ tasks' = <<>>
         /\ db' = db
<1>1. /\ upsertTasks' = <<>> /\ exceptions' = <<>> /\ upsertCallbacksToFire' = <<>>
      /\ tasks' = <<>> /\ cursor' = 0 /\ okTasks' = <<>> /\ failedTasks' = <<>>
      /\ prepared' = <<>> /\ saverPc' = "takeUpserts" /\ saveStorageBusy' = FALSE
      /\ db' = db
  BY DEF Restart, PipelineRestart
<1> QED BY <1>1, RangeEmpty
        DEF BatchPlaces, SingleFlight, Outstanding, Acknowledged, InFlight
\* At most one batch is between Upsert and its outcome, and saveStorageBusy says so.
LEMMA NextBatchPlaces ==
  ASSUME TypeOK, BatchPlaces, [Next]_vars
  PROVE  BatchPlaces'
<1>1. CASE MovesNothing
  BY <1>1, MovesNothingLemma
<1>2. CASE HandsOver
  BY <1>2, HandsOverLemma
<1>3. CASE Saver /\ (SaverStoreRecord \/ SaverUpsertSucceeds \/ SaverUpsertFails)
  BY <1>3, StoreMoves, SucceedMoves, FailMoves
<1>4. CASE BatchFailed \/ BatchSaved \/ SubmitBatch \/ Restart
  BY <1>4, BatchFailedMoves, BatchSavedMoves, SubmitMoves, RestartMoves
<1> QED
  BY <1>1, <1>2, <1>3, <1>4
     DEF Next, TickSaveStorage, Saver, Pipeline, MovesNothing, HandsOver

THEOREM SingleFlightHolds == Spec => []SingleFlight
<1>1. Init => TypeOK /\ BatchPlaces
  <2> SUFFICES ASSUME Init PROVE BatchPlaces
    BY InitTypeOK
  <2>1. /\ upsertTasks = <<>> /\ exceptions = <<>> /\ upsertCallbacksToFire = <<>>
        /\ tasks = <<>> /\ cursor = 0 /\ okTasks = <<>> /\ failedTasks = <<>>
        /\ prepared = <<>> /\ saverPc = "takeUpserts" /\ saveStorageBusy = FALSE
    BY DEF Init, PipelineInit
  <2> QED BY <2>1, RangeEmpty DEF BatchPlaces, SingleFlight
<1>2. (TypeOK /\ BatchPlaces) /\ [Next]_vars => (TypeOK /\ BatchPlaces)'
  BY NextTypeOK, NextBatchPlaces
<1>3. TypeOK /\ BatchPlaces => SingleFlight
  BY DEF BatchPlaces
<1> QED BY <1>1, <1>2, <1>3, PTL DEF Spec

-----------------------------------------------------------------------------
(* Where the content of a form is.                                         *)

\* The parts of the invariant that speak of contents.
Contents ==
  /\ IndexesOwned
  /\ EntriesPlaced
  /\ VersionsOrdered
  /\ PrefixWritten
  /\ CutCovered
  /\ NothingLost
  /\ SnapshotOnAck

\* Numbers and entries have the types the arithmetic needs.
LEMMA ContentTypes ==
  ASSUME TypeOK
  PROVE  /\ \A f \in FormId : /\ db[f] \in Int /\ db[f] >= Corrupt
                              /\ ver[f] \in Nat /\ requested[f] \in Nat
                              /\ cutVer[f] \in Nat /\ cutRequested[f] \in Int
                              /\ cutRequested[f] >= Corrupt
                              /\ idx[f] \in Int /\ (Alive(f) <=> idx[f] \in Idx)
         /\ \A i \in Idx : i \in Nat
         /\ InvalidIdx \notin Idx
         /\ Corrupt = -1
         /\ \A i \in Idx : changesByIdx[i] # NoChange =>
              changesByIdx[i].form \in FormId /\ changesByIdx[i].ver \in Nat
         /\ \A i \in Idx : freed[i] # NoChange =>
              freed[i].form \in FormId /\ freed[i].ver \in Nat
         /\ \A t \in Outstanding : \A i \in Idx : t.forms[i] # NoChange =>
              t.forms[i].form \in FormId /\ t.forms[i].ver \in Nat
         /\ InFlight \subseteq Outstanding
<1>1. \A f \in FormId : db[f] \in Stored /\ cutRequested[f] \in Stored
  BY DEF TypeOK, PipelineTypeOK, DbTypeOK
<1>2. \A f \in FormId : /\ ver[f] \in Nat /\ requested[f] \in Nat
                        /\ cutVer[f] \in Nat /\ idx[f] \in Idx \cup {InvalidIdx}
  BY DEF TypeOK
<1>3. InvalidIdx \notin Idx /\ \A i \in Idx : i \in Nat
  BY PipelineAssumption DEF Idx, InvalidIdx
<1>4. \A b \in Buffer, i \in Idx : b[i] # NoChange => b[i].form \in FormId /\ b[i].ver \in Nat
  BY DEF Buffer, Entry
<1>5. \A t \in Outstanding : t \in Task
  <2>1. /\ Range(upsertTasks) \subseteq Task
        /\ Range(tasks) \subseteq Task
        /\ Range(failedTasks) \subseteq Task
    BY SeqTypes, RangeType
  <2>2. Range(exceptions) \subseteq [kind : {"upsert"}, task : Task]
    BY SeqTypes, RangeType
  <2> QED BY <2>1, <2>2 DEF Outstanding
<1>6. \A t \in Outstanding : t.forms \in Buffer
  BY <1>5 DEF Task
<1>7. changesByIdx \in Buffer /\ freed \in Buffer
  BY DEF TypeOK
<1>8. InFlight \subseteq Outstanding
  BY DEF InFlight, Outstanding
<1>9. \A f \in FormId : /\ db[f] \in Int /\ db[f] >= Corrupt
                        /\ cutRequested[f] \in Int /\ cutRequested[f] >= Corrupt
  BY <1>1 DEF Stored, Corrupt
<1>10. \A f \in FormId : idx[f] \in Int /\ (Alive(f) <=> idx[f] \in Idx)
  BY <1>2, <1>3 DEF Alive, InvalidIdx
<1> QED BY <1>2, <1>3, <1>4, <1>6, <1>7, <1>8, <1>9, <1>10 DEF Corrupt
\* Steps that only hand batches over leave the contents where they are.
SameWorld ==
  /\ UNCHANGED <<idx, ver, refrByIdx, freed, destroyed, changesByIdx, changesByIdxEmpty,
                 requested, cutRequested, cutVer>>
  /\ SameBatches

LEMMA SameWorldLemma ==
  ASSUME Contents, SameWorld
  PROVE  Contents'
<1> USE DEF Contents, SameWorld, SameBatches
<1>1. IndexesOwned'
  BY DEF IndexesOwned, Alive
<1>2. EntriesPlaced'
  BY DEF EntriesPlaced, Placed
<1>3. VersionsOrdered'
  BY DEF VersionsOrdered, Kept, Alive
<1>4. PrefixWritten'
  <2> SUFFICES ASSUME tasks' # <<>>, NEW i \in Idx,
                      i < cursor', Head(tasks').forms[i] # NoChange,
                      Head(tasks').forms[i].form \notin destroyed'
               PROVE  db'[Head(tasks').forms[i].form] >= Head(tasks').forms[i].ver
    BY DEF PrefixWritten
  <2>1. tasks' = tasks /\ cursor' = cursor
    BY PipelineAssumption DEF Idx
  <2> QED BY <2>1 DEF PrefixWritten
<1>5. CutCovered'
  BY DEF CutCovered, Alive
<1>6. NothingLost'
  BY DEF NothingLost, Owed, Covers, Alive
<1>7. SnapshotOnAck'
  BY DEF SnapshotOnAck
<1> QED BY <1>1, <1>2, <1>3, <1>4, <1>5, <1>6, <1>7

\* A new form gets an index nobody uses, and its first save is requested.
LEMMA CreateFormContents ==
  ASSUME TypeOK, TypeOK', BatchPlaces, Contents,
         NEW form \in FormId, NEW i \in Idx, CreateForm(form, i)
  PROVE  Contents'
<1> USE DEF Contents
<1>1. SameBatches /\ UNCHANGED <<destroyed, cutRequested, cutVer, tasks, cursor>>
  BY MovesNothingLemma DEF MovesNothing, Handler, CreateForm, pipelineVars, saverVars, cutVars
<1>2. /\ ~Alive(form)
      /\ \A f \in FormId : idx[f] # i
      /\ idx' = [idx EXCEPT ![form] = i]
      /\ refrByIdx' = [refrByIdx EXCEPT ![i] = form]
      /\ freed' = [freed EXCEPT ![i] = NoChange]
      /\ ver' = [ver EXCEPT ![form] = @ + 1]
      /\ changesByIdx' = [changesByIdx EXCEPT ![i] = [form |-> form, ver |-> ver'[form]]]
      /\ changesByIdxEmpty' = FALSE
      /\ requested' = [requested EXCEPT ![form] = ver'[form]]
  BY DEF CreateForm, GenerateFormId, CreateID, Edit, RequestSave
<1>3. /\ idx'[form] = i /\ \A f \in FormId \ {form} : idx'[f] = idx[f]
      /\ refrByIdx'[i] = form /\ \A j \in Idx \ {i} : refrByIdx'[j] = refrByIdx[j]
      /\ freed'[i] = NoChange /\ \A j \in Idx \ {i} : freed'[j] = freed[j]
      /\ ver'[form] = ver[form] + 1 /\ \A f \in FormId \ {form} : ver'[f] = ver[f]
      /\ changesByIdx'[i] = [form |-> form, ver |-> ver'[form]]
      /\ \A j \in Idx \ {i} : changesByIdx'[j] = changesByIdx[j]
      /\ requested'[form] = ver'[form]
      /\ \A f \in FormId \ {form} : requested'[f] = requested[f]
  BY <1>2 DEF TypeOK, Buffer
<1>4. idx[form] \notin Idx /\ \A f \in FormId : Alive(f)' <=> Alive(f) \/ f = form
  BY <1>2, <1>3, ContentTypes DEF Alive
<1>5. IndexesOwned'
  BY <1>1, <1>2, <1>3, <1>4, ContentTypes DEF IndexesOwned
<1>6. EntriesPlaced'
  BY <1>1, <1>3, <1>4, ContentTypes DEF EntriesPlaced, Placed, SameBatches
<1>7. VersionsOrdered'
  BY <1>1, <1>3, <1>4, ContentTypes DEF VersionsOrdered, EntriesPlaced, Placed, SameBatches, Kept
<1>8. PrefixWritten'
  BY <1>1 DEF PrefixWritten, SameBatches
<1>9. CutCovered'
  BY <1>1, <1>3, <1>4, ContentTypes DEF CutCovered, SameBatches
<1>10. NothingLost'
  <2> SUFFICES ASSUME NEW f \in FormId, Alive(f)', f \notin destroyed' PROVE Owed(f)'
    BY DEF NothingLost
  <2>1. CASE f = form
    <3>1. changesByIdx'[i] # NoChange
      <4>1. [form |-> form, ver |-> ver'[form]] \in Entry
        BY DEF Entry, TypeOK
      <4> QED BY <1>3, <4>1, PipelineAssumption
    <3>2. Covers(changesByIdx, f)'
      BY <1>1, <1>2, <1>3, <2>1, <3>1, ContentTypes DEF Covers
    <3> QED BY <1>2, <3>2 DEF Owed
  <2>2. CASE f # form
    <3>1. /\ Owed(f) /\ idx'[f] = idx[f] /\ requested'[f] = requested[f]
          /\ idx[f] \in Idx \ {i}
      BY <1>1, <1>2, <1>3, <1>4, <2>2, ContentTypes DEF NothingLost
    <3>2. changesByIdx'[idx[f]] = changesByIdx[idx[f]]
      BY <1>3, <3>1
    <3>3. CASE db[f] >= requested[f]
      BY <1>1, <3>1, <3>3 DEF Owed, SameBatches
    <3>4. CASE Covers(changesByIdx, f)
      <4>1. Covers(changesByIdx, f)'
        BY <3>1, <3>2, <3>4 DEF Covers
      <4> QED BY <1>2, <4>1 DEF Owed
    <3>5. CASE \E t \in Outstanding : Covers(t.forms, f)
      <4>1. \E t \in Outstanding' : Covers(t.forms, f)'
        BY <1>1, <3>1, <3>5 DEF Covers, SameBatches
      <4> QED BY <4>1 DEF Owed
    <3> QED BY <3>1, <3>3, <3>4, <3>5 DEF Owed
  <2> QED BY <2>1, <2>2
<1>11. SnapshotOnAck'
  BY <1>1 DEF SnapshotOnAck, SameBatches
<1> QED BY <1>5, <1>6, <1>7, <1>8, <1>9, <1>10, <1>11

\* An edit that requests a save puts the new content where the old one was.
LEMMA EditFormContents ==
  ASSUME TypeOK, TypeOK', BatchPlaces, Contents,
         NEW form \in FormId, EditForm(form)
  PROVE  Contents'
<1> USE DEF Contents
<1>1. SameBatches /\ UNCHANGED <<idx, refrByIdx, freed, destroyed, cutRequested, cutVer, tasks, cursor>>
  BY MovesNothingLemma DEF MovesNothing, Handler, EditForm, pipelineVars, saverVars, cutVars
<1> DEFINE i == idx[form]
<1>2. /\ Alive(form) /\ i \in Idx
      /\ ver' = [ver EXCEPT ![form] = @ + 1]
      /\ changesByIdx' = [changesByIdx EXCEPT ![i] = [form |-> form, ver |-> ver'[form]]]
      /\ changesByIdxEmpty' = FALSE
      /\ requested' = [requested EXCEPT ![form] = ver'[form]]
  BY ContentTypes DEF EditForm, Edit, RequestSave
<1>3. /\ ver'[form] = ver[form] + 1 /\ \A f \in FormId \ {form} : ver'[f] = ver[f]
      /\ changesByIdx'[i] = [form |-> form, ver |-> ver'[form]]
      /\ \A j \in Idx \ {i} : changesByIdx'[j] = changesByIdx[j]
      /\ requested'[form] = ver'[form]
      /\ \A f \in FormId \ {form} : requested'[f] = requested[f]
  BY <1>2 DEF TypeOK, Buffer
<1>4. \A f \in FormId : /\ Alive(f)' <=> Alive(f)
                        /\ Alive(f) /\ f # form => idx[f] # i
  BY <1>1, <1>2 DEF Alive, IndexesOwned
<1>5. IndexesOwned'
  BY <1>1, <1>3, <1>4, ContentTypes DEF IndexesOwned
<1>6. EntriesPlaced'
  BY <1>1, <1>3, ContentTypes DEF EntriesPlaced, Placed, SameBatches
<1>7. VersionsOrdered'
  BY <1>1, <1>3, <1>4, ContentTypes DEF VersionsOrdered, EntriesPlaced, Placed, SameBatches, Kept
<1>8. PrefixWritten'
  BY <1>1 DEF PrefixWritten, SameBatches
<1>9. CutCovered'
  BY <1>1, <1>4 DEF CutCovered, SameBatches
<1>10. NothingLost'
  <2> SUFFICES ASSUME NEW f \in FormId, Alive(f)', f \notin destroyed' PROVE Owed(f)'
    BY DEF NothingLost
  <2>1. CASE f = form
    <3>1. changesByIdx'[i] # NoChange
      <4>1. [form |-> form, ver |-> ver'[form]] \in Entry
        BY DEF Entry, TypeOK
      <4> QED BY <1>3, <4>1, PipelineAssumption
    <3>2. Covers(changesByIdx, f)'
      BY <1>1, <1>2, <1>3, <2>1, <3>1, ContentTypes DEF Covers
    <3> QED BY <1>2, <3>2 DEF Owed
  <2>2. CASE f # form
    <3>1. /\ Owed(f) /\ idx'[f] = idx[f] /\ requested'[f] = requested[f]
          /\ idx[f] \in Idx \ {i}
      BY <1>1, <1>2, <1>3, <1>4, <2>2, ContentTypes DEF NothingLost
    <3>2. changesByIdx'[idx[f]] = changesByIdx[idx[f]]
      BY <1>3, <3>1
    <3>3. CASE db[f] >= requested[f]
      BY <1>1, <3>1, <3>3 DEF Owed, SameBatches
    <3>4. CASE Covers(changesByIdx, f)
      <4>1. Covers(changesByIdx, f)'
        BY <3>1, <3>2, <3>4 DEF Covers
      <4> QED BY <1>2, <4>1 DEF Owed
    <3>5. CASE \E t \in Outstanding : Covers(t.forms, f)
      <4>1. \E t \in Outstanding' : Covers(t.forms, f)'
        BY <1>1, <3>1, <3>5 DEF Covers, SameBatches
      <4> QED BY <4>1 DEF Owed
    <3> QED BY <3>1, <3>3, <3>4, <3>5 DEF Owed
  <2> QED BY <2>1, <2>2
<1>11. SnapshotOnAck'
  BY <1>1 DEF SnapshotOnAck, SameBatches
<1> QED BY <1>5, <1>6, <1>7, <1>8, <1>9, <1>10, <1>11

\* An edit that requests no save only makes memory newer.
LEMMA EditSilentlyContents ==
  ASSUME TypeOK, TypeOK', BatchPlaces, Contents,
         NEW form \in FormId, EditSilently(form)
  PROVE  Contents'
<1> USE DEF Contents
<1>1. /\ SameBatches
      /\ UNCHANGED <<idx, refrByIdx, freed, destroyed, changesByIdx, changesByIdxEmpty,
                     requested, cutRequested, cutVer, tasks, cursor>>
      /\ ver' = [ver EXCEPT ![form] = @ + 1]
  BY MovesNothingLemma DEF MovesNothing, Handler, EditSilently, Edit, pipelineVars, saverVars, cutVars, bufferVars
<1>2. \A f \in FormId : ver'[f] >= ver[f] /\ ver'[f] \in Nat
  BY <1>1, ContentTypes DEF TypeOK
<1>3. IndexesOwned'
  BY <1>1, <1>2, ContentTypes DEF IndexesOwned, Alive
<1>4. EntriesPlaced'
  BY <1>1, <1>2, ContentTypes DEF EntriesPlaced, Placed, SameBatches
<1>5. VersionsOrdered'
  BY <1>1, <1>2, ContentTypes DEF VersionsOrdered, SameBatches, Kept, Alive
<1>6. PrefixWritten'
  BY <1>1 DEF PrefixWritten, SameBatches
<1>7. CutCovered'
  BY <1>1 DEF CutCovered, SameBatches, Alive
<1>8. NothingLost'
  BY <1>1 DEF NothingLost, Owed, Covers, SameBatches, Alive
<1>9. SnapshotOnAck'
  BY <1>1 DEF SnapshotOnAck, SameBatches
<1> QED BY <1>3, <1>4, <1>5, <1>6, <1>7, <1>8, <1>9
\* A destroyed form leaves its index; what still stands there is not constrained.
LEMMA DestroyFormContents ==
  ASSUME TypeOK, TypeOK', BatchPlaces, Contents,
         NEW form \in FormId, DestroyForm(form)
  PROVE  Contents'
<1> USE DEF Contents
<1>1. SameBatches /\ UNCHANGED <<refrByIdx, cutRequested, cutVer, tasks, cursor>>
  BY MovesNothingLemma DEF MovesNothing, Handler, DestroyForm, pipelineVars, saverVars, cutVars
<1> DEFINE i == idx[form]
<1>2. /\ Alive(form) /\ i \in Idx
      /\ ver' = [ver EXCEPT ![form] = @ + 1]
      /\ changesByIdx' = [changesByIdx EXCEPT ![i] = [form |-> form, ver |-> ver'[form]]]
      /\ changesByIdxEmpty' = FALSE
      /\ requested' = [requested EXCEPT ![form] = ver'[form]]
      /\ freed' = [freed EXCEPT ![i] = [form |-> form, ver |-> ver'[form]]]
      /\ idx' = [idx EXCEPT ![form] = InvalidIdx]
      /\ destroyed' = destroyed \cup {form}
  BY ContentTypes DEF DestroyForm, Edit, RequestSave
<1>3. /\ ver'[form] = ver[form] + 1 /\ \A f \in FormId \ {form} : ver'[f] = ver[f]
      /\ changesByIdx'[i] = [form |-> form, ver |-> ver'[form]]
      /\ \A j \in Idx \ {i} : changesByIdx'[j] = changesByIdx[j]
      /\ freed'[i] = [form |-> form, ver |-> ver'[form]]
      /\ \A j \in Idx \ {i} : freed'[j] = freed[j]
      /\ idx'[form] = InvalidIdx /\ \A f \in FormId \ {form} : idx'[f] = idx[f]
      /\ requested'[form] = ver'[form]
      /\ \A f \in FormId \ {form} : requested'[f] = requested[f]
  BY <1>2 DEF TypeOK, Buffer
<1>4. \A f \in FormId : /\ Alive(f)' <=> Alive(f) /\ f # form
                        /\ Alive(f) /\ f # form => idx[f] # i
  BY <1>2, <1>3 DEF Alive, IndexesOwned
<1>5. IndexesOwned'
  BY <1>1, <1>2, <1>3, <1>4, ContentTypes DEF IndexesOwned
<1>6. EntriesPlaced'
  BY <1>1, <1>2, <1>3, ContentTypes DEF EntriesPlaced, Placed, SameBatches
<1>7. VersionsOrdered'
  BY <1>1, <1>2, <1>3, <1>4, ContentTypes DEF VersionsOrdered, EntriesPlaced, Placed, SameBatches, Kept
<1>8. PrefixWritten'
  BY <1>1, <1>2 DEF PrefixWritten, SameBatches
<1>9. CutCovered'
  BY <1>1, <1>2, <1>3, <1>4 DEF CutCovered, SameBatches
<1>10. NothingLost'
  <2> SUFFICES ASSUME NEW f \in FormId, Alive(f)', f \notin destroyed' PROVE Owed(f)'
    BY DEF NothingLost
  <2>1. /\ Owed(f) /\ idx'[f] = idx[f] /\ requested'[f] = requested[f]
        /\ idx[f] \in Idx \ {i}
    BY <1>2, <1>3, <1>4, ContentTypes DEF NothingLost
  <2>2. changesByIdx'[idx[f]] = changesByIdx[idx[f]]
    BY <1>3, <2>1
  <2>3. CASE db[f] >= requested[f]
    BY <1>1, <2>1, <2>3 DEF Owed, SameBatches
  <2>4. CASE Covers(changesByIdx, f)
    <3>1. Covers(changesByIdx, f)'
      BY <2>1, <2>2, <2>4 DEF Covers
    <3> QED BY <1>2, <3>1 DEF Owed
  <2>5. CASE \E t \in Outstanding : Covers(t.forms, f)
    <3>1. \E t \in Outstanding' : Covers(t.forms, f)'
      BY <1>1, <2>1, <2>5 DEF Covers, SameBatches
    <3> QED BY <3>1 DEF Owed
  <2> QED BY <2>1, <2>3, <2>4, <2>5 DEF Owed
<1>11. SnapshotOnAck'
  BY <1>1, <1>2 DEF SnapshotOnAck, SameBatches
<1> QED BY <1>5, <1>6, <1>7, <1>8, <1>9, <1>10, <1>11

\* The forms of a failed batch are put back with what they hold now; a form that
\* the batch was to save is still found through its index.
LEMMA BatchFailedContents ==
  ASSUME TypeOK, TypeOK', BatchPlaces, Contents, BatchFailed
  PROVE  Contents'
<1> USE DEF Contents
<1>1. /\ exceptions # <<>>
      /\ Outstanding = {Head(exceptions).task} /\ Outstanding' = {}
      /\ InFlight' = {} /\ tasks' = <<>> /\ Acknowledged' = {} /\ db' = db
  BY BatchFailedMoves
<1>2. UNCHANGED <<idx, ver, refrByIdx, freed, destroyed, cutRequested, cutVer>>
  BY DEF BatchFailed, formVars, cutVars
<1> DEFINE failed == Head(exceptions).task.forms
<1>3. PICK again :
        /\ \E stillReadable \in SUBSET {i \in Idx : freed[i] # NoChange} :
             again = Resaved(failed, stillReadable)
        /\ changesByIdx' = [i \in Idx |-> IF i \in again THEN Found(i) ELSE changesByIdx[i]]
        /\ changesByIdxEmpty' = (changesByIdxEmpty /\ again = {})
        /\ requested' = [f \in FormId |-> IF idx[f] \in again THEN ver[f] ELSE requested[f]]
  BY DEF BatchFailed
<1> HIDE DEF failed
<1>4. \A i \in again : i \in Idx /\ failed[i] # NoChange /\ refrByIdx[i] = failed[i].form
  BY <1>3 DEF Resaved
<1>5. \A i \in Idx : failed[i] # NoChange /\ refrByIdx[i] = failed[i].form /\ freed[i] = NoChange
                       => i \in again
  BY <1>3 DEF Resaved
<1>6. \A i \in Idx : failed[i] # NoChange =>
        /\ failed[i].form \in FormId
        /\ failed[i].form \in destroyed \/ idx[failed[i].form] = i
  BY <1>1, ContentTypes DEF EntriesPlaced, Placed, failed
<1>7. \A i \in again : /\ changesByIdx'[i] = Found(i)
                       /\ Found(i).form \in FormId /\ Found(i).ver \in Nat
                       /\ \/ Found(i).form \in destroyed
                          \/ idx[Found(i).form] = i /\ Found(i).ver = ver[Found(i).form]
                       /\ Found(i).ver <= ver[Found(i).form]
  <2> SUFFICES ASSUME NEW i \in again
               PROVE  /\ Found(i).form \in FormId /\ Found(i).ver \in Nat
                      /\ \/ Found(i).form \in destroyed
                         \/ idx[Found(i).form] = i /\ Found(i).ver = ver[Found(i).form]
                      /\ Found(i).ver <= ver[Found(i).form]
    BY <1>3, <1>4
  <2>1. i \in Idx /\ refrByIdx[i] = failed[i].form /\ failed[i].form \in FormId
    BY <1>4, <1>6
  <2>2. CASE freed[i] = NoChange
    <3>1. Found(i).form = failed[i].form /\ Found(i).ver = ver[failed[i].form]
      BY <2>1, <2>2 DEF Found, Content
    <3> QED BY <1>4, <1>6, <2>1, <3>1, ContentTypes
  <2>3. CASE freed[i] # NoChange
    BY <2>1, <2>3, ContentTypes DEF Found, IndexesOwned
  <2> QED BY <2>2, <2>3
<1>8. \A i \in Idx \ again : changesByIdx'[i] = changesByIdx[i]
  BY <1>3
<1>9. \A f \in FormId : /\ idx[f] \in again => requested'[f] = ver[f]
                        /\ idx[f] \notin again => requested'[f] = requested[f]
  BY <1>3
<1>10. IndexesOwned'
  BY <1>2 DEF IndexesOwned, Alive
<1>11. EntriesPlaced'
  BY <1>1, <1>2, <1>7, <1>8 DEF EntriesPlaced, Placed
<1>12. VersionsOrdered'
  <2>1. \A f \in FormId : /\ db'[f] <= cutVer'[f] /\ cutVer'[f] <= ver'[f]
                          /\ requested'[f] <= ver'[f]
                          /\ Kept(f)' => db'[f] <= requested'[f]
    BY <1>1, <1>2, <1>9, ContentTypes DEF VersionsOrdered, Kept, Alive
  <2>2. ASSUME NEW i \in Idx, changesByIdx'[i] # NoChange, changesByIdx'[i].form \notin destroyed'
        PROVE  changesByIdx'[i].ver = requested'[changesByIdx'[i].form]
    <3>1. CASE i \in again
      BY <1>2, <1>7, <1>9, <2>2, <3>1
    <3>2. CASE i \notin again
      <4>1. changesByIdx'[i] = changesByIdx[i]
        BY <1>8, <3>2
      <4>2. changesByIdx[i].form \in FormId /\ idx[changesByIdx[i].form] = i
        BY <1>2, <2>2, <4>1, ContentTypes DEF EntriesPlaced, Placed
      <4> QED BY <1>2, <1>9, <2>2, <3>2, <4>1, <4>2 DEF VersionsOrdered
    <3> QED BY <3>1, <3>2
  <2> QED BY <1>1, <2>1, <2>2 DEF VersionsOrdered
<1>13. PrefixWritten'
  BY <1>1 DEF PrefixWritten
<1>14. CutCovered'
  BY <1>1, <1>2 DEF CutCovered, Alive
<1>15. NothingLost'
  <2> SUFFICES ASSUME NEW f \in FormId, Alive(f)', f \notin destroyed' PROVE Owed(f)'
    BY DEF NothingLost
  <2>1. /\ Alive(f) /\ f \notin destroyed /\ idx[f] \in Idx /\ Owed(f)
        /\ refrByIdx[idx[f]] = f /\ freed[idx[f]] = NoChange
    BY <1>2, ContentTypes DEF Alive, NothingLost, IndexesOwned
  <2>2. CASE idx[f] \in again
    <3>1. changesByIdx'[idx[f]] = [form |-> f, ver |-> ver[f]] /\ requested'[f] = ver[f]
      BY <1>3, <1>7, <2>1, <2>2 DEF Found, Content
    <3>2. [form |-> f, ver |-> ver[f]] # NoChange
      <4>1. [form |-> f, ver |-> ver[f]] \in Entry
        BY DEF Entry, TypeOK
      <4> QED BY <4>1, PipelineAssumption
    <3>3. Covers(changesByIdx, f)'
      BY <1>2, <3>1, <3>2, ContentTypes DEF Covers
    <3>4. ~changesByIdxEmpty'
      BY <1>3, <2>2
    <3> QED BY <3>3, <3>4 DEF Owed
  <2>3. CASE idx[f] \notin again
    <3>1. requested'[f] = requested[f] /\ changesByIdx'[idx[f]] = changesByIdx[idx[f]]
      BY <1>8, <1>9, <2>1, <2>3
    <3>2. CASE db[f] >= requested[f]
      BY <1>1, <3>1, <3>2 DEF Owed
    <3>3. CASE ~changesByIdxEmpty /\ Covers(changesByIdx, f)
      <4>1. Covers(changesByIdx, f)'
        BY <1>2, <3>1, <3>3 DEF Covers
      <4>2. ~changesByIdxEmpty'
        BY <1>3, <3>3
      <4> QED BY <4>1, <4>2 DEF Owed
    <3>4. CASE \E t \in Outstanding : Covers(t.forms, f)
      <4>1. failed[idx[f]] # NoChange /\ failed[idx[f]].form = f
        BY <1>1, <3>4 DEF Covers, failed
      <4> QED BY <1>5, <2>1, <2>3, <4>1
    <3> QED BY <2>1, <3>2, <3>3, <3>4 DEF Owed
  <2> QED BY <2>2, <2>3
<1>16. SnapshotOnAck'
  BY <1>1 DEF SnapshotOnAck
<1> QED BY <1>10, <1>11, <1>12, <1>13, <1>14, <1>15, <1>16
\* The world as seen by the steps that leave its variables alone.
WorldUnchanged ==
  UNCHANGED <<idx, ver, refrByIdx, freed, destroyed, changesByIdx, changesByIdxEmpty,
              requested, cutRequested, cutVer>>

\* The callback of the only batch is called: nothing was outstanding.
LEMMA BatchSavedContents ==
  ASSUME TypeOK, BatchPlaces, Contents, BatchSaved
  PROVE  Contents'
<1> USE DEF Contents
<1>1. /\ Outstanding = {} /\ Outstanding' = {} /\ InFlight' = {} /\ tasks' = <<>>
      /\ Acknowledged' = {} /\ db' = db
  BY BatchSavedMoves
<1>2. WorldUnchanged
  BY DEF BatchSaved, formVars, bufferVars, cutVars, WorldUnchanged
<1> USE DEF WorldUnchanged
<1>3. IndexesOwned'
  BY <1>2 DEF IndexesOwned, Alive
<1>4. EntriesPlaced'
  BY <1>1, <1>2 DEF EntriesPlaced, Placed
<1>5. VersionsOrdered'
  BY <1>1, <1>2 DEF VersionsOrdered, Kept, Alive
<1>6. PrefixWritten'
  BY <1>1 DEF PrefixWritten
<1>7. CutCovered'
  BY <1>1, <1>2 DEF CutCovered, Alive
<1>8. NothingLost'
  BY <1>1, <1>2 DEF NothingLost, Owed, Covers, Alive
<1>9. SnapshotOnAck'
  BY <1>1 DEF SnapshotOnAck
<1> QED BY <1>3, <1>4, <1>5, <1>6, <1>7, <1>8, <1>9

\* The buffer becomes the only batch: what it covered, the batch covers.
LEMMA SubmitContents ==
  ASSUME TypeOK, TypeOK', BatchPlaces, Contents, SubmitBatch
  PROVE  Contents'
<1> USE DEF Contents
<1> DEFINE batch == [forms |-> changesByIdx, callback |-> "clearBusy"]
<1>1. /\ Outstanding = {} /\ Outstanding' = {batch} /\ InFlight' = {batch}
      /\ Acknowledged' = {} /\ tasks' = <<>> /\ db' = db
  BY SubmitMoves
<1>2. /\ UNCHANGED <<idx, ver, refrByIdx, freed, destroyed, requested>>
      /\ changesByIdx' = EmptyBuffer
      /\ cutRequested' =
           [f \in FormId |-> IF Alive(f) /\ f \notin destroyed THEN requested[f] ELSE Corrupt]
      /\ cutVer' = ver
  BY DEF SubmitBatch, formVars
<1>3. batch.forms = changesByIdx
  OBVIOUS
<1> HIDE DEF batch
<1>4. \A i \in Idx : changesByIdx'[i] = NoChange
  BY <1>2 DEF EmptyBuffer
<1>5. IndexesOwned'
  BY <1>2 DEF IndexesOwned, Alive
<1>6. EntriesPlaced'
  BY <1>1, <1>2, <1>3, <1>4 DEF EntriesPlaced, Placed
<1>7. VersionsOrdered'
  <2>1. \A f \in FormId : /\ db'[f] <= cutVer'[f] /\ cutVer'[f] <= ver'[f]
                          /\ requested'[f] <= ver'[f]
                          /\ Kept(f)' => db'[f] <= requested'[f]
    BY <1>1, <1>2, ContentTypes DEF VersionsOrdered, Kept, Alive
  <2>2. \A i \in Idx : changesByIdx[i] # NoChange =>
          LET e == changesByIdx[i]
          IN /\ e.ver <= ver[e.form]
             /\ e.form \notin destroyed => db[e.form] <= e.ver /\ e.ver <= requested[e.form]
    BY ContentTypes DEF VersionsOrdered, EntriesPlaced, Placed, Kept
  <2> QED BY <1>1, <1>2, <1>3, <1>4, <2>1, <2>2 DEF VersionsOrdered
<1>8. PrefixWritten'
  BY <1>1 DEF PrefixWritten
<1>9. ASSUME NEW f \in FormId, Alive(f), f \notin destroyed
      PROVE  db[f] >= requested[f] \/ Covers(changesByIdx, f)
  BY <1>1, <1>9 DEF NothingLost, Owed
<1>10. CutCovered'
  <2>1. \A f \in FormId \ destroyed' : cutRequested'[f] # Corrupt => Alive(f)'
    BY <1>2 DEF Alive
  <2>2. ASSUME NEW f \in FormId \ destroyed'
        PROVE  \/ db'[f] >= cutRequested'[f]
               \/ /\ batch.forms[idx'[f]] # NoChange
                  /\ batch.forms[idx'[f]].form = f
                  /\ batch.forms[idx'[f]].ver >= cutRequested'[f]
    BY <1>1, <1>2, <1>3, <1>9, ContentTypes DEF Covers
  <2> QED BY <1>1, <2>1, <2>2 DEF CutCovered
<1>11. NothingLost'
  <2> SUFFICES ASSUME NEW f \in FormId, Alive(f)', f \notin destroyed' PROVE Owed(f)'
    BY DEF NothingLost
  <2>1. db[f] >= requested[f] \/ Covers(changesByIdx, f)
    BY <1>2, <1>9 DEF Alive
  <2>2. CASE Covers(changesByIdx, f)
    <3>1. PICK b \in Outstanding' : b.forms = changesByIdx
      BY <1>1, <1>3
    <3>2. Covers(b.forms, f)'
      BY <1>2, <2>2, <3>1 DEF Covers
    <3> QED BY <3>1, <3>2 DEF Owed
  <2> QED BY <1>1, <1>2, <2>1, <2>2 DEF Owed
<1>12. SnapshotOnAck'
  BY <1>1 DEF SnapshotOnAck
<1> QED BY <1>5, <1>6, <1>7, <1>8, <1>10, <1>11, <1>12

\* A record of the only batch reaches the database.
LEMMA StoreContents ==
  ASSUME TypeOK, TypeOK', BatchPlaces, Contents, SaverStoreRecord, Saver
  PROVE  Contents'
<1> USE DEF Contents
<1> DEFINE t == Head(tasks)
<1>1. /\ tasks # <<>> /\ tasks' = tasks
      /\ Outstanding = {t} /\ Outstanding' = {t} /\ InFlight = {t} /\ InFlight' = {t}
      /\ Acknowledged' = {}
  BY StoreMoves
<1>2. WorldUnchanged
  BY DEF Saver, formVars, bufferVars, cutVars, WorldUnchanged
<1> USE DEF WorldUnchanged
<1>3. PICK i \in Idx : /\ NextRecord(i)
                       /\ StoreRecord(t.forms[i].form, t.forms[i].ver)
                       /\ cursor' = i + 1
  BY DEF SaverStoreRecord
<1> DEFINE e == t.forms[i]
<1>4. /\ e # NoChange /\ e.form \in FormId /\ e.ver \in Nat
      /\ db'[e.form] = e.ver
      /\ \A f \in FormId \ {e.form} : db'[f] = db[f]
      /\ \A j \in Idx : cursor <= j /\ j < i => t.forms[j] = NoChange
  BY <1>1, <1>3, ContentTypes DEF NextRecord, StoreRecord, TypeOK, PipelineTypeOK, DbTypeOK
<1>5. /\ e.ver <= cutVer[e.form]
      /\ e.form \notin destroyed =>
           idx[e.form] = i /\ db[e.form] <= e.ver /\ e.ver <= requested[e.form]
  BY <1>1, <1>4 DEF VersionsOrdered, EntriesPlaced, Placed
<1>6. \A j \in Idx : t.forms[j] # NoChange /\ t.forms[j].form \notin destroyed
                       => t.forms[j].form \in FormId /\ idx[t.forms[j].form] = j
  BY <1>1, ContentTypes DEF EntriesPlaced, Placed
<1>7. /\ \A f \in FormId \ destroyed : db'[f] >= db[f] /\ db'[f] \in Int
      /\ cursor \in Int /\ i \in Int
  <2>1. cursor \in Int /\ i \in Int
    <3>1. cursor \in 0..NumIdx
      BY DEF TypeOK, PipelineTypeOK
    <3> QED BY <3>1, ContentTypes
  <2> QED BY <1>4, <1>5, <2>1, ContentTypes
<1> HIDE DEF t, e
<1>8. IndexesOwned'
  BY <1>2 DEF IndexesOwned, Alive
<1>9. EntriesPlaced'
  BY <1>1, <1>2 DEF EntriesPlaced, Placed
<1>10. VersionsOrdered'
  <2>1. \A f \in FormId : /\ db'[f] <= cutVer'[f] /\ cutVer'[f] <= ver'[f]
                          /\ requested'[f] <= ver'[f]
                          /\ Kept(f)' => db'[f] <= requested'[f]
    BY <1>2, <1>4, <1>5 DEF VersionsOrdered, Kept, Alive
  <2>2. ASSUME NEW j \in Idx, t.forms[j] # NoChange, t.forms[j].form \notin destroyed
        PROVE  db'[t.forms[j].form] <= t.forms[j].ver
    <3>1. CASE t.forms[j].form = e.form
      <4>1. j = i
        BY <1>5, <1>6, <2>2, <3>1
      <4> QED BY <1>4, <4>1 DEF e
    <3>2. CASE t.forms[j].form # e.form
      BY <1>1, <1>4, <1>6, <2>2, <3>2 DEF VersionsOrdered
    <3> QED BY <3>1, <3>2
  <2> QED BY <1>1, <1>2, <2>1, <2>2 DEF VersionsOrdered
<1>11. PrefixWritten'
  <2> SUFFICES ASSUME NEW j \in Idx, j < cursor', t.forms[j] # NoChange,
                      t.forms[j].form \notin destroyed
               PROVE  db'[t.forms[j].form] >= t.forms[j].ver
    BY <1>1, <1>2 DEF PrefixWritten, t
  <2>1. CASE j = i
    BY <1>4, <2>1 DEF e
  <2>2. CASE j # i
    <3>1. j < cursor
      <4>1. j < i /\ j \in Int
        BY <1>3, <1>7, <2>2, ContentTypes
      <4>2. ~(cursor <= j)
        BY <1>4, <4>1
      <4> QED BY <1>7, <4>1, <4>2
    <3>2. db[t.forms[j].form] >= t.forms[j].ver
      BY <1>1, <3>1 DEF PrefixWritten, t
    <3>3. t.forms[j].form \in FormId /\ t.forms[j].form # e.form
      BY <1>5, <1>6, <2>2
    <3> QED BY <1>4, <3>2, <3>3
  <2> QED BY <2>1, <2>2
<1>12. CutCovered'
  <2>1. \A f \in FormId \ destroyed' : cutRequested'[f] # Corrupt => Alive(f)'
    BY <1>2 DEF CutCovered, Alive
  <2>2. ASSUME NEW f \in FormId \ destroyed'
        PROVE  \/ db'[f] >= cutRequested'[f]
               \/ /\ t.forms[idx'[f]] # NoChange
                  /\ t.forms[idx'[f]].form = f
                  /\ t.forms[idx'[f]].ver >= cutRequested'[f]
    <3>1. db'[f] >= db[f] /\ db[f] \in Int /\ cutRequested[f] \in Int /\ db'[f] \in Int
      BY <1>2, <1>7, <2>2, ContentTypes
    <3> QED BY <1>1, <1>2, <2>2, <3>1 DEF CutCovered
  <2> QED BY <1>1, <2>1, <2>2 DEF CutCovered
<1>13. NothingLost'
  <2> SUFFICES ASSUME NEW f \in FormId, Alive(f)', f \notin destroyed' PROVE Owed(f)'
    BY DEF NothingLost
  <2>1. Owed(f)
    BY <1>2 DEF Alive, NothingLost
  <2>2. CASE db[f] >= requested[f]
    <3>1. db'[f] >= db[f] /\ db[f] \in Int /\ requested[f] \in Int /\ db'[f] \in Int
      BY <1>2, <1>7, ContentTypes
    <3> QED BY <1>2, <2>2, <3>1 DEF Owed
  <2>3. CASE ~changesByIdxEmpty /\ Covers(changesByIdx, f)
    BY <1>2, <2>3 DEF Owed, Covers
  <2>4. CASE \E b \in Outstanding : Covers(b.forms, f)
    BY <1>1, <1>2, <2>4 DEF Owed, Covers
  <2> QED BY <2>1, <2>2, <2>3, <2>4 DEF Owed
<1>14. SnapshotOnAck'
  BY <1>1 DEF SnapshotOnAck
<1> QED BY <1>8, <1>9, <1>10, <1>11, <1>12, <1>13, <1>14
\* The only batch is finished: everything it covered is in the database.
LEMMA SucceedContents ==
  ASSUME TypeOK, TypeOK', BatchPlaces, Contents, SaverUpsertSucceeds, Saver
  PROVE  Contents'
<1> USE DEF Contents
<1> DEFINE t == Head(tasks)
<1>1. /\ tasks # <<>> /\ tasks' = <<>>
      /\ Outstanding = {t} /\ Outstanding' = {} /\ InFlight = {t} /\ InFlight' = {}
      /\ db' = db
  BY SucceedMoves
<1>2. WorldUnchanged
  BY DEF Saver, formVars, bufferVars, cutVars, WorldUnchanged
<1> USE DEF WorldUnchanged
<1>3. \A i \in Idx : t.forms[i] # NoChange =>
        /\ t.forms[i].form \in FormId
        /\ t.forms[i].form \notin destroyed => db[t.forms[i].form] >= t.forms[i].ver
  <2> SUFFICES ASSUME NEW i \in Idx, t.forms[i] # NoChange
               PROVE  /\ t.forms[i].form \in FormId
                      /\ t.forms[i].form \notin destroyed => db[t.forms[i].form] >= t.forms[i].ver
    OBVIOUS
  <2>1. ~(cursor <= i)
    BY DEF SaverUpsertSucceeds, AllRecordsStored
  <2>2. cursor \in Int /\ i \in Int
    <3>1. cursor \in 0..NumIdx
      BY DEF TypeOK, PipelineTypeOK
    <3> QED BY <3>1, ContentTypes
  <2>3. i < cursor
    BY <2>1, <2>2
  <2> QED BY <1>1, <2>3, ContentTypes DEF PrefixWritten
<1> HIDE DEF t
<1>4. IndexesOwned'
  BY <1>2 DEF IndexesOwned, Alive
<1>5. EntriesPlaced'
  BY <1>1, <1>2 DEF EntriesPlaced, Placed
<1>6. VersionsOrdered'
  BY <1>1, <1>2 DEF VersionsOrdered, Kept, Alive
<1>7. PrefixWritten'
  BY <1>1 DEF PrefixWritten
<1>8. CutCovered'
  BY <1>1, <1>2 DEF CutCovered, Alive
<1>9. NothingLost'
  <2> SUFFICES ASSUME NEW f \in FormId, Alive(f)', f \notin destroyed' PROVE Owed(f)'
    BY DEF NothingLost
  <2>1. Owed(f) /\ idx[f] \in Idx
    BY <1>2, ContentTypes DEF Alive, NothingLost
  <2>2. CASE db[f] >= requested[f]
    BY <1>1, <1>2, <2>2 DEF Owed
  <2>3. CASE ~changesByIdxEmpty /\ Covers(changesByIdx, f)
    BY <1>2, <2>3 DEF Owed, Covers
  <2>4. CASE Covers(t.forms, f)
    <3>1. db[f] >= t.forms[idx[f]].ver /\ t.forms[idx[f]].ver >= requested[f]
      BY <1>2, <1>3, <2>1, <2>4 DEF Covers
    <3>2. db[f] \in Int /\ t.forms[idx[f]].ver \in Int /\ requested[f] \in Int
      BY <1>1, <2>1, <2>4, ContentTypes DEF Covers
    <3>3. db[f] >= requested[f]
      BY <3>1, <3>2
    <3> QED BY <1>1, <1>2, <3>3 DEF Owed
  <2> QED BY <1>1, <2>1, <2>2, <2>3, <2>4 DEF Owed
<1>10. SnapshotOnAck'
  <2> SUFFICES ASSUME NEW f \in FormId \ destroyed
               PROVE  cutRequested[f] <= db[f] /\ db[f] <= cutVer[f]
    BY <1>1, <1>2, ContentTypes DEF SnapshotOnAck
  <2>1. db[f] <= cutVer[f]
    BY DEF VersionsOrdered
  <2>2. db[f] \in Int /\ cutRequested[f] \in Int /\ db[f] >= Corrupt
    BY ContentTypes
  <2>3. CASE db[f] >= cutRequested[f]
    BY <2>1, <2>2, <2>3
  <2>4. CASE /\ cutRequested[f] # Corrupt
             /\ t.forms[idx[f]] # NoChange
             /\ t.forms[idx[f]].form = f
             /\ t.forms[idx[f]].ver >= cutRequested[f]
    <3>1. idx[f] \in Idx
      BY <2>4, ContentTypes DEF CutCovered
    <3>2. db[f] >= t.forms[idx[f]].ver /\ t.forms[idx[f]].ver \in Int
      BY <1>1, <1>3, <2>4, <3>1, ContentTypes
    <3> QED BY <2>1, <2>2, <2>4, <3>2
  <2>5. CASE cutRequested[f] = Corrupt
    BY <2>1, <2>2, <2>5
  <2> QED BY <1>1, <2>3, <2>4, <2>5 DEF CutCovered
<1> QED BY <1>4, <1>5, <1>6, <1>7, <1>8, <1>9, <1>10

\* The only batch fails, and may have left one file that does not parse.
LEMMA FailContents ==
  ASSUME TypeOK, TypeOK', BatchPlaces, Contents, SaverUpsertFails, Saver
  PROVE  Contents'
<1> USE DEF Contents
<1> DEFINE t == Head(tasks)
<1>1. /\ tasks # <<>> /\ tasks' = <<>>
      /\ Outstanding = {t} /\ Outstanding' = {t} /\ InFlight' = {} /\ Acknowledged' = {}
  BY FailMoves
<1>2. WorldUnchanged
  BY DEF Saver, formVars, bufferVars, cutVars, WorldUnchanged
<1> USE DEF WorldUnchanged
<1>3. \/ db' = db
      \/ \E i \in Idx : t.forms[i] # NoChange /\ db' = [db EXCEPT ![t.forms[i].form] = Corrupt]
  BY DEF SaverUpsertFails, RejectRecord, TruncateRecord, NextRecord
<1>4. \A f \in FormId : /\ db'[f] \in Int /\ db'[f] <= db[f]
                        /\ db'[f] = db[f]
                             \/ \E i \in Idx : t.forms[i] # NoChange /\ t.forms[i].form = f
  <2>1. CASE db' = db
    BY <2>1, ContentTypes
  <2>2. CASE \E i \in Idx : t.forms[i] # NoChange /\ db' = [db EXCEPT ![t.forms[i].form] = Corrupt]
    <3>1. PICK i \in Idx : t.forms[i] # NoChange /\ db' = [db EXCEPT ![t.forms[i].form] = Corrupt]
      BY <2>2
    <3>2. DOMAIN db = FormId
      BY DEF TypeOK, PipelineTypeOK, DbTypeOK
    <3>3. \A f \in FormId : db'[f] = IF f = t.forms[i].form THEN Corrupt ELSE db[f]
      BY <3>1, <3>2
    <3> QED BY <3>1, <3>3, ContentTypes
  <2> QED BY <1>3, <2>1, <2>2
<1> HIDE DEF t
<1>5. IndexesOwned'
  BY <1>2 DEF IndexesOwned, Alive
<1>6. EntriesPlaced'
  BY <1>1, <1>2 DEF EntriesPlaced, Placed
<1>7. VersionsOrdered'
  <2>1. \A f \in FormId : /\ db'[f] <= cutVer'[f] /\ cutVer'[f] <= ver'[f]
                          /\ requested'[f] <= ver'[f]
                          /\ Kept(f)' => db'[f] <= requested'[f]
    BY <1>2, <1>4, ContentTypes DEF VersionsOrdered, Kept, Alive
  <2>2. ASSUME NEW j \in Idx, t.forms[j] # NoChange, t.forms[j].form \notin destroyed
        PROVE  db'[t.forms[j].form] <= t.forms[j].ver
    <3>1. /\ t.forms[j].form \in FormId /\ t.forms[j].ver \in Int
          /\ db[t.forms[j].form] <= t.forms[j].ver
      BY <1>1, <2>2, ContentTypes DEF VersionsOrdered
    <3> QED BY <1>4, <3>1, ContentTypes
  <2> QED BY <1>1, <1>2, <2>1, <2>2 DEF VersionsOrdered
<1>8. PrefixWritten'
  BY <1>1 DEF PrefixWritten
<1>9. CutCovered'
  BY <1>1, <1>2 DEF CutCovered, Alive
<1>10. NothingLost'
  <2> SUFFICES ASSUME NEW f \in FormId, Alive(f)', f \notin destroyed' PROVE Owed(f)'
    BY DEF NothingLost
  <2>1. Alive(f) /\ f \notin destroyed /\ Owed(f)
    BY <1>2 DEF Alive, NothingLost
  <2>2. CASE ~changesByIdxEmpty /\ Covers(changesByIdx, f)
    BY <1>2, <2>2 DEF Owed, Covers
  <2>3. CASE \E b \in Outstanding : Covers(b.forms, f)
    BY <1>1, <1>2, <2>3 DEF Owed, Covers
  <2>4. CASE db[f] >= requested[f] /\ db'[f] = db[f]
    BY <1>2, <2>4 DEF Owed
  <2>5. CASE db[f] >= requested[f] /\ db'[f] # db[f]
    <3>1. PICK i \in Idx : t.forms[i] # NoChange /\ t.forms[i].form = f
      BY <1>4, <2>5
    <3>2. /\ idx[f] = i /\ db[f] <= t.forms[i].ver
          /\ t.forms[i].ver \in Int /\ db[f] \in Int /\ requested[f] \in Int
      BY <1>1, <2>1, <3>1, ContentTypes DEF EntriesPlaced, Placed, VersionsOrdered
    <3>3. Covers(t.forms, f)
      BY <2>5, <3>1, <3>2 DEF Covers
    <3> QED BY <1>1, <1>2, <3>3 DEF Owed, Covers
  <2> QED BY <2>1, <2>2, <2>3, <2>4, <2>5 DEF Owed
<1>11. SnapshotOnAck'
  BY <1>1 DEF SnapshotOnAck
<1> QED BY <1>5, <1>6, <1>7, <1>8, <1>9, <1>10, <1>11

\* After a restart memory holds what the database holds, and nothing is owed.
LEMMA RestartContents ==
  ASSUME TypeOK, TypeOK', Contents, Restart
  PROVE  Contents'
<1> USE DEF Contents
<1>1. /\ Outstanding' = {} /\ InFlight' = {} /\ Acknowledged' = {} /\ tasks' = <<>>
      /\ db' = db
  BY RestartMoves
<1>2. PICK forms \in SUBSET Readable, index \in [FormId -> Idx \cup {InvalidIdx}] :
        /\ Loaded(forms, index)
        /\ idx' = index
        /\ ver' = [f \in FormId |-> IF f \in forms THEN db[f] ELSE ver[f]]
        /\ refrByIdx' = Pointers(forms, index)
        /\ requested' = [f \in FormId |-> IF f \in forms THEN db[f] ELSE requested[f]]
  BY DEF Restart
<1>3. /\ freed' = EmptyBuffer /\ changesByIdx' = EmptyBuffer /\ destroyed' = {}
      /\ cutRequested' = [f \in FormId |-> Corrupt]
      /\ cutVer' = [f \in FormId |-> ver'[f]]
  BY DEF Restart
<1>4. \A i \in Idx : freed'[i] = NoChange /\ changesByIdx'[i] = NoChange
  BY <1>3 DEF EmptyBuffer
<1>5. /\ \A f \in FormId : Alive(f)' <=> f \in forms
      /\ \A f, g \in forms : f # g => idx'[f] # idx'[g]
  BY <1>2 DEF Loaded, Alive
<1>6. \A f \in FormId : /\ f \in forms => ver'[f] = db[f] /\ requested'[f] = db[f]
                        /\ f \notin forms => ver'[f] = ver[f] /\ requested'[f] = requested[f]
  BY <1>2
<1>7. ASSUME NEW f \in FormId, f \in forms PROVE refrByIdx'[idx'[f]] = f
  <2>1. idx'[f] \in Idx /\ f \in forms /\ index[f] = idx'[f]
    BY <1>2, <1>5, <1>7 DEF Alive
  <2>2. (CHOOSE g \in forms : index[g] = idx'[f]) = f
    BY <1>2, <1>5, <2>1
  <2> QED BY <1>2, <2>1, <2>2 DEF Pointers
<1>8. IndexesOwned'
  <2>1. \A f, g \in FormId : Alive(f)' /\ idx'[f] = idx'[g] => f = g
    BY <1>5 DEF Alive
  <2>2. \A f \in FormId : Alive(f)' => refrByIdx'[idx'[f]] = f /\ freed'[idx'[f]] = NoChange
    <3> SUFFICES ASSUME NEW f \in FormId, Alive(f)'
                 PROVE  refrByIdx'[idx'[f]] = f /\ freed'[idx'[f]] = NoChange
      OBVIOUS
    <3>1. f \in forms /\ idx'[f] \in Idx
      BY <1>2, <1>5 DEF Alive
    <3> QED BY <1>4, <1>7, <3>1
  <2> QED BY <1>4, <2>1, <2>2 DEF IndexesOwned
<1>9. EntriesPlaced'
  BY <1>1, <1>4 DEF EntriesPlaced, Placed
<1>10. VersionsOrdered'
  BY <1>1, <1>3, <1>4, <1>5, <1>6, ContentTypes DEF VersionsOrdered, Kept
<1>11. PrefixWritten'
  BY <1>1 DEF PrefixWritten
<1>12. CutCovered'
  BY <1>1, <1>3 DEF CutCovered
<1>13. NothingLost'
  BY <1>1, <1>5, <1>6, ContentTypes DEF NothingLost, Owed
<1>14. SnapshotOnAck'
  BY <1>1 DEF SnapshotOnAck
<1> QED BY <1>8, <1>9, <1>10, <1>11, <1>12, <1>13, <1>14
-----------------------------------------------------------------------------
(* The whole invariant.                                                    *)

LEMMA NextBuffersClean ==
  ASSUME TypeOK, BuffersClean, [Next]_vars
  PROVE  BuffersClean'
<1> USE DEF BuffersClean, NoHiddenChange
<1>1. CASE Handler
  <2>1. recycledBuffers' = recycledBuffers /\ worldPc' = "idle"
    BY <1>1 DEF Handler, CreateForm, EditForm, EditSilently, DestroyForm, Handling,
                pipelineVars, shareVars
  <2>2. CASE \E form \in FormId : EditSilently(form)
    <3>1. UNCHANGED <<changesByIdx, changesByIdxEmpty>>
      BY <2>2 DEF EditSilently, bufferVars
    <3> QED BY <2>1, <3>1
  <2>3. CASE \E form \in FormId, i \in Idx : CreateForm(form, i)
    <3>1. ~changesByIdxEmpty'
      BY <2>3 DEF CreateForm, RequestSave
    <3> QED BY <2>1, <3>1
  <2>4. CASE \E form \in FormId : EditForm(form) \/ DestroyForm(form)
    <3>1. ~changesByIdxEmpty'
      BY <2>4 DEF EditForm, DestroyForm, RequestSave
    <3> QED BY <2>1, <3>1
  <2> QED BY <1>1, <2>2, <2>3, <2>4 DEF Handler
<1>2. CASE BatchFailed
  <2>1. recycledBuffers' = recycledBuffers /\ worldPc' = "submit"
    BY <1>2 DEF BatchFailed, TickRethrow
  <2>2. PICK again :
          /\ changesByIdx' = [i \in Idx |-> IF i \in again THEN Found(i) ELSE changesByIdx[i]]
          /\ changesByIdxEmpty' = (changesByIdxEmpty /\ again = {})
    BY <1>2 DEF BatchFailed
  <2>3. ASSUME changesByIdxEmpty' PROVE changesByIdx' = EmptyBuffer
    <3>1. changesByIdxEmpty /\ again = {}
      BY <2>2, <2>3
    <3>2. \A i \in Idx : changesByIdx[i] = NoChange
      BY <3>1 DEF EmptyBuffer
    <3> QED BY <2>2, <3>1, <3>2 DEF EmptyBuffer
  <2> QED BY <2>1, <2>3
<1>3. CASE StartTick \/ TakeCallbacks \/ BatchSaved \/ TickReturns \/ NothingToSubmit
  <2>1. /\ UNCHANGED <<recycledBuffers, changesByIdx, changesByIdxEmpty>>
        /\ worldPc' \in {"tick", "submit", "idle"}
    BY <1>3 DEF StartTick, TakeCallbacks, BatchSaved, TickReturns, NothingToSubmit,
                TickNoException, TickTakeUpsertCallbacks, TickFireUpsertCallback,
                TickUpsertCallbacksDone, pipelineVars, shareVars, bufferVars
  <2> QED BY <2>1
<1>4. CASE SubmitBatch
  BY <1>4 DEF SubmitBatch
<1>5. CASE TakeBuffer
  <2>1. /\ worldPc = "recycle" /\ worldPc' = "idle" /\ UNCHANGED changesByIdxEmpty
        /\ \/ /\ recycledBuffers # <<>> /\ recycledBuffers' = Tail(recycledBuffers)
              /\ changesByIdx' = Head(recycledBuffers)
           \/ UNCHANGED <<recycledBuffers, changesByIdx>>
    BY <1>5 DEF TakeBuffer, GetRecycledChangeFormsBuffer
  <2>2. recycledBuffers # <<>> => /\ Head(recycledBuffers) \in Range(recycledBuffers)
                                  /\ Range(Tail(recycledBuffers)) \subseteq Range(recycledBuffers)
    <3>1. recycledBuffers \in Seq(Buffer)
      BY DEF TypeOK, PipelineTypeOK
    <3> QED BY <3>1, RangeTail
  <2> QED BY <2>1, <2>2
<1>6. CASE Saver /\ SaverPublishCallbacks
  <2> DEFINE cleared == [n \in 1..Len(okTasks) |-> Recycled(okTasks[n].forms)]
  <2>1. /\ UNCHANGED <<worldPc, changesByIdx, changesByIdxEmpty>>
        /\ recycledBuffers' = recycledBuffers \o cleared
    BY <1>6 DEF Saver, SaverPublishCallbacks, bufferVars
  <2>2. \A n \in 1..Len(okTasks) : Recycled(okTasks[n].forms) = EmptyBuffer
    BY TaskTypes, BufferTypes
  <2>3. cleared \in Seq(Buffer) /\ \A b \in Range(cleared) : b = EmptyBuffer
    <3>1. Len(okTasks) \in Nat
      BY SeqTypes
    <3> QED BY <2>2, <3>1, BufferTypes DEF Range
  <2>4. Range(recycledBuffers') = Range(recycledBuffers) \cup Range(cleared)
    <3>1. recycledBuffers \in Seq(Buffer)
      BY DEF TypeOK, PipelineTypeOK
    <3> HIDE DEF cleared
    <3> QED BY <2>1, <2>3, <3>1, RangeConcat
  <2> QED BY <2>1, <2>3, <2>4
<1>7. CASE Saver /\ ~SaverPublishCallbacks
  BY <1>7 DEF Saver, Pipeline, SaverTakeUpserts, SaverStoreRecord, SaverUpsertSucceeds,
              SaverUpsertFails, SaverPublishExceptions, bufferVars, shareVars
<1>8. CASE Restart
  BY <1>8, RangeEmpty DEF Restart, PipelineRestart
<1>9. CASE UNCHANGED vars
  BY <1>9 DEF vars, pipelineVars, shareVars, bufferVars
<1> QED BY <1>1, <1>2, <1>3, <1>4, <1>5, <1>6, <1>7, <1>8, <1>9 DEF Next, TickSaveStorage

LEMMA NextContents ==
  ASSUME TypeOK, TypeOK', BatchPlaces, BuffersClean, Contents, [Next]_vars
  PROVE  Contents'
<1>1. CASE Handler
  BY <1>1, CreateFormContents, EditFormContents, EditSilentlyContents, DestroyFormContents
     DEF Handler
<1>2. CASE BatchFailed
  BY <1>2, BatchFailedContents
<1>3. CASE BatchSaved
  BY <1>3, BatchSavedContents
<1>4. CASE SubmitBatch
  BY <1>4, SubmitContents
<1>5. CASE Saver /\ (SaverStoreRecord \/ SaverUpsertSucceeds \/ SaverUpsertFails)
  BY <1>5, StoreContents, SucceedContents, FailContents
<1>6. CASE Restart
  BY <1>6, RestartContents
<1>7. CASE StartTick \/ TickReturns \/ NothingToSubmit \/ UNCHANGED vars \/ HandsOver
  <2>1. SameBatches
    BY <1>7, MovesNothingLemma, HandsOverLemma DEF MovesNothing
  <2>2. UNCHANGED <<idx, ver, refrByIdx, freed, destroyed, changesByIdx, changesByIdxEmpty,
                    requested, cutRequested, cutVer>>
    BY <1>7 DEF StartTick, TickReturns, NothingToSubmit, HandsOver, TakeCallbacks, Saver, vars,
                formVars, bufferVars, cutVars
  <2> QED BY <2>1, <2>2, SameWorldLemma DEF SameWorld
<1>8. CASE TakeBuffer
  <2>1. SameBatches
    BY <1>8, MovesNothingLemma DEF MovesNothing
  <2>2. UNCHANGED <<idx, ver, refrByIdx, freed, destroyed, changesByIdxEmpty,
                    requested, cutRequested, cutVer>>
    BY <1>8 DEF TakeBuffer, formVars, cutVars
  <2>3. changesByIdx' = changesByIdx
    <3>1. changesByIdx = EmptyBuffer
      BY <1>8 DEF TakeBuffer, BuffersClean, NoHiddenChange
    <3>2. recycledBuffers # <<>> => Head(recycledBuffers) = EmptyBuffer
      <4>1. recycledBuffers \in Seq(Buffer)
        BY DEF TypeOK, PipelineTypeOK
      <4> QED BY <4>1, RangeTail DEF BuffersClean
    <3> QED BY <1>8, <3>1, <3>2 DEF TakeBuffer, GetRecycledChangeFormsBuffer
  <2> QED BY <2>1, <2>2, <2>3, SameWorldLemma DEF SameWorld
<1> QED
  BY <1>1, <1>2, <1>3, <1>4, <1>5, <1>6, <1>7, <1>8
     DEF Next, TickSaveStorage, Saver, Pipeline, HandsOver

LEMMA InitInv == Init => Inv
<1> SUFFICES ASSUME Init PROVE Inv
  OBVIOUS
<1>1. TypeOK
  BY InitTypeOK
<1>2. /\ upsertTasks = <<>> /\ exceptions = <<>> /\ upsertCallbacksToFire = <<>>
      /\ recycledBuffers = <<>> /\ tasks = <<>> /\ cursor = 0 /\ okTasks = <<>>
      /\ failedTasks = <<>> /\ prepared = <<>>
      /\ saverPc = "takeUpserts" /\ saveStorageBusy = FALSE /\ worldPc = "idle"
  BY DEF Init, PipelineInit
<1>3. BatchPlaces
  BY <1>2, RangeEmpty DEF BatchPlaces, SingleFlight
<1>4. BuffersClean
  BY <1>2, RangeEmpty DEF Init, BuffersClean, NoHiddenChange
<1>5. Outstanding = {} /\ Acknowledged = {} /\ InFlight = {}
  BY <1>2, RangeEmpty DEF Outstanding, Acknowledged, InFlight
<1>6. /\ \A f \in FormId : /\ ~Alive(f) /\ db[f] = 0 /\ ver[f] = 0 /\ requested[f] = 0
                           /\ cutVer[f] = 0 /\ cutRequested[f] = Corrupt
      /\ \A i \in Idx : freed[i] = NoChange /\ changesByIdx[i] = NoChange
  BY DEF Init, Alive, Absent, EmptyBuffer
<1>7. IndexesOwned /\ EntriesPlaced /\ VersionsOrdered /\ CutCovered
  BY <1>5, <1>6 DEF IndexesOwned, EntriesPlaced, Placed, VersionsOrdered, Kept, CutCovered
<1>8. PrefixWritten /\ NothingLost /\ SnapshotOnAck
  BY <1>2, <1>5, <1>6 DEF PrefixWritten, NothingLost, SnapshotOnAck
<1> QED BY <1>1, <1>3, <1>4, <1>7, <1>8 DEF Inv

LEMMA NextInv == Inv /\ [Next]_vars => Inv'
<1> SUFFICES ASSUME Inv, [Next]_vars PROVE Inv'
  OBVIOUS
<1>1. TypeOK /\ BatchPlaces /\ BuffersClean /\ Contents
  BY DEF Inv, Contents
<1>2. TypeOK'
  BY <1>1, NextTypeOK
<1>3. BatchPlaces'
  BY <1>1, NextBatchPlaces
<1>4. BuffersClean'
  BY <1>1, NextBuffersClean
<1>5. Contents'
  BY <1>1, <1>2, NextContents
<1> QED BY <1>2, <1>3, <1>4, <1>5 DEF Inv, Contents

\* The inductive invariant holds in every reachable state.
THEOREM InvHolds == Spec => []Inv
BY InitInv, NextInv, PTL DEF Spec

\* No requested save of a form that was not destroyed is forgotten.
THEOREM NothingLostHolds == Spec => []NothingLost
<1>1. Inv => NothingLost
  BY DEF Inv
<1> QED BY <1>1, InvHolds, PTL

\* The flag that says the buffer is empty never hides a change.
THEOREM NoHiddenChangeHolds == Spec => []NoHiddenChange
<1>1. Inv => NoHiddenChange
  BY DEF Inv, BuffersClean
<1> QED BY <1>1, InvHolds, PTL

\* An acknowledged batch leaves one moment of the world in the database.
THEOREM SnapshotOnAckHolds == Spec => []SnapshotOnAck
<1>1. Inv => SnapshotOnAck
  BY DEF Inv
<1> QED BY <1>1, InvHolds, PTL

\* The record that the saver writes next is not older than the file it replaces,
\* unless the form was destroyed.
LEMMA StoreRaises ==
  ASSUME TypeOK, BatchPlaces, VersionsOrdered, SaverStoreRecord, Saver
  PROVE  \A f \in FormId \ destroyed : db'[f] >= db[f]
<1> DEFINE t == Head(tasks)
<1>1. t \in Outstanding
  BY StoreMoves
<1>2. PICK i \in Idx : /\ NextRecord(i)
                       /\ StoreRecord(t.forms[i].form, t.forms[i].ver)
  BY DEF SaverStoreRecord
<1> DEFINE e == t.forms[i]
<1>3. /\ e # NoChange /\ e.form \in FormId /\ e.ver \in Nat
      /\ db'[e.form] = e.ver
      /\ \A f \in FormId \ {e.form} : db'[f] = db[f]
  BY <1>1, <1>2, ContentTypes DEF NextRecord, StoreRecord, TypeOK, PipelineTypeOK, DbTypeOK
<1>4. e.form \notin destroyed => db[e.form] <= e.ver
  BY <1>1, <1>3 DEF VersionsOrdered
<1> QED BY <1>3, <1>4, ContentTypes

\* No other step writes a good file.
LEMMA OthersWriteNothing ==
  ASSUME Next, ~(Saver /\ SaverStoreRecord), NEW f \in FormId, TypeOK
  PROVE  db'[f] = db[f] \/ db'[f] = Corrupt
<1>1. CASE Handler
  BY <1>1 DEF Handler, CreateForm, EditForm, EditSilently, DestroyForm, pipelineVars
<1>2. CASE TickSaveStorage
  BY <1>2 DEF TickSaveStorage, BatchFailed, StartTick, TakeCallbacks, BatchSaved, TickReturns,
              NothingToSubmit, SubmitBatch, TakeBuffer, TickRethrow, TickNoException,
              TickTakeUpsertCallbacks, TickFireUpsertCallback, TickUpsertCallbacksDone,
              pipelineVars
<1>3. CASE Saver /\ SaverUpsertFails
  <2>1. db \in [FormId -> Stored]
    BY DEF TypeOK, PipelineTypeOK, DbTypeOK
  <2> QED BY <1>3, <2>1 DEF SaverUpsertFails, RejectRecord, TruncateRecord
<1>4. CASE Saver /\ ~SaverUpsertFails
  BY <1>4 DEF Saver, Pipeline, SaverTakeUpserts, SaverUpsertSucceeds, SaverPublishCallbacks,
              SaverPublishExceptions
<1>5. CASE Restart
  BY <1>5 DEF Restart, PipelineRestart
<1> QED BY <1>1, <1>2, <1>3, <1>4, <1>5 DEF Next

\* The file of a form that was not destroyed never goes back to older content.
THEOREM FilesGrowHolds == Spec => FilesGrow
<1>1. Inv /\ [Next]_vars =>
        [\A f \in FormId \ destroyed' : db'[f] # Corrupt => db'[f] >= db[f]]_vars
  <2> SUFFICES ASSUME Inv, Next, NEW f \in FormId, f \notin destroyed', db'[f] # Corrupt
               PROVE  db'[f] >= db[f]
    OBVIOUS
  <2>1. TypeOK /\ BatchPlaces /\ VersionsOrdered /\ db[f] \in Int
    BY ContentTypes DEF Inv
  <2>2. CASE Saver /\ SaverStoreRecord
    <3>1. destroyed' = destroyed
      BY <2>2 DEF Saver, formVars
    <3> QED BY <2>1, <2>2, <3>1, StoreRaises
  <2>3. CASE ~(Saver /\ SaverStoreRecord)
    <3>1. db'[f] = db[f]
      BY <2>1, <2>3, OthersWriteNothing
    <3> QED BY <2>1, <3>1
  <2> QED BY <2>2, <2>3
<1> QED BY <1>1, InvHolds, PTL DEF FilesGrow, Spec
=============================================================================
