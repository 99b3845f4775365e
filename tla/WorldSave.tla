----------------------------- MODULE WorldSave -----------------------------
(***************************************************************************)
(* How the world is saved: WorldState's buffer of changed forms, indexed   *)
(* by form index, composed with the upsert pipeline and the file database. *)
(* The main thread runs handlers (create, edit, destroy a form) and        *)
(* TickSaveStorage; the saver thread runs concurrently; the process may    *)
(* die at any time and is then started on what the database holds.         *)
(*                                                                         *)
(* The content of a form is the number of edits it has had.  Form ids are  *)
(* the 0xff... ids of GenerateFormId, numbered from 1.                     *)
(***************************************************************************)
EXTENDS UpsertPipeline, Functions

CONSTANTS
  MaxVer,       \* bound on the edits of a form
  NoForm        \* a null pointer in refrByIdxUnreliable

ASSUME WorldAssumption ==
  /\ MaxVer \in Nat
  /\ Callback = {"clearBusy"}
  /\ NoForm \notin FormId

InvalidIdx == -1

VARIABLES
  worldPc,            \* where the main thread is inside TickSaveStorage
  nextId,             \* Impl::nextId
  idx,                \* form -> its index; InvalidIdx when it is not in "forms"
  ver,                \* form -> content in memory (the last one, once destroyed)
  refrByIdx,          \* refrByIdxUnreliable: index -> form it was last given to
  freed,              \* index -> what the object of a dangling pointer held
  changesByIdx,
  changesByIdxEmpty,
  saveStorageBusy,
  requested,          \* history: form -> content at its last RequestSave
  destroyed,          \* history: forms destroyed since the process started
  cutRequested,       \* history: "requested" of live forms at the last Upsert
  cutVer              \* history: "ver" at the last Upsert

formVars == <<nextId, idx, ver, refrByIdx, freed, destroyed>>
bufferVars == <<changesByIdx, changesByIdxEmpty, requested>>
cutVars == <<cutRequested, cutVer>>
vars == <<pipelineVars, worldPc, formVars, bufferVars, saveStorageBusy, cutVars>>

Alive(form) == idx[form] # InvalidIdx

\* Every variable holds a value of its type.
TypeOK ==
  /\ PipelineTypeOK
  /\ exceptions \in Seq([kind : {"upsert"}, task : Task])
  /\ worldPc \in {"idle", "tick", "submit", "recycle"}
  /\ nextId \in Nat \ {0}
  /\ idx \in [FormId -> Idx \cup {InvalidIdx}]
  /\ ver \in [FormId -> Nat]
  /\ refrByIdx \in [Idx -> FormId \cup {NoForm}]
  /\ freed \in Buffer
  /\ changesByIdx \in Buffer
  /\ changesByIdxEmpty \in BOOLEAN
  /\ saveStorageBusy \in BOOLEAN
  /\ requested \in [FormId -> Nat]
  /\ destroyed \subseteq FormId
  /\ cutRequested \in [FormId -> Stored]
  /\ cutVer \in [FormId -> Nat]

-----------------------------------------------------------------------------
(* Start of the process: AttachSaveStorage loads what the database holds.  *)

\* The files that parse are loaded in directory order, except the ones that
\* are skipped (deleted forms, dropped items, unknown base forms).  Loading
\* gives each form the next index and requests no save.
Loaded(forms, index) ==
  /\ \A f \in FormId : index[f] # InvalidIdx <=> f \in forms
  /\ \A f, g \in forms : f # g => index[f] # index[g]
  /\ \A f \in forms : \A i \in Idx : i < index[f] => \E g \in forms : index[g] = i

\* AddForm records the object of each index.
Pointers(forms, index) ==
  [i \in Idx |-> IF \E f \in forms : index[f] = i
                THEN CHOOSE f \in forms : index[f] = i ELSE NoForm]

Init ==
  /\ db = [f \in FormId |-> Absent]
  /\ PipelineInit
  /\ saverPc = "takeUpserts"
  /\ worldPc = "idle"
  /\ nextId = 1
  /\ idx = [f \in FormId |-> InvalidIdx]
  /\ ver = [f \in FormId |-> 0]
  /\ refrByIdx = [i \in Idx |-> NoForm]
  /\ freed = EmptyBuffer
  /\ changesByIdx = EmptyBuffer
  /\ changesByIdxEmpty = TRUE
  /\ saveStorageBusy = FALSE
  /\ requested = [f \in FormId |-> 0]
  /\ destroyed = {}
  /\ cutRequested = [f \in FormId |-> Corrupt]
  /\ cutVer = [f \in FormId |-> 0]

\* The process dies between any two steps of either thread, and is started
\* again: only the database survives.
Restart ==
  /\ PipelineRestart
  /\ worldPc' = "idle"
  /\ nextId' = 1
  /\ \E forms \in SUBSET Readable, index \in [FormId -> Idx \cup {InvalidIdx}] :
       /\ Loaded(forms, index)
       /\ idx' = index
       /\ ver' = [f \in FormId |-> IF f \in forms THEN db[f] ELSE ver[f]]
       /\ refrByIdx' = Pointers(forms, index)
       /\ requested' = [f \in FormId |-> IF f \in forms THEN db[f] ELSE requested[f]]
  /\ freed' = EmptyBuffer
  /\ changesByIdx' = EmptyBuffer
  /\ changesByIdxEmpty' = TRUE
  /\ saveStorageBusy' = FALSE
  /\ destroyed' = {}
  /\ cutRequested' = [f \in FormId |-> Corrupt]
  /\ cutVer' = [f \in FormId |-> ver'[f]]

-----------------------------------------------------------------------------
(* Handlers, on the main thread between two ticks.                         *)

Handling == worldPc = "idle"

Content(form) == [form |-> form, ver |-> ver[form]]

\* RequestSave of the form at index i, with the content it has after the step.
RequestSave(form, i) ==
  /\ changesByIdx' = [changesByIdx EXCEPT ![i] = [form |-> form, ver |-> ver'[form]]]
  /\ changesByIdxEmpty' = FALSE
  /\ requested' = [requested EXCEPT ![form] = ver'[form]]

\* EditChangeForm's function; versions are bounded by MaxVer.
Edit(form) ==
  /\ ver[form] < MaxVer
  /\ ver' = [ver EXCEPT ![form] = @ + 1]

GenerateFormId(form) ==
  /\ nextId <= form
  /\ ~Alive(form)
  /\ \A g \in FormId : nextId <= g /\ g < form => Alive(g)
  /\ nextId' = form + 1

\* MakeID hands out the smallest unused index.
CreateID(i) ==
  /\ \A f \in FormId : idx[f] # i
  /\ \A j \in Idx : j < i => \E f \in FormId : idx[f] = j

\* CreateActor without an id, and AddForm: the index is assigned before Init
\* requests the first save.
CreateForm(form, i) ==
  /\ Handling
  /\ GenerateFormId(form)
  /\ CreateID(i)
  /\ idx' = [idx EXCEPT ![form] = i]
  /\ refrByIdx' = [refrByIdx EXCEPT ![i] = form]
  /\ freed' = [freed EXCEPT ![i] = NoChange]
  /\ Edit(form)
  /\ RequestSave(form, i)
  /\ UNCHANGED <<pipelineVars, worldPc, saveStorageBusy, destroyed, cutVars>>

\* EditChangeForm with Mode::RequestSave.
EditForm(form) ==
  /\ Handling
  /\ Alive(form)
  /\ Edit(form)
  /\ RequestSave(form, idx[form])
  /\ UNCHANGED <<pipelineVars, worldPc, nextId, idx, refrByIdx, freed, destroyed,
                 saveStorageBusy, cutVars>>

\* Movement updates edit with Mode::NoRequestSave most of the time.
EditSilently(form) ==
  /\ Handling
  /\ Alive(form)
  /\ Edit(form)
  /\ UNCHANGED <<pipelineVars, worldPc, nextId, idx, refrByIdx, freed, destroyed,
                 bufferVars, saveStorageBusy, cutVars>>

\* BeforeDestroy moves the form far away, which requests a last save; then the
\* index is released and the object freed.  refrByIdxUnreliable keeps the pointer.
DestroyForm(form) ==
  /\ Handling
  /\ Alive(form)
  /\ Edit(form)
  /\ RequestSave(form, idx[form])
  /\ freed' = [freed EXCEPT ![idx[form]] = [form |-> form, ver |-> ver'[form]]]
  /\ idx' = [idx EXCEPT ![form] = InvalidIdx]
  /\ destroyed' = destroyed \cup {form}
  /\ UNCHANGED <<pipelineVars, worldPc, nextId, refrByIdx, saveStorageBusy, cutVars>>

-----------------------------------------------------------------------------
(* TickSaveStorage.                                                        *)

\* LookupFormByIdx of an index whose entry failed: the object it finds, if any,
\* that still has the form id of the entry.  The pointer may dangle: reading
\* the freed object gives what it held, or an index that does not match.
Resaved(failed, stillReadable) ==
  {i \in Idx : /\ failed[i] # NoChange
               /\ refrByIdx[i] = failed[i].form
               /\ freed[i] = NoChange \/ i \in stillReadable}

\* Mutant: the failed entry itself is queued again.
FoundStale(i) == Head(exceptions).task.forms[i]

Found(i) == IF freed[i] = NoChange THEN Content(refrByIdx[i]) ELSE freed[i]

\* Mutant: the flag of the failed batch stays set.
BatchFailedStayingBusy ==
  /\ worldPc = "idle"
  /\ TickRethrow
  /\ \E stillReadable \in SUBSET {i \in Idx : freed[i] # NoChange} :
       LET again == Resaved(Head(exceptions).task.forms, stillReadable)
       IN /\ changesByIdx' =
               [i \in Idx |-> IF i \in again THEN Found(i) ELSE changesByIdx[i]]
          /\ changesByIdxEmpty' = (changesByIdxEmpty /\ again = {})
          /\ requested' =
               [f \in FormId |-> IF idx[f] \in again THEN ver[f] ELSE requested[f]]
  /\ worldPc' = "submit"
  /\ UNCHANGED <<formVars, saveStorageBusy, cutVars>>

\* Tick rethrows UpsertFailedException: the forms of the batch are saved again
\* with the content they have now.
BatchFailed ==
  /\ worldPc = "idle"
  /\ TickRethrow
  /\ saveStorageBusy' = FALSE
  /\ \E stillReadable \in SUBSET {i \in Idx : freed[i] # NoChange} :
       LET again == Resaved(Head(exceptions).task.forms, stillReadable)
       IN /\ changesByIdx' =
               [i \in Idx |-> IF i \in again THEN Found(i) ELSE changesByIdx[i]]
          /\ changesByIdxEmpty' = (changesByIdxEmpty /\ again = {})
          /\ requested' =
               [f \in FormId |-> IF idx[f] \in again THEN ver[f] ELSE requested[f]]
  /\ worldPc' = "submit"
  /\ UNCHANGED <<formVars, cutVars>>

StartTick ==
  /\ worldPc = "idle"
  /\ TickNoException
  /\ worldPc' = "tick"
  /\ UNCHANGED <<formVars, bufferVars, saveStorageBusy, cutVars>>

TakeCallbacks ==
  /\ worldPc = "tick"
  /\ TickTakeUpsertCallbacks
  /\ UNCHANGED <<worldPc, formVars, bufferVars, saveStorageBusy, cutVars>>

\* The only callback WorldState passes clears saveStorageBusy.
BatchSaved ==
  /\ worldPc = "tick"
  /\ TickFireUpsertCallback
  /\ saveStorageBusy' = FALSE
  /\ UNCHANGED <<worldPc, formVars, bufferVars, cutVars>>

TickReturns ==
  /\ worldPc = "tick"
  /\ TickUpsertCallbacksDone("outside")
  /\ worldPc' = "submit"
  /\ UNCHANGED <<formVars, bufferVars, saveStorageBusy, cutVars>>

NothingToSubmit ==
  /\ worldPc = "submit"
  /\ saveStorageBusy \/ changesByIdxEmpty
  /\ worldPc' = "idle"
  /\ UNCHANGED <<pipelineVars, formVars, bufferVars, saveStorageBusy, cutVars>>

\* The buffer is moved into the request, then cleared.
SubmitBatch ==
  /\ worldPc = "submit"
  /\ ~saveStorageBusy
  /\ ~changesByIdxEmpty
  /\ saveStorageBusy' = TRUE
  /\ Upsert(changesByIdx, "clearBusy")
  /\ changesByIdxEmpty' = TRUE
  /\ changesByIdx' = EmptyBuffer
  /\ worldPc' = "recycle"
  /\ cutRequested' =
       [f \in FormId |-> IF Alive(f) /\ f \notin destroyed THEN requested[f] ELSE Corrupt]
  /\ cutVer' = ver
  /\ UNCHANGED <<db, exceptions, upsertCallbacksToFire, recycledBuffers, saverVars,
                 tickVars, formVars, requested>>

\* A recycled buffer, if there is one, replaces the cleared one.
TakeBuffer ==
  /\ worldPc = "recycle"
  /\ \/ /\ GetRecycledChangeFormsBuffer
        /\ changesByIdx' = Head(recycledBuffers)
     \/ /\ recycledBuffers = <<>>
        /\ UNCHANGED <<recycledBuffers, changesByIdx>>
  /\ worldPc' = "idle"
  /\ UNCHANGED <<db, upsertTasks, exceptions, upsertCallbacksToFire, saverVars, tickVars,
                 formVars, changesByIdxEmpty, requested, saveStorageBusy, cutVars>>

-----------------------------------------------------------------------------
Handler ==
  \/ \E form \in FormId, i \in Idx : CreateForm(form, i)
  \/ \E form \in FormId : EditForm(form) \/ EditSilently(form) \/ DestroyForm(form)

TickSaveStorage ==
  \/ BatchFailed \/ StartTick \/ TakeCallbacks \/ BatchSaved \/ TickReturns
  \/ NothingToSubmit \/ SubmitBatch \/ TakeBuffer

Pipeline ==
  \/ SaverTakeUpserts \/ SaverStoreRecord \/ SaverUpsertSucceeds \/ SaverUpsertFails
  \/ SaverPublishCallbacks \/ SaverPublishExceptions("takeUpserts")

Saver ==
  /\ Pipeline
  /\ UNCHANGED <<worldPc, formVars, bufferVars, saveStorageBusy, cutVars>>

Next == Handler \/ TickSaveStorage \/ Saver \/ Restart

Spec == Init /\ [][Next]_vars

SaverWrites(form) ==
  /\ SaverStoreRecord
  /\ \E i \in Idx : NextRecord(i) /\ Head(tasks).forms[i].form = form
  /\ UNCHANGED <<worldPc, formVars, bufferVars, saveStorageBusy, cutVars>>

\* The server calls Tick forever, the saver thread loops forever, and the disk
\* does not reject the writes of a form forever.
FairSpec ==
  /\ Spec
  /\ WF_vars(TickSaveStorage)
  /\ WF_vars(Saver)
  /\ \A form \in FormId : SF_vars(SaverWrites(form))

-----------------------------------------------------------------------------
(* Properties.                                                             *)

\* The batches that are neither stored nor given up, and the ones that were
\* stored and wait for their callback.
Outstanding ==
  Range(upsertTasks) \cup Range(tasks) \cup Range(failedTasks)
  \cup {e.task : e \in Range(exceptions)}

Acknowledged == Range(okTasks) \cup Range(upsertCallbacksToFire) \cup Range(prepared)

\* The buffer holds form f at its index, as new as its last RequestSave.
Covers(buffer, f) ==
  /\ buffer[idx[f]] # NoChange
  /\ buffer[idx[f]].form = f
  /\ buffer[idx[f]].ver >= requested[f]

Owed(f) ==
  \/ db[f] >= requested[f]
  \/ ~changesByIdxEmpty /\ Covers(changesByIdx, f)
  \/ \E t \in Outstanding : Covers(t.forms, f)

\* No save that was requested is forgotten: until the database has it, a form
\* that was not destroyed since the start is in the buffer that is going to be
\* submitted or in a batch that will be stored or saved again - whatever the
\* saver thread does meanwhile, also after failures (RequestSave, TickSaveStorage).
NothingLost == \A f \in FormId : Alive(f) /\ f \notin destroyed => Owed(f)

\* The same of every live form, also of one whose id was used before by a form
\* that was destroyed: MpObjectReference.cpp:1326 queues every created form for
\* saving.
CreatedFormsAreSaved == \A f \in FormId : Alive(f) => Owed(f)

\* At most one batch is between Upsert and its callback or exception, and
\* saveStorageBusy says whether there is one: the saver never holds two
\* batches whose order could matter, and saving never stops because the flag
\* stays set (TickSaveStorage, ProcessUpserts).
SingleFlight ==
  Len(upsertTasks) + Len(tasks) + Len(failedTasks) + Len(exceptions)
    + Len(okTasks) + Len(upsertCallbacksToFire) + Len(prepared)
  = IF saveStorageBusy THEN 1 ELSE 0

\* The flag that spares a scan of the buffer never hides a change, also after
\* the buffer is moved away and replaced by a recycled one.
NoHiddenChange == changesByIdxEmpty => changesByIdx = EmptyBuffer

\* When a batch is acknowledged, the database holds for every form a content
\* between the last one requested and the current one at the moment the batch
\* was submitted: a restart from there resumes one moment of the world.
SnapshotOnAck ==
  Acknowledged # {} =>
    \A f \in FormId \ destroyed : db[f] \in cutRequested[f]..cutVer[f]

\* The file of a form that was not destroyed never goes back to older content,
\* also when batches fail and are saved again, and across restarts.
FilesGrow ==
  [][\A f \in FormId \ destroyed' : db'[f] # Corrupt => db'[f] >= db[f]]_vars

\* A requested save is stored in the end, unless the form is destroyed or the
\* process dies and the request with it (TickSaveStorage, SaverThreadMain).
EventuallySaved ==
  \A f \in FormId, v \in 1..MaxVer :
    (Alive(f) /\ f \notin destroyed /\ requested[f] = v)
      ~> (db[f] >= v \/ ~Alive(f) \/ f \in destroyed \/ requested[f] < v)

-----------------------------------------------------------------------------
(* The inductive invariant behind NothingLost and SnapshotOnAck.           *)

Kept(form) == Alive(form) /\ form \notin destroyed

\* One batch at a time, and where the saver can hold one.
BatchPlaces ==
  /\ SingleFlight
  /\ saverPc \in {"takeUpserts", "upserting", "publishExceptions"}
  /\ saverPc # "upserting" => tasks = <<>>
  /\ tasks = <<>> => cursor = 0

\* The buffer the main thread gets back is clean when it replaces its own.
BuffersClean ==
  /\ NoHiddenChange
  /\ \A b \in Range(recycledBuffers) : b = EmptyBuffer
  /\ worldPc = "recycle" => changesByIdxEmpty

\* An index belongs to one live form, whose object its pointer refers to.
IndexesOwned ==
  /\ \A f, g \in FormId : Alive(f) /\ idx[f] = idx[g] => f = g
  /\ \A f \in FormId : Alive(f) => refrByIdx[idx[f]] = f /\ freed[idx[f]] = NoChange
  /\ \A i \in Idx : freed[i] # NoChange =>
        freed[i].form \in destroyed /\ freed[i].ver <= ver[freed[i].form]

\* An entry for a form that was not destroyed stands at the index of that form,
\* and no entry is ahead of memory.
Placed(buffer) ==
  \A i \in Idx : buffer[i] # NoChange =>
    /\ buffer[i].form \in destroyed \/ idx[buffer[i].form] = i
    /\ buffer[i].ver <= ver[buffer[i].form]

EntriesPlaced == Placed(changesByIdx) /\ \A t \in Outstanding : Placed(t.forms)

\* Versions only grow along the way from memory to the database.
VersionsOrdered ==
  /\ \A f \in FormId : /\ db[f] <= cutVer[f] /\ cutVer[f] <= ver[f]
                       /\ requested[f] <= ver[f]
                       /\ Kept(f) => db[f] <= requested[f]
  /\ \A i \in Idx : changesByIdx[i] # NoChange /\ changesByIdx[i].form \notin destroyed
       => changesByIdx[i].ver = requested[changesByIdx[i].form]
  /\ \A t \in Outstanding : \A i \in Idx : t.forms[i] # NoChange =>
       LET e == t.forms[i]
       IN /\ e.ver <= cutVer[e.form]
          /\ e.form \notin destroyed => db[e.form] <= e.ver /\ e.ver <= requested[e.form]

\* What the saver has passed in the current batch is in the database.
PrefixWritten ==
  tasks # <<>> => \A i \in Idx :
    LET e == Head(tasks).forms[i]
    IN i < cursor /\ e # NoChange /\ e.form \notin destroyed => db[e.form] >= e.ver

\* The batches that may still be stored.
InFlight == Range(upsertTasks) \cup Range(tasks)

\* A batch that may still be stored makes up for what was requested at the cut.
CutCovered ==
  /\ \A f \in FormId \ destroyed : cutRequested[f] # Corrupt => Alive(f)
  /\ \A t \in InFlight : \A f \in FormId \ destroyed :
       \/ db[f] >= cutRequested[f]
       \/ /\ t.forms[idx[f]] # NoChange
          /\ t.forms[idx[f]].form = f
          /\ t.forms[idx[f]].ver >= cutRequested[f]

\* The conjunction is inductive: it holds initially and every step of the two
\* threads, of the handlers and of a restart preserves it.
Inv ==
  /\ TypeOK
  /\ BatchPlaces
  /\ BuffersClean
  /\ IndexesOwned
  /\ EntriesPlaced
  /\ VersionsOrdered
  /\ PrefixWritten
  /\ CutCovered
  /\ NothingLost
  /\ SnapshotOnAck
=============================================================================
