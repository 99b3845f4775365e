--------------------------- MODULE UpsertPipeline ---------------------------
(***************************************************************************)
(* The upsert half of Viet::AsyncSaveStorage: a main thread that requests  *)
(* upserts and ticks, and a saver thread that runs them on the database.   *)
(* A step is what one thread does inside one critical section, or the      *)
(* write of one record while the saver holds share.m.  The module defines  *)
(* the steps; AsyncSaveStorage and WorldSave build specifications of them. *)
(***************************************************************************)
EXTENDS FileDatabase, Sequences

CONSTANTS
  NumIdx,      \* length of a change form buffer
  NoChange,    \* std::nullopt in a change form buffer
  Callback     \* callbacks a task can carry

Idx == 0..(NumIdx - 1)
Entry == [form : FormId, ver : Nat]
Buffer == [Idx -> Entry \cup {NoChange}]
Task == [forms : Buffer, callback : Callback]

ASSUME PipelineAssumption == NumIdx \in Nat /\ NoChange \notin Entry

VARIABLES
  upsertTasks,            \* share3: requested, not yet taken by the saver
  exceptions,             \* share2: errors Tick will rethrow
  upsertCallbacksToFire,  \* share4: finished upserts the main thread has not seen
  recycledBuffers,        \* share4: cleared buffers handed back to the main thread
  saverPc,                \* the section of the loop the saver thread is in
  tasks,                  \* saver: tasks taken, the first one being written
  cursor,                 \* saver: indices of that task below it are written
  okTasks,                \* saver: artifacts with a callback, not yet published
  failedTasks,            \* saver: artifacts with an exception, not yet published
  tickPc,                 \* where the main thread is inside Tick
  prepared                \* tickStore: callbacks not yet marked as fired

saverVars == <<saverPc, tasks, cursor, okTasks, failedTasks>>
shareVars == <<upsertTasks, exceptions, upsertCallbacksToFire, recycledBuffers>>
tickVars == <<tickPc, prepared>>
pipelineVars == <<db, shareVars, saverVars, tickVars>>

UpsertFailed(t) == [kind |-> "upsert", task |-> t]

EmptyBuffer == [i \in Idx |-> NoChange]

PipelineTypeOK ==
  /\ DbTypeOK
  /\ upsertTasks \in Seq(Task)
  /\ upsertCallbacksToFire \in Seq(Task)
  /\ recycledBuffers \in Seq(Buffer)
  /\ saverPc \in {"takeUpserts", "upserting", "publishExceptions",
                  "takeIterates", "iterating", "stopped"}
  /\ tasks \in Seq(Task)
  /\ cursor \in 0..NumIdx
  /\ okTasks \in Seq(Task)
  /\ failedTasks \in Seq(Task)
  /\ tickPc \in {"outside", "takeUpserts", "fireUpserts",
                 "takeIterates", "fireIterates"}
  /\ prepared \in Seq(Task)

PipelineInit ==
  /\ upsertTasks = <<>>
  /\ exceptions = <<>>
  /\ upsertCallbacksToFire = <<>>
  /\ recycledBuffers = <<>>
  /\ tasks = <<>>
  /\ cursor = 0
  /\ okTasks = <<>>
  /\ failedTasks = <<>>
  /\ tickPc = "outside"
  /\ prepared = <<>>

\* The process dies and a new one starts: nothing of the pipeline survives.
PipelineRestart ==
  /\ upsertTasks' = <<>>
  /\ exceptions' = <<>>
  /\ upsertCallbacksToFire' = <<>>
  /\ recycledBuffers' = <<>>
  /\ tasks' = <<>>
  /\ cursor' = 0
  /\ okTasks' = <<>>
  /\ failedTasks' = <<>>
  /\ tickPc' = "outside"
  /\ prepared' = <<>>
  /\ saverPc' = "takeUpserts"
  /\ UNCHANGED db

-----------------------------------------------------------------------------
(* The main thread, outside Tick.                                          *)

Upsert(forms, callback) ==
  upsertTasks' = Append(upsertTasks, [forms |-> forms, callback |-> callback])

GetRecycledChangeFormsBuffer ==
  /\ recycledBuffers # <<>>
  /\ recycledBuffers' = Tail(recycledBuffers)

-----------------------------------------------------------------------------
(* The saver thread: ProcessUpserts.                                       *)

\* Mutant: the shared queue is copied, not moved.
SaverTakeUpsertsCopying ==
  /\ saverPc = "takeUpserts"
  /\ tasks' = upsertTasks
  /\ saverPc' = "upserting"
  /\ UNCHANGED <<db, shareVars, cursor, okTasks, failedTasks, tickVars>>

SaverTakeUpserts ==
  /\ saverPc = "takeUpserts"
  /\ tasks' = upsertTasks
  /\ upsertTasks' = <<>>
  /\ saverPc' = "upserting"
  /\ UNCHANGED <<db, exceptions, upsertCallbacksToFire, recycledBuffers,
                 cursor, okTasks, failedTasks, tickVars>>

Upserting == saverPc = "upserting" /\ tasks # <<>>

\* i is the next index of the current task that has a change form.
NextRecord(i) ==
  /\ cursor <= i
  /\ Head(tasks).forms[i] # NoChange
  /\ \A j \in Idx : cursor <= j /\ j < i => Head(tasks).forms[j] = NoChange

SaverStoreRecord ==
  /\ Upserting
  /\ \E i \in Idx :
       /\ NextRecord(i)
       /\ StoreRecord(Head(tasks).forms[i].form, Head(tasks).forms[i].ver)
       /\ cursor' = i + 1
  /\ UNCHANGED <<shareVars, saverPc, tasks, okTasks, failedTasks, tickVars>>

\* Mutant: the loop stops one record early.
AllButLastStored ==
  \A i \in Idx : cursor < i => Head(tasks).forms[i] = NoChange

AllRecordsStored ==
  \A i \in Idx : cursor <= i => Head(tasks).forms[i] = NoChange

SaverUpsertSucceeds ==
  /\ Upserting
  /\ AllRecordsStored
  /\ okTasks' = Append(okTasks, Head(tasks))
  /\ tasks' = Tail(tasks)
  /\ cursor' = 0
  /\ UNCHANGED <<db, shareVars, saverPc, failedTasks, tickVars>>

\* The driver throws UpsertFailedException: before a record, while replacing
\* one, or (bulk writes) after the last one.  Records already stored stay.
SaverUpsertFails ==
  /\ Upserting
  /\ \/ RejectRecord
     \/ \E i \in Idx : NextRecord(i) /\ TruncateRecord(Head(tasks).forms[i].form)
  /\ failedTasks' = Append(failedTasks, Head(tasks))
  /\ tasks' = Tail(tasks)
  /\ cursor' = 0
  /\ UNCHANGED <<shareVars, saverPc, okTasks, tickVars>>

\* IDatabase resets every element of the buffer the driver hands back.
Recycled(forms) == [i \in DOMAIN forms |-> NoChange]

SaverPublishCallbacks ==
  /\ saverPc = "upserting"
  /\ tasks = <<>>
  /\ upsertCallbacksToFire' = upsertCallbacksToFire \o okTasks
  /\ recycledBuffers' =
       recycledBuffers \o [n \in 1..Len(okTasks) |-> Recycled(okTasks[n].forms)]
  /\ okTasks' = <<>>
  /\ saverPc' = "publishExceptions"
  /\ UNCHANGED <<db, upsertTasks, exceptions, tasks, cursor, failedTasks, tickVars>>

SaverPublishExceptions(next) ==
  /\ saverPc = "publishExceptions"
  /\ exceptions' =
       exceptions \o [n \in 1..Len(failedTasks) |-> UpsertFailed(failedTasks[n])]
  /\ failedTasks' = <<>>
  /\ saverPc' = next
  /\ UNCHANGED <<db, upsertTasks, upsertCallbacksToFire, recycledBuffers,
                 tasks, cursor, okTasks, tickVars>>

-----------------------------------------------------------------------------
(* The main thread: Tick and TickUpsertCallbacks.                          *)

\* One pending exception is removed and rethrown; no callback is fired.
TickRethrow ==
  /\ tickPc = "outside"
  /\ exceptions # <<>>
  /\ exceptions' = Tail(exceptions)
  /\ UNCHANGED <<tickPc, upsertTasks, upsertCallbacksToFire, recycledBuffers,
                 prepared, saverVars, db>>

TickNoException ==
  /\ tickPc = "outside"
  /\ exceptions = <<>>
  /\ tickPc' = "takeUpserts"
  /\ UNCHANGED <<db, shareVars, saverVars, prepared>>

\* Mutant: the callbacks an interrupted Tick left are overwritten.
TickTakeUpsertCallbacksDropping ==
  /\ tickPc = "takeUpserts"
  /\ prepared' = upsertCallbacksToFire
  /\ upsertCallbacksToFire' = <<>>
  /\ tickPc' = "fireUpserts"
  /\ UNCHANGED <<db, upsertTasks, exceptions, recycledBuffers, saverVars>>

\* Callbacks marked in an earlier Tick are erased from the store; "prepared"
\* only holds the unmarked ones, so there is nothing to erase.
TickTakeUpsertCallbacks ==
  /\ tickPc = "takeUpserts"
  /\ prepared' = prepared \o upsertCallbacksToFire
  /\ upsertCallbacksToFire' = <<>>
  /\ tickPc' = "fireUpserts"
  /\ UNCHANGED <<db, upsertTasks, exceptions, recycledBuffers, saverVars>>

\* A callback is marked before it is called.
FiringUpsert == tickPc = "fireUpserts" /\ prepared # <<>>

TickFireUpsertCallback ==
  /\ FiringUpsert
  /\ prepared' = Tail(prepared)
  /\ UNCHANGED <<db, shareVars, saverVars, tickPc>>

\* The callback throws: Tick unwinds and the rest waits for the next Tick.
TickUpsertCallbackThrows ==
  /\ FiringUpsert
  /\ prepared' = Tail(prepared)
  /\ tickPc' = "outside"
  /\ UNCHANGED <<db, shareVars, saverVars>>

TickUpsertCallbacksDone(next) ==
  /\ tickPc = "fireUpserts"
  /\ prepared = <<>>
  /\ tickPc' = next
  /\ UNCHANGED <<db, shareVars, saverVars, prepared>>
=============================================================================
