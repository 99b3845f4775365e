-------------------------- MODULE AsyncSaveStorage --------------------------
(***************************************************************************)
(* Viet::AsyncSaveStorage with a client that requests upserts and iterates *)
(* at any time and calls Tick.  Requests are numbered: the n-th upsert     *)
(* carries callback n and saves version n of the forms it contains, so the *)
(* contents of the database tell which requests have reached it.           *)
(***************************************************************************)
EXTENDS UpsertPipeline

CONSTANTS
  MaxUpserts,     \* bound on the number of upserts the client requests
  MaxIterates     \* bound on the number of iterates the client requests

ASSUME ClientAssumption ==
  /\ MaxUpserts \in Nat
  /\ MaxIterates \in Nat
  /\ Callback = 1..MaxUpserts
  /\ NumIdx = NumForms

VARIABLES
  iterateTasks,            \* share6: requested, not yet taken by the saver
  iterateCallbacksToFire,  \* share5: results the main thread has not seen
  iterating,               \* saver: iterate tasks taken
  iterateOk,               \* saver: results not yet published
  iterateFailed,           \* saver: exceptions not yet published
  preparedIterates,        \* tickStore: results not yet marked as fired
  numFinishedUpserts,
  numFinishedIterates,
  destroyed,               \* the flag the destructor sets
  requested,               \* upserts the client has requested
  requestedIterates,       \* iterates the client has requested
  fired,                   \* history: upsert callbacks called, in order
  thrown,                  \* history: callbacks that threw out of Tick
  raised,                  \* history: upserts whose failure Tick rethrew
  acked,                   \* history: form -> newest version a fired callback covers
  iterated                 \* history: iterate results given to the client

iterateVars == <<iterateTasks, iterateCallbacksToFire, iterating, iterateOk,
                 iterateFailed, preparedIterates>>
counters == <<numFinishedUpserts, numFinishedIterates>>
clientVars == <<requested, requestedIterates>>
history == <<fired, thrown, raised, acked, iterated>>
vars == <<pipelineVars, iterateVars, counters, destroyed, clientVars, history>>

IterateFailed(t) == [kind |-> "iterate", task |-> t]

IterateTask == [id : 1..MaxIterates, floor : [FormId -> Nat]]
IterateResult == [task : IterateTask, view : [FormId -> Stored]]

\* Every variable holds a value of its type.
TypeOK ==
  /\ PipelineTypeOK
  /\ exceptions \in Seq([kind : {"upsert"}, task : Task]
                        \cup [kind : {"iterate"}, task : IterateTask])
  /\ iterateTasks \in Seq(IterateTask)
  /\ iterateCallbacksToFire \in Seq(IterateResult)
  /\ iterating \in Seq(IterateTask)
  /\ iterateOk \in Seq(IterateResult)
  /\ iterateFailed \in Seq(IterateTask)
  /\ preparedIterates \in Seq(IterateResult)
  /\ numFinishedUpserts \in Nat
  /\ numFinishedIterates \in Nat
  /\ destroyed \in BOOLEAN
  /\ requested \in 0..MaxUpserts
  /\ requestedIterates \in 0..MaxIterates
  /\ fired \in Seq(Callback)
  /\ thrown \subseteq Callback
  /\ raised \in Seq(Callback)
  /\ acked \in [FormId -> Nat]
  /\ iterated \in Seq(IterateResult)

Init ==
  /\ db = [form \in FormId |-> Absent]
  /\ PipelineInit
  /\ saverPc = "iterating"        \* the thread starts at the test of its loop
  /\ iterateTasks = <<>>
  /\ iterateCallbacksToFire = <<>>
  /\ iterating = <<>>
  /\ iterateOk = <<>>
  /\ iterateFailed = <<>>
  /\ preparedIterates = <<>>
  /\ numFinishedUpserts = 0
  /\ numFinishedIterates = 0
  /\ destroyed = FALSE
  /\ requested = 0
  /\ requestedIterates = 0
  /\ fired = <<>>
  /\ thrown = {}
  /\ raised = <<>>
  /\ acked = [form \in FormId |-> 0]
  /\ iterated = <<>>

-----------------------------------------------------------------------------
(* The client, on the main thread, outside Tick.                           *)

OutsideTick == tickPc = "outside" /\ ~destroyed

\* The buffer of a request: version n of every form of S, each at an index of
\* its own.
BufferOf(S, n) ==
  [i \in Idx |-> IF i + 1 \in S THEN [form |-> i + 1, ver |-> n] ELSE NoChange]

RequestUpsert ==
  /\ OutsideTick
  /\ requested < MaxUpserts
  /\ requested' = requested + 1
  /\ \E S \in SUBSET FormId \ {{}} :
       Upsert(BufferOf(S, requested + 1), requested + 1)
  /\ UNCHANGED <<db, exceptions, upsertCallbacksToFire, recycledBuffers, saverVars,
                 tickVars, iterateVars, counters, destroyed, requestedIterates,
                 history>>

RequestIterate ==
  /\ OutsideTick
  /\ requestedIterates < MaxIterates
  /\ requestedIterates' = requestedIterates + 1
  /\ iterateTasks' =
       Append(iterateTasks, [id |-> requestedIterates + 1, floor |-> acked])
  /\ UNCHANGED <<pipelineVars, iterateCallbacksToFire, iterating, iterateOk,
                 iterateFailed, preparedIterates, counters, destroyed, requested,
                 history>>

TakeRecycledBuffer ==
  /\ OutsideTick
  /\ GetRecycledChangeFormsBuffer
  /\ UNCHANGED <<db, upsertTasks, exceptions, upsertCallbacksToFire, saverVars,
                 tickVars, iterateVars, counters, destroyed, clientVars, history>>

\* The destructor sets the flag and joins the saver thread: nothing of the main
\* thread runs until the thread has stopped, or afterwards.
Destroy ==
  /\ OutsideTick
  /\ destroyed' = TRUE
  /\ UNCHANGED <<pipelineVars, iterateVars, counters, clientVars, history>>

-----------------------------------------------------------------------------
(* The main thread: Tick.                                                  *)

Rethrow ==
  /\ ~destroyed
  /\ TickRethrow
  /\ raised' = IF Head(exceptions).kind = "upsert"
               THEN Append(raised, Head(exceptions).task.callback)
               ELSE raised
  /\ UNCHANGED <<iterateVars, counters, destroyed, clientVars, fired, thrown, acked,
                 iterated>>

StartTick ==
  /\ ~destroyed
  /\ TickNoException
  /\ UNCHANGED <<iterateVars, counters, destroyed, clientVars, history>>

TakeUpsertCallbacks ==
  /\ TickTakeUpsertCallbacks
  /\ UNCHANGED <<iterateVars, counters, destroyed, clientVars, history>>

\* Forms the task contains move to its version.
AckedBy(t) ==
  [form \in FormId |->
     IF \E i \in Idx : t.forms[i] # NoChange /\ t.forms[i].form = form
     THEN t.callback ELSE acked[form]]

CallUpsertCallback ==
  /\ TickFireUpsertCallback
  /\ numFinishedUpserts' = numFinishedUpserts + 1
  /\ fired' = Append(fired, Head(prepared).callback)
  /\ acked' = AckedBy(Head(prepared))
  /\ UNCHANGED <<iterateVars, numFinishedIterates, destroyed, clientVars, thrown,
                 raised, iterated>>

UpsertCallbackThrows ==
  /\ TickUpsertCallbackThrows
  /\ fired' = Append(fired, Head(prepared).callback)
  /\ acked' = AckedBy(Head(prepared))
  /\ thrown' = thrown \cup {Head(prepared).callback}
  /\ UNCHANGED <<iterateVars, counters, destroyed, clientVars, raised, iterated>>

UpsertCallbacksDone ==
  /\ TickUpsertCallbacksDone("takeIterates")
  /\ UNCHANGED <<iterateVars, counters, destroyed, clientVars, history>>

TakeIterateCallbacks ==
  /\ tickPc = "takeIterates"
  /\ preparedIterates' = preparedIterates \o iterateCallbacksToFire
  /\ iterateCallbacksToFire' = <<>>
  /\ tickPc' = "fireIterates"
  /\ UNCHANGED <<db, shareVars, saverVars, prepared, iterateTasks, iterating,
                 iterateOk, iterateFailed, counters, destroyed, clientVars, history>>

\* Iterate callbacks are marked before the call and may throw as well.
CallIterateCallback ==
  /\ tickPc = "fireIterates"
  /\ preparedIterates # <<>>
  /\ preparedIterates' = Tail(preparedIterates)
  /\ iterated' = Append(iterated, Head(preparedIterates))
  /\ \/ /\ numFinishedIterates' = numFinishedIterates + 1
        /\ UNCHANGED tickPc
     \/ /\ tickPc' = "outside"
        /\ UNCHANGED numFinishedIterates
  /\ UNCHANGED <<db, shareVars, saverVars, prepared, iterateTasks,
                 iterateCallbacksToFire, iterating, iterateOk, iterateFailed,
                 numFinishedUpserts, destroyed, clientVars, fired, thrown, raised,
                 acked>>

TickReturns ==
  /\ tickPc = "fireIterates"
  /\ preparedIterates = <<>>
  /\ tickPc' = "outside"
  /\ UNCHANGED <<db, shareVars, saverVars, prepared, iterateVars, counters,
                 destroyed, clientVars, history>>

MainStep ==
  \/ RequestUpsert \/ RequestIterate \/ TakeRecycledBuffer \/ Destroy
  \/ Rethrow \/ StartTick \/ TakeUpsertCallbacks \/ CallUpsertCallback
  \/ UpsertCallbackThrows \/ UpsertCallbacksDone \/ TakeIterateCallbacks
  \/ CallIterateCallback \/ TickReturns

-----------------------------------------------------------------------------
(* The saver thread.                                                       *)

SaverUpserts ==
  /\ \/ SaverTakeUpserts \/ SaverStoreRecord \/ SaverUpsertSucceeds
     \/ SaverUpsertFails \/ SaverPublishCallbacks
     \/ SaverPublishExceptions("takeIterates")
  /\ UNCHANGED <<iterateVars, counters, destroyed, clientVars, history>>

SaverTakeIterates ==
  /\ saverPc = "takeIterates"
  /\ iterating' = iterateTasks
  /\ iterateTasks' = <<>>
  /\ saverPc' = "iterating"
  /\ UNCHANGED <<db, shareVars, tasks, cursor, okTasks, failedTasks, tickVars,
                 iterateCallbacksToFire, iterateOk, iterateFailed, preparedIterates,
                 counters, destroyed, clientVars, history>>

\* The database is read, or throws, for one task; no upsert runs meanwhile.
SaverIterate ==
  /\ saverPc = "iterating"
  /\ iterating # <<>>
  /\ iterating' = Tail(iterating)
  /\ \/ /\ iterateOk' = Append(iterateOk, [task |-> Head(iterating), view |-> db])
        /\ UNCHANGED iterateFailed
     \/ /\ iterateFailed' = Append(iterateFailed, Head(iterating))
        /\ UNCHANGED iterateOk
  /\ UNCHANGED <<pipelineVars, iterateTasks, iterateCallbacksToFire,
                 preparedIterates, counters, destroyed, clientVars, history>>

\* Two critical sections follow, share5 and then share2.
SaverPublishIterates ==
  /\ saverPc = "iterating"
  /\ iterating = <<>>
  /\ iterateOk # <<>>
  /\ iterateCallbacksToFire' = iterateCallbacksToFire \o iterateOk
  /\ iterateOk' = <<>>
  /\ UNCHANGED <<pipelineVars, iterateTasks, iterating, iterateFailed,
                 preparedIterates, counters, destroyed, clientVars, history>>

\* The end of a loop iteration, where the destroyed flag is looked at.
SaverLoops ==
  /\ saverPc = "iterating"
  /\ iterating = <<>>
  /\ iterateOk = <<>>
  /\ exceptions' =
       exceptions \o [n \in 1..Len(iterateFailed) |-> IterateFailed(iterateFailed[n])]
  /\ iterateFailed' = <<>>
  /\ saverPc' = IF destroyed THEN "stopped" ELSE "takeUpserts"
  /\ UNCHANGED <<db, upsertTasks, upsertCallbacksToFire, recycledBuffers, tasks,
                 cursor, okTasks, failedTasks, tickVars, iterateTasks,
                 iterateCallbacksToFire, iterating, iterateOk, preparedIterates,
                 counters, destroyed, clientVars, history>>

SaverStep ==
  SaverUpserts \/ SaverTakeIterates \/ SaverIterate \/ SaverPublishIterates \/ SaverLoops

Next == MainStep \/ SaverStep

Spec == Init /\ [][Next]_vars

TickStep ==
  \/ Rethrow \/ StartTick \/ TakeUpsertCallbacks \/ CallUpsertCallback
  \/ UpsertCallbackThrows \/ UpsertCallbacksDone \/ TakeIterateCallbacks
  \/ CallIterateCallback \/ TickReturns

\* The saver thread loops, and the server calls Tick in every turn of its loop.
FairSpec == Spec /\ WF_vars(TickStep) /\ WF_vars(SaverStep)

-----------------------------------------------------------------------------
(* Properties.                                                             *)

Failures(s) == [n \in 1..Len(s) |-> UpsertFailed(s[n])]

\* The requests that wait to be written, and the outcomes that wait for Tick,
\* whichever hand-offs of the two threads they have passed.
Pending == tasks \o upsertTasks
Acks == prepared \o upsertCallbacksToFire \o okTasks
Errors == exceptions \o Failures(failedTasks)

CallbacksOf(s) == [n \in 1..Len(s) |-> s[n].callback]

\* The request an error is about; 0 for that of an iterate.
FailedUpsert(e) == IF e.kind = "upsert" THEN e.task.callback ELSE 0
FailuresOf(s) == [n \in 1..Len(s) |-> FailedUpsert(s[n])]

Places ==
  [pending |-> CallbacksOf(Pending), acks |-> CallbacksOf(Acks), fired |-> fired,
   errors |-> FailuresOf(Errors), raised |-> raised]

PlacesOf(n) ==
  UNION {{p} \X {k \in DOMAIN Places[p] : Places[p][k] = n} : p \in DOMAIN Places}

\* An upsert is never lost or duplicated on its way through the hand-offs of
\* the two threads: each requested one is in exactly one place, and ends as
\* one fired callback or one rethrown failure (Upsert, ProcessUpserts, Tick).
EveryRequestInOnePlace ==
  \A n \in 1..MaxUpserts :
    /\ PlacesOf(n) # {} <=> n <= requested
    /\ \A p, q \in PlacesOf(n) : p = q

Increasing(s) == \A m, n \in DOMAIN s : m < n => s[m] < s[n]

\* Callbacks are called, and failures rethrown, in the order of the requests,
\* although several tasks are processed per loop of the saver and Tick may be
\* interrupted by an exception (ProcessUpserts, TickCallbacks).
OutcomesInRequestOrder == Increasing(fired) /\ Increasing(raised)

Members(s) == {s[n] : n \in DOMAIN s}

FailedRequests == Members(Places.errors) \cup Members(raised)

\* The file of a form is at least as new as version n of it, or a later upsert
\* failed while it replaced that file.
Covers(form, n) ==
  db[form] >= n \/ (db[form] = Corrupt /\ \E f \in FailedRequests : f > n)

\* What a fired callback vouches for is in the database: the file of a form is
\* at least as new as the newest acknowledged version of it, unless a later
\* upsert failed while it replaced that file (UpsertImpl, ProcessUpserts).
AckedIsStored == \A form \in FormId : Covers(form, acked[form])

SeesFloor(r) ==
  \A form \in FormId : r.view[form] >= r.task.floor[form] \/ r.view[form] = Corrupt

\* An Iterate sees every upsert whose callback had fired when it was
\* requested, although upserts and iterates travel through separate queues
\* with separate locks (Iterate, ProcessIterates).
IterateSeesAcked ==
  \A results \in {iterateOk, iterateCallbacksToFire, preparedIterates, iterated} :
    \A n \in DOMAIN results : SeesFloor(results[n])

\* A graceful shutdown never tears a batch: when the saver thread has been
\* joined, each request has an outcome to deliver or is untouched in the queue
\* (~AsyncSaveStorage, SaverThreadMain).
ShutdownTearsNoBatch ==
  saverPc = "stopped" => tasks = <<>> /\ okTasks = <<>> /\ failedTasks = <<>>

\* No request is lost, duplicated or overtaken, what is acknowledged is stored, and a
\* shutdown leaves no batch half done, wherever the two threads are.
Inv ==
  /\ TypeOK /\ EveryRequestInOnePlace /\ OutcomesInRequestOrder
  /\ AckedIsStored /\ ShutdownTearsNoBatch

\* Every upsert ends with its callback or its exception, unless the storage is
\* destroyed first.
EveryRequestSettles ==
  \A n \in 1..MaxUpserts :
    requested >= n ~> (destroyed \/ n \in Members(fired) \cup Members(raised))

\* The storage implements the queue of its interface.
Queue == INSTANCE UpsertQueue WITH pending <- Pending, acks <- Acks, errors <- Errors

\* Whatever the two threads interleave, the client sees one first-in first-out
\* queue: batches reach the database one at a time in request order, an
\* acknowledged one is completely stored when it leaves the queue, and
\* outcomes are delivered in that order (Upsert, ProcessUpserts, Tick).
ImplementsQueue == Queue!Spec
=============================================================================
