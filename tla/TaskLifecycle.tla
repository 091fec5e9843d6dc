---------------------------- MODULE TaskLifecycle ----------------------------
(***************************************************************************)
(* Download and translation tasks of the backend, from the HTTP call that  *)
(* queues one to the run that completes it: the tasks table with its       *)
(* chapter checkpoints, the fair queue, the one queue worker, the          *)
(* pause/resume/cancel/retry/delete calls, the switch that stops the       *)
(* business service, the maintenance gate, crashes and restarts.           *)
(*                                                                         *)
(* The process has one event loop, and every handler of a task runs        *)
(* between two awaits.  So an action is a piece of code from one await to  *)
(* the next, and the variables marked (db) survive a crash.                *)
(***************************************************************************)
EXTENDS FairQueue

CONSTANTS
  N,               \* tasks are numbered 1..N in the order of their created_at
  Books,
  Chapters,        \* chapter numbers
  BookOf,          \* BookOf[t], OwnerOf[t]: the columns book_id and owner_id
  OwnerOf,
  Kind,            \* Kind[t]: "download" or "translate"
  Selected,        \* Selected[t]: the column chapter_indexes
  Listed,          \* the chapters the manifests list; a download skips the others
  Concurrency,     \* downloadConcurrency of the settings
  MaxQueued,       \* bound: entries in the queue
  MaxCrashes,      \* bound: times the process dies
  MaxMaintenance   \* bound: times the maintenance gate closes

Tasks == 1..N

NoTask == 0

ASSUME TaskAssumption ==
  /\ N \in Nat
  /\ Chapters \subseteq Nat
  /\ BookOf \in [Tasks -> Books]
  /\ OwnerOf \in [Tasks -> Owners]
  /\ Kind \in [Tasks -> {"download", "translate"}]
  /\ Selected \in [Tasks -> SUBSET Chapters]
  /\ Listed \subseteq Chapters
  /\ Concurrency \in Nat \ {0}
  /\ MaxQueued \in Nat
  /\ MaxCrashes \in Nat
  /\ MaxMaintenance \in Nat

VARIABLES
  books,         \* (db) the books that exist
  row,           \* (db) row[t]: the status column, "absent" without a row
  ledger,        \* (db) ledger[t]: the chapters in task_checkpoints
  queue,         \* TASK_QUEUE
  phase,         \* of the process: see Phases
  cursor,        \* the next pending task of the start-up loop
  worker,        \* where _task_worker is suspended: see WorkerStates
  current,       \* the task the worker has taken from the queue
  todo,          \* chapters of the run that have not been started
  active,        \* chapters of the run in progress
  service,       \* BackendServiceController._state
  gate,          \* the maintenance gate: see Gates
  crashes,       \* bounded by MaxCrashes
  closings       \* bounded by MaxMaintenance

db      == <<books, row, ledger>>
run     == <<worker, current, todo, active>>
process == <<phase, cursor, crashes>>
vars    == <<db, queue, process, run, service, gate, closings>>

PendingStops == {"pause_requested", "cancel_requested"}

Stops == PendingStops \cup {"paused", "cancelled"}

Statuses == Stops \cup {"absent", "queued", "running", "completed", "failed"}

\* down; the two loops of _run_startup; serving; workers stopped for a snapshot.
Phases == {"down", "settling", "requeueing", "up", "quiesced"}

\* In the order of a turn of the loop: no worker; queue.get(); the wait for the
\* service, and woken from it; the wait for the gate; a run, whose children
\* may be being cancelled or whose HTTP client may be closing.
WorkerStates == {"none", "idle", "service", "woken", "gate", "run", "draining", "closing"}

Running == {"run", "draining", "closing"}

\* open; closed and waiting for operations to end; held by exclusive(), before
\* and after the workers were stopped for a snapshot.
Gates == {"open", "closed", "exclusive", "snapshot"}

-----------------------------------------------------------------------------
(* The rows of a task *)

\* An update without the CASE that keeps a stop.
SaveOverwriting(t, new) == new

\* save_task: progress of a run never replaces a stop.  The statement is an
\* upsert, so saving a task that was deleted would bring its row back.
SaveTask(t, new) ==
  IF row[t] \in Stops /\ new \in {"running", "completed", "failed"} THEN row[t] ELSE new

\* stop_requested: also true when the task is gone.
StopRequested(t) == row[t] \in Stops \cup {"absent"}

\* _is_task_deleted or _is_book_deleted
Deleted(t) == row[t] = "absent" \/ BookOf[t] \notin books

\* settle_stop
SettleStop(t) ==
  CASE row[t] = "pause_requested"  -> "paused"
    [] row[t] = "cancel_requested" -> "cancelled"
    [] OTHER -> row[t]

SetRow(t, status) == row' = [row EXCEPT ![t] = status]

\* The transitions table of change_task that change something: <<action, from, to>>.
\* A pair the table maps to itself leaves the row alone; any other is a conflict.
Transitions ==
  { <<"pause", "queued", "paused">>, <<"pause", "running", "pause_requested">>,
    <<"resume", "paused", "queued">>,
    <<"cancel", "queued", "cancelled">>, <<"cancel", "paused", "cancelled">>,
    <<"cancel", "running", "cancel_requested">>,
    <<"cancel", "pause_requested", "cancel_requested">>,
    <<"cancel", "failed", "cancelled">> }

Least(S) == CHOOSE c \in S : \A d \in S : c <= d

-----------------------------------------------------------------------------
Init ==
  /\ books = Books
  /\ row = [t \in Tasks |-> "absent"]
  /\ ledger = [t \in Tasks |-> {}]
  /\ queue = EmptyQueue
  /\ phase = "up" /\ cursor = 1 /\ crashes = 0
  /\ worker = "idle" /\ current = NoTask /\ todo = {} /\ active = {}
  /\ service = "running"
  /\ gate = "open" /\ closings = 0

-----------------------------------------------------------------------------
(* HTTP handlers.  A handler that was admitted before the gate closed may   *)
(* still reach its synchronous part; an exclusive section waits for it.     *)

Serving == phase = "up" /\ gate \in {"open", "closed"}

Unqueued == UNCHANGED <<queue, process, run, service, gate, closings>>

Enqueue(t) ==
  /\ queue.count < MaxQueued
  /\ queue' = Put(queue, OwnerOf[t], t)
  /\ UNCHANGED <<process, run, service, gate, closings>>

\* _enqueue_task, from post_download_chapters and post_translate_chapters.
\* Numbers follow created_at: an earlier number is stored or its book is gone.
EnqueueTask(t) ==
  /\ Serving
  /\ row[t] = "absent" /\ BookOf[t] \in books
  /\ \A u \in 1..(t - 1) : row[u] # "absent" \/ BookOf[u] \notin books
  /\ SetRow(t, "queued")
  /\ Enqueue(t)
  /\ UNCHANGED <<books, ledger>>

\* control_task without its last statement: the row is queued and nothing else.
ChangeTaskUnqueued(t, action) ==
  /\ Serving
  /\ \E to \in Statuses : <<action, row[t], to>> \in Transitions /\ SetRow(t, to)
  /\ Unqueued
  /\ UNCHANGED <<books, ledger>>

\* control_task: change_task, then put_nowait if the row became queued.
ChangeTask(t, action) ==
  /\ Serving
  /\ \E to \in Statuses :
       /\ <<action, row[t], to>> \in Transitions
       /\ SetRow(t, to)
       /\ IF to = "queued" THEN Enqueue(t) ELSE Unqueued
  /\ UNCHANGED <<books, ledger>>

\* post_retry_task: the checkpoints of the failed run stay.
RetryTask(t) ==
  /\ Serving
  /\ row[t] = "failed" /\ BookOf[t] \in books
  /\ SetRow(t, SaveTask(t, "queued"))
  /\ Enqueue(t)
  /\ UNCHANGED <<books, ledger>>

\* delete_book_route: one transaction after the cache of the book was cancelled.
DeleteBook(b) ==
  /\ Serving
  /\ b \in books
  /\ books' = books \ {b}
  /\ row' = [t \in Tasks |-> IF BookOf[t] = b THEN "absent" ELSE row[t]]
  /\ ledger' = [t \in Tasks |-> IF BookOf[t] = b THEN {} ELSE ledger[t]]
  /\ Unqueued

-----------------------------------------------------------------------------
(* The worker and the run it carries *)

RunOver ==
  /\ worker' = "idle" /\ current' = NoTask /\ todo' = {} /\ active' = {}

\* The end of run_task after its last checkpoint.  _refresh_book_state is inside
\* the try block: when it raises, the handler below it stores "failed".
FinishRun(t) ==
  /\ RunOver
  /\ IF Deleted(t) THEN UNCHANGED row
     ELSE SetRow(t, SaveTask(t, "completed")) \/ SetRow(t, SaveTask(t, "failed"))

\* except TaskInterrupted
InterruptRun(t) ==
  /\ RunOver
  /\ SetRow(t, SettleStop(t))

\* except Exception, without the question whether a stop was requested.
FailRunUnsettled(t) ==
  /\ RunOver
  /\ IF Deleted(t) THEN UNCHANGED row ELSE SetRow(t, SaveTask(t, "failed"))

\* except Exception
FailRun(t) ==
  /\ RunOver
  /\ CASE Deleted(t)                         -> UNCHANGED row
       [] ~Deleted(t) /\ StopRequested(t)    -> SetRow(t, SettleStop(t))
       [] ~Deleted(t) /\ ~StopRequested(t)   -> SetRow(t, SaveTask(t, "failed"))

\* The remaining chapters without a look at the checkpoints.
AllSelected(t) == Selected[t]

\* What is left of the task when a run begins.
Remaining(t) ==
  LET left == Selected[t] \ ledger[t]
  IN  IF Kind[t] = "download" THEN left \cap Listed ELSE left

\* run_task up to its first await.  Nothing else runs between the status check
\* and the save, so its first checkpoint cannot see a stop.  An error while the
\* run is set up (no manifest, no model configured) fails the task at once.
Begin(t) ==
  \/ /\ row[t] \notin {"queued", "running"} \/ BookOf[t] \notin books
     /\ RunOver
     /\ UNCHANGED row
  \/ /\ row[t] \in {"queued", "running"} /\ BookOf[t] \in books
     /\ \/ /\ Remaining(t) # {}
           /\ SetRow(t, "running")
           /\ worker' = "run" /\ current' = t
           /\ IF Kind[t] = "download"
              THEN todo' = Remaining(t) /\ active' = {}
              ELSE LET first == Least(Remaining(t))
                   IN  todo' = Remaining(t) \ {first} /\ active' = {first}
        \/ Remaining(t) = {} /\ FinishRun(t)
        \/ RunOver /\ SetRow(t, "failed")

\* maintenance_gate.operation() around run_task: past it, or suspended in it.
Enter(t) ==
  IF gate = "open"
  THEN Begin(t)
  ELSE worker' = "gate" /\ current' = t /\ UNCHANGED <<row, todo, active>>

\* _task_worker takes the next task; a service that runs is not waited for.
GetTask ==
  /\ worker = "idle" /\ ~IsEmpty(queue)
  /\ queue' = Get(queue)
  /\ LET t == NextItem(queue)
     IN  IF service = "running"
         THEN Enter(t)
         ELSE worker' = "service" /\ current' = t /\ UNCHANGED <<row, todo, active>>
  /\ UNCHANGED <<books, ledger, process, service, gate, closings>>

\* wait_until_running returns without asking again whether the service runs.
ServiceWake ==
  /\ worker = "woken"
  /\ Enter(current)
  /\ UNCHANGED <<books, ledger, queue, process, service, gate, closings>>

\* operation() asks again whether the gate is closed each time it wakes.
GateWake ==
  /\ worker = "gate" /\ gate = "open"
  /\ Begin(current)
  /\ UNCHANGED <<books, ledger, queue, process, service, gate, closings>>

-----------------------------------------------------------------------------
(* The chapters of a run *)

InRun == UNCHANGED <<books, queue, process, service, gate, closings>>

\* A child of download_selected_chapters gets the semaphore: a stop makes it
\* return without a payload, otherwise it saves its progress and fetches.
StartChapter ==
  /\ worker = "run" /\ Kind[current] = "download"
  /\ todo # {} /\ Cardinality(active) < Concurrency
  /\ LET c == Least(todo)
         stopped == StopRequested(current)
     IN  /\ todo' = todo \ {c}
         /\ active' = IF stopped THEN active ELSE active \cup {c}
         /\ IF stopped THEN UNCHANGED row ELSE SetRow(current, SaveTask(current, "running"))
         /\ worker' = IF todo' \cup active' = {} THEN "closing" ELSE "run"
  /\ UNCHANGED <<current, ledger>>
  /\ InRun

\* Ends the children: cancel_and_drain, or the client of a translation closing.
Drain == worker' = "draining" /\ todo' = {} /\ active' = {} /\ UNCHANGED current

\* complete_chapter, and the progress saved behind it.
KeepChapter(t, c) == ledger' = [ledger EXCEPT ![t] = @ \cup {c}]

\* The progress saved for a chapter whose book is gone brings its row back.
ChapterDownloadedUnchecked(c) ==
  /\ worker = "run" /\ Kind[current] = "download" /\ c \in active
  /\ KeepChapter(current, c)
  /\ SetRow(current, SaveTask(current, "running"))
  /\ active' = active \ {c}
  /\ worker' = IF todo \cup active' = {} THEN "closing" ELSE "run"
  /\ UNCHANGED <<todo, current>>
  /\ InRun

\* The payload of a chapter is merged into the manifest, checkpointed and
\* reported, in one piece; a deleted task makes the report raise.
ChapterDownloaded(c) ==
  /\ worker = "run" /\ Kind[current] = "download" /\ c \in active
  /\ IF Deleted(current)
     THEN Drain /\ UNCHANGED <<row, ledger>>
     ELSE /\ KeepChapter(current, c)
          /\ SetRow(current, SaveTask(current, "running"))
          /\ active' = active \ {c}
          /\ worker' = IF todo \cup active' = {} THEN "closing" ELSE "run"
          /\ UNCHANGED <<todo, current>>
  /\ InRun

\* One turn of the loop of process_translate: the chapter is checkpointed, then
\* a stop ends the run, then the next chapter starts or the run is finished.
ChapterTranslated(c) ==
  /\ worker = "run" /\ Kind[current] = "translate" /\ c \in active
  /\ IF Deleted(current)
     THEN RunOver /\ UNCHANGED <<row, ledger>>
     ELSE /\ KeepChapter(current, c)
          /\ IF StopRequested(current) THEN InterruptRun(current)
             ELSE IF todo = {} THEN FinishRun(current)
             ELSE LET next == Least(todo)
                  IN  /\ todo' = todo \ {next} /\ active' = {next}
                      /\ SetRow(current, SaveTask(current, "running"))
                      /\ UNCHANGED <<worker, current>>
  /\ InRun

\* checkpoint() between two pages of a manga chapter.
PageCheckpoint ==
  /\ worker = "run" /\ Kind[current] = "translate" /\ active # {}
  /\ StopRequested(current)
  /\ InterruptRun(current)
  /\ UNCHANGED ledger
  /\ InRun

\* A site, the model or the disk fails a chapter, or the manifest lost it.
ChapterFailed ==
  /\ worker = "run" /\ active # {}
  /\ Drain
  /\ UNCHANGED <<row, ledger>>
  /\ InRun

\* The exception leaves the children behind and reaches run_task.
Drained ==
  /\ worker = "draining"
  /\ FailRun(current)
  /\ UNCHANGED ledger
  /\ InRun

\* The children are done and the HTTP client is closed: the last checkpoints.
CloseClient ==
  /\ worker = "closing"
  /\ IF StopRequested(current) THEN InterruptRun(current) ELSE FinishRun(current)
  /\ UNCHANGED ledger
  /\ InRun

-----------------------------------------------------------------------------
(* Process start, death, and the snapshot that stops and restarts workers *)

Volatile == queue' = EmptyQueue /\ worker' = "none" /\ current' = NoTask /\ todo' = {} /\ active' = {}

\* The process dies, or is stopped: cancelling the worker stores nothing.
Crash ==
  /\ phase # "down" /\ crashes < MaxCrashes
  /\ crashes' = crashes + 1
  /\ phase' = "down" /\ cursor' = 1
  /\ Volatile
  /\ service' = "running" /\ gate' = "open"
  /\ UNCHANGED <<db, closings>>

Boot ==
  /\ phase = "down"
  /\ phase' = "settling"
  /\ UNCHANGED <<db, queue, cursor, crashes, run, service, gate, closings>>

\* settle_interrupted_controls: each row in a transaction of its own.
SettleInterrupted(t) ==
  /\ phase = "settling" /\ row[t] \in PendingStops
  /\ SetRow(t, SettleStop(t))
  /\ UNCHANGED <<books, ledger, queue, process, run, service, gate, closings>>

ListPending ==
  /\ phase = "settling" /\ \A t \in Tasks : row[t] \notin PendingStops
  /\ phase' = "requeueing" /\ cursor' = 1
  /\ UNCHANGED <<db, queue, crashes, run, service, gate, closings>>

\* Only what was running comes back.
RequeueRunning ==
  /\ phase = "requeueing" /\ cursor \in Tasks
  /\ IF row[cursor] = "running"
     THEN SetRow(cursor, "queued") /\ queue' = Put(queue, OwnerOf[cursor], cursor)
     ELSE UNCHANGED <<row, queue>>
  /\ cursor' = cursor + 1
  /\ UNCHANGED <<books, ledger, phase, crashes, run, service, gate, closings>>

\* The loop over list_pending_tasks, in the order of created_at.
RequeuePending ==
  /\ phase = "requeueing" /\ cursor \in Tasks
  /\ IF row[cursor] \in {"queued", "running"}
     THEN SetRow(cursor, SaveTask(cursor, "queued")) /\ queue' = Put(queue, OwnerOf[cursor], cursor)
     ELSE UNCHANGED <<row, queue>>
  /\ cursor' = cursor + 1
  /\ UNCHANGED <<books, ledger, phase, crashes, run, service, gate, closings>>

StartWorker ==
  /\ phase = "requeueing" /\ cursor \notin Tasks
  /\ phase' = "up" /\ worker' = "idle"
  /\ UNCHANGED <<db, queue, cursor, crashes, current, todo, active, service, gate, closings>>

\* quiesce_backend stops the workers once it holds the gate; the task the worker
\* had taken from the queue and not begun is dropped.
Quiesce ==
  /\ phase = "up" /\ gate = "exclusive"
  /\ phase' = "quiesced" /\ gate' = "snapshot"
  /\ worker' = "none" /\ current' = NoTask /\ todo' = {} /\ active' = {}
  /\ UNCHANGED <<db, queue, cursor, crashes, service, closings>>

\* reload: the queue is replaced and the application starts again.
Reload ==
  /\ phase = "quiesced"
  /\ phase' = "settling"
  /\ Volatile
  /\ UNCHANGED <<db, cursor, crashes, service, gate, closings>>

-----------------------------------------------------------------------------
(* The business service and the maintenance gate *)

ServiceStop ==
  /\ Serving /\ service # "restarting"
  /\ service' = "stopped"
  /\ UNCHANGED <<db, queue, process, run, gate, closings>>

\* The event is set: a worker that waits for it will run, in a later turn.
ServiceUp ==
  /\ service' = "running"
  /\ worker' = IF worker = "service" THEN "woken" ELSE worker
  /\ UNCHANGED <<db, queue, process, current, todo, active, gate, closings>>

ServiceStart == Serving /\ service # "restarting" /\ ServiceUp

\* The action lock is held over the sleep in the middle of a restart.
ServiceRestart ==
  /\ Serving /\ service # "restarting"
  /\ service' = "restarting"
  /\ UNCHANGED <<db, queue, process, run, gate, closings>>

ServiceRestarted == service = "restarting" /\ ServiceUp

CloseGate ==
  /\ phase = "up" /\ gate = "open" /\ closings < MaxMaintenance
  /\ gate' = "closed" /\ closings' = closings + 1
  /\ UNCHANGED <<db, queue, process, run, service>>

\* exclusive() gives up after thirty seconds and opens the gate again.
DrainTimeout ==
  /\ gate = "closed"
  /\ gate' = "open"
  /\ UNCHANGED <<db, queue, process, run, service, closings>>

\* No operation is admitted: no run, and no restart of the service.
GateDrained ==
  /\ gate = "closed" /\ worker \notin Running /\ service # "restarting"
  /\ gate' = "exclusive"
  /\ UNCHANGED <<db, queue, process, run, service, closings>>

OpenGate ==
  /\ gate \in {"exclusive", "snapshot"} /\ phase = "up"
  /\ gate' = "open"
  /\ UNCHANGED <<db, queue, process, run, service, closings>>

-----------------------------------------------------------------------------
Handler ==
  \/ \E t \in Tasks :
       \/ EnqueueTask(t) \/ RetryTask(t)
       \/ \E action \in {"pause", "resume", "cancel"} : ChangeTask(t, action)
  \/ \E b \in Books : DeleteBook(b)
  \/ ServiceStop \/ ServiceStart \/ ServiceRestart
  \/ CloseGate

RunStep ==
  \/ StartChapter \/ PageCheckpoint \/ ChapterFailed \/ Drained \/ CloseClient
  \/ \E c \in Chapters : ChapterDownloaded(c) \/ ChapterTranslated(c)

WorkerStep == GetTask \/ ServiceWake \/ GateWake \/ RunStep

StartUp ==
  \/ Boot \/ ListPending \/ RequeuePending \/ StartWorker \/ Reload
  \/ \E t \in Tasks : SettleInterrupted(t)

Maintenance == DrainTimeout \/ GateDrained \/ Quiesce \/ OpenGate

Next == Handler \/ WorkerStep \/ StartUp \/ Maintenance \/ ServiceRestarted \/ Crash

Spec == Init /\ [][Next]_vars

(***************************************************************************)
(* The event loop runs what is ready: the worker, start-up and a restart   *)
(* of the service go on.  A chapter ends, well or badly, since every       *)
(* request of a run has a timeout; an exclusive section ends.  Users,      *)
(* administrators and crashes owe nothing.                                 *)
(***************************************************************************)
Fairness ==
  /\ WF_vars(WorkerStep)
  /\ WF_vars(StartUp)
  /\ WF_vars(DrainTimeout \/ OpenGate)
  /\ WF_vars(ServiceRestarted)

FairSpec == Spec /\ Fairness

-----------------------------------------------------------------------------
(* Properties *)

TypeOK ==
  /\ books \subseteq Books
  /\ row \in [Tasks -> Statuses]
  /\ ledger \in [Tasks -> SUBSET Chapters]
  /\ queue \in Queues(Tasks)
  /\ phase \in Phases /\ cursor \in 1..(N + 1) /\ crashes \in 0..MaxCrashes
  /\ worker \in WorkerStates /\ current \in Tasks \cup {NoTask}
  /\ todo \subseteq Chapters /\ active \subseteq Chapters
  /\ service \in {"running", "stopped", "restarting"}
  /\ gate \in Gates /\ closings \in 0..MaxMaintenance

(***************************************************************************)
(* A task shown as waiting will be looked at: while the process serves, a  *)
(* queued row has an entry in the queue or is in the worker's hands, after *)
(* any number of pauses, resumes, retries, restarts and snapshots.         *)
(***************************************************************************)
NoLostTask ==
  phase = "up" =>
    \A t \in Tasks : row[t] = "queued" =>
      Queued(queue, t) \/ (current = t /\ worker \in {"service", "woken", "gate"})

(***************************************************************************)
(* A task shown as running, or as being stopped, is the one the worker is  *)
(* running: no stop waits for a run that has already ended, which would    *)
(* leave the task unstoppable and unresumable until the next restart.      *)
(***************************************************************************)
InFlightHasRun ==
  phase = "up" =>
    \A t \in Tasks : row[t] \in PendingStops \cup {"running"} =>
      current = t /\ worker \in Running

(***************************************************************************)
(* Deleting a book is final: progress, failures and settled stops of a run *)
(* that outlives the deletion never bring a row of it back, although       *)
(* save_task is an upsert.                                                 *)
(***************************************************************************)
NoResurrection ==
  \A t \in Tasks : BookOf[t] \notin books => row[t] = "absent" /\ ledger[t] = {}

\* The chapters a run of t leaves checkpointed when it ends well.
Work == [t \in Tasks |-> IF Kind[t] = "download" THEN Selected[t] \cap Listed ELSE Selected[t]]

(***************************************************************************)
(* A chapter with a checkpoint is never fetched or translated again, by a  *)
(* resumed, retried or restarted run (04-backend-and-android.md: a resume  *)
(* keeps the content that was completed).                                  *)
(***************************************************************************)
NoChapterRedone ==
  [][\A c \in active' \ active : c \notin ledger[current']]_vars

(***************************************************************************)
(* The statuses and checkpoints a client sees follow TaskPromise: a        *)
(* requested stop is never overwritten, a cancelled or completed task      *)
(* never runs again, a task completes only with all its chapters.          *)
(***************************************************************************)
Promise == INSTANCE TaskPromise WITH status <- row, done <- ledger

ImplementsTaskPromise == Promise!Spec

\* A stop the user requested takes effect: the run settles it, ends, or the
\* next start of the process settles it.
StopSettles ==
  \A t \in Tasks : row[t] \in PendingStops ~> row[t] \notin PendingStops

\* When administrators leave the service running, a queued task gets its turn,
\* whatever other users queue, pause, resume and retry.
QueuedTaskTaken ==
  <>[](service = "running") => \A t \in Tasks : row[t] = "queued" ~> row[t] # "queued"
=============================================================================
