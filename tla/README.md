# QingJuan backend: TLA+ models and proofs

QingJuan is a reader for novels and comics. Its Flutter and web clients talk to
a Python backend (`src/python-backend/app`), one process with one asyncio event
loop, a SQLite database and a directory per book. What is hard about it is not
the parsing of web sites but what happens between two awaits, two renames or
two requests: tasks that are stopped while they run, readers that push the
background aside, writers that publish one file from what they read earlier,
devices whose requests arrive late and twice, crashes, restarts, snapshots and
updates in the middle of all that. These modules model that part, check it with
TLC and prove its safety with TLAPS.

Paths below are relative to `src/python-backend/app`, except those that begin
with `docs/`, `tests/`, `lib/` (the Flutter client), `deploy/` or `admin-web/`,
which are relative to `src/` (`tests/` to `src/python-backend`).

## 1. Inventory

### The components and how they meet

| component | state it keeps | operations | meets |
|---|---|---|---|
| fair task queue (`fair_task_queue.py`) | a deque per user, the rotation, the last user served, a count | `put_nowait`, `get` | the task worker, every handler that queues |
| task life cycle (`task_control.py`, `task_execution.py`, parts of `main.py`, `scraper.py`, `db.py`) | the `tasks` and `task_checkpoints` tables; the run in progress | enqueue, pause, resume, cancel, retry, delete the book; the worker's turn; the chapters of a run; start-up, orderly stop | queue, service switch, gate, manifests |
| service switch (`process_lifecycle.py`) | running / stopped / restarting, an Event | start, stop, restart, `wait_until_running` | the task worker |
| maintenance gate (`maintenance.py`, `backend_maintenance.py`, `storage_maintenance.py`) | open or closed, running operations | `operation`, `exclusive`, `quiesce_backend` | requests, runs, imports, backups |
| chapter cache (`chapter_cache.py`) | queues and workers per book, one slot, shared downloads, who has priority and for which chapters | `ensure`, `prefetch`, `schedule`, `cancel_book`, `shutdown` | readers, book import, deletion |
| manifests (`manifest_storage.py`, `scraper.py`, `book_updates_merge.py`, `main.py`) | `manifest.json` of each book and its text files | publish a chapter, a translation, new chapters | caching, runs, update checks, clients |
| link imports (`link_jobs.py`, `link_job_repository.py`, `link_import_execution.py`, `book_import_execution.py`) | a row per job with its log and an idempotency key; the scheduled tasks, two slots | create or get, retry, run, defer, recover | gate, import, chapter cache, quota |
| backup and restore (`backup_service.py`, `backup_restore_state.py`, `backup_cleanup.py`) | archives, inspections, the rollback journal | inspect, restore, recover at start-up, clean up | gate, database, library directory |
| reading progress (`reading_progress_repository.py`; `lib/features/reader/reader_progress_*.dart`) | on the server a position, its revision, receipts; on a device an outbox of one operation sent and one waiting | versioned and legacy save, internal correction; capture, restore, drain, keep local, use server | clients, translation runs |
| translation quality (`translation_quality_*.py`) | the text, its revision and history, a journal beside the file, requests | edit, retranslate, recover | runs, manifests |
| backend update (`backend_update.py`, `deploy/linux/update.sh`, `qingjuan-update-runner.sh`, the systemd units) | status and request files, releases, the link `current`, the managed repository, installed files, a rollback directory | check, queue, reconcile; take the request; build, stop, copy, switch, start, verify, undo | administrators, systemd, the database |
| storage quota (`storage_quota.py`, `resource_limits.py`) | limits, reservations, measured use | reserve, write, release | every writer of the library |
| book update schedule (`book_updates*.py`) | due times, leases, unread counts | check, merge | manifests, runs |
| manga publication (`manga_workflow.py`, `manga_publication.py`) | staged pages | render, publish | runs |
| accounts, plug-ins, scrapers, diagnostics, user interfaces | see section 7 | | |

### What is hard, and what must hold

* **Tasks.** Stops arrive while a run writes the row it read when it began; a
  run outlives the deletion of its book; the queue is lost with the process;
  the worker may hold a task when a snapshot takes it away. Must hold: no
  waiting task is lost, no stop is lost or waits for ever, no completed chapter
  is done again, deletion is final.
* **Queue.** Users come and go while one worker serves them in turn. Must hold:
  the four attributes agree, tasks of one user keep their order, nobody is
  passed twice by the same user.
* **Gate and switch.** Two independent ways to hold the worker, each with an
  await that can be overtaken. Must hold: work is admitted only when it may be,
  and nobody waits for somebody who waits for him.
* **Chapter cache.** Overlapping priority sections, shared downloads that are
  cancelled under one of their users, a slot held over three awaits, a book
  that is deleted while its worker and its readers go on. Must hold: the
  counters mean what they say, no chapter is lost or fetched out of order, no
  reader waits for a download that is gone, the background gives way, a
  deletion ends.
* **Manifests.** Several writers replace one file, each from what it read
  before an await. Must hold: nothing published is dropped.
* **Link imports.** The request is repeated, also after a restart; tasks end
  with the process or with maintenance at any await while their rows stay; a
  task waits for the gate with a slot in its hand. Must hold: one job for a
  key, one book for a job, one task for an unfinished job, and no import while
  maintenance has the files.
* **Restores.** Up to six renames and a journal, with a crash between any two
  and steps that fail, those of the commit and of the rollback too. Must hold:
  users find all of the old data or all of the new.
* **Reading progress.** Requests and answers are lost, delayed and repeated,
  two devices read one book, readers are closed at any moment. Must hold: no
  position is written over one its sender has not seen, none is applied twice,
  none the user has not given up is forgotten.
* **Translation edits.** Text in a file, revision and history in SQLite. Must
  hold: an edit takes place as a whole or not at all, also after a crash in a
  recovery, and never replaces a text its client had not seen.
* **Backend update.** Three parties and two files; a script of some twenty
  commands of which any may fail, be killed, or be run again by hand. Must
  hold: what users had is never lost, a release serves no database of a newer
  one, the status tells the truth, the service returns, every job ends.

The hazards are listed one by one, at their line, in `PROJECT.json`.

## 2. Modules

| module | what it is |
|---|---|
| `FairQueue` | the operators `Put`, `Get`, `NextItem` on the queue's record: the code of `_put` and `_get` |
| `OwnerFifo` | abstract: per user, first in first out; `get` takes the head of some user's line |
| `FairTaskQueue` | the queue as a state machine with the history needed to state fairness; refines `OwnerFifo` |
| `TaskPromise` | abstract: what a client may see happen to a task's status and checkpoints |
| `TaskLifecycle` | the task system, with `FairQueue` as its queue, the service switch, the gate, crashes and snapshots; refines `TaskPromise` |
| `TaskTheorems` | the proofs about the four: lemmas on the queue's operators, the queue, the task system |
| `ChapterOrder` | abstract: each book's chapters are attempted in the order asked for, each once |
| `ChapterCache`, `CacheTheorems` | the coordinator, await by await; refines `ChapterOrder`; the proofs |
| `LinkPromise` | abstract: one job for an operation, one book for a job, an outcome that stays |
| `LinkJobs`, `LinkTheorems` | jobs, tasks, slots, gate, crashes and recovery; refines `LinkPromise`; the proofs |
| `ManifestPublication`, `ManifestTheorems` | the writers of one manifest and what they may lose; the proofs |
| `AtomicRestore` | abstract: the data is replaced as a whole by newer data, and what the client is told agrees with what users see |
| `RestoreSwap`, `RestoreTheorems` | the journalled swap of a restore, its rollback, commit and recovery, rename by rename; refines `AtomicRestore`; the proofs |
| `ReadingProgress` | the server's compare-and-set with its receipts, one transaction per action |
| `ProgressSync`, `ProgressTheorems` | composes `ReadingProgress` with the devices and an unreliable network; the proofs |
| `RevisedText` | abstract: text, revision and history of a translation change at once |
| `TranslationJournal`, `TranslationTheorems` | a save with its journal, its failures and the recovery; refines `RevisedText`; the proofs |
| `BackendUpdate`, `UpdateTheorems` | backend, updater, `update.sh` with its exit trap, service and data; the proofs |
| `MC...` | the instances TLC checks |

### How the models correspond to the code

The process has one event loop. An **action is what one asyncio task does
between two awaits**; where a handler has three awaits the model has three
steps and a program counter. Operators and actions carry the names of the
functions they stand for; `PROJECT.json` maps each to its lines. Unless a
module says otherwise, one SQLite statement or transaction is one step and
succeeds. In `RestoreSwap` the code runs in a thread, with the rest of the
process quiesced, and a step is one change of the file system; in
`BackendUpdate` it is one command or one access to a shared file.

**FairQueue / FairTaskQueue.** The record has a field for each attribute of
`FairTaskQueue`: `by` (`_owner_queues`), `owners` (the rotation), `last`
(`_last_owner`) and `count` (`_count`). `asyncio.Queue` calls `_put`, `_get` and
`empty`; the state machine offers `put_nowait` and `get` in any order.
`bypassed` is history: how often each user was served since another has been
waiting.

**TaskLifecycle.** `row` and `ledger` are the tables; `queue` is `TASK_QUEUE`;
`phase` and `cursor` place the process in its start-up (settle interrupted
stops, then queue pending tasks in order, then start the worker); `worker`,
`current`, `todo` and `active` are the worker's await and the run's chapters;
`service` and `gate` are the two switches. `SaveTask` is the upsert of `db.py`
with the `CASE` that keeps a stop. The handlers (`EnqueueTask`, `ChangeTask`,
`RetryTask`, `DeleteBook`, the service calls, `CloseGate`) interleave with
`GetTask`, the wake-ups, the chapter steps and the ends of a run. A run is
modelled chapter by chapter: a download starts up to `Concurrency` chapters and
they end in any order, a translation goes one by one, a manga chapter may be
interrupted between pages. Titles, progress numbers, logs and messages are left
out; each failing await is a nondeterministic alternative.

**ChapterCache.** `worker[b].at` is the await of `_run_book` at which a book's
worker is, `slot` the FIFO of `_background_slot`, `download` the tasks in
`_inflight` (with the moment between `cancel()` and the end of the task as the
state `"cancelling"`), `count`, `protected` and `idle` the three attributes of
the foreground. An Event or a finished task only marks its waiters; they run in
a later step, so the order in which the loop resumes them is left open and the
window between `set()` and the resumption exists. A deletion is three steps,
as in `delete_book_route`: `CancelBook` cancels and counts what it will await
(`gathered`), the cancelled worker leaves its `with` and its `finally`
(`WorkerLeaves`; until then it is in `leaving`, and a second worker may exist
beside it), and `DeleteBook` forgets what began meanwhile and drops the row,
after which a download that still runs stores nothing. `Shutdown` is an orderly
stop, `Restart` a process that died anywhere; both start again with what is
stored.

**LinkJobs.** `jobs` is the table, `runs` the asyncio tasks since the last
start in the order of their creation, `scheduled` the dictionary of
`_schedule_link_job`; a run's `at` is its await: the semaphore, the gate
(`held`, a slot in hand), the preview, the import before it has looked whether
the book is there (`importing`), the awaits of one that found none (`making`),
the moment after the book is saved and the job does not say so (`imported`).
`CheckBook` and `SaveBook` are the two ends of `create_imported_book`: the
second asks nothing, so only the scheduling of tasks keeps what the first saw
true. `phase` is that of the process and its gate,
with maintenance that drains, shuts the tasks down and restarts them inside the
process. `Recovered` is `recover()` and the scheduling at start-up. A done
task's callback is a step of its own, so that a retry may come before it. A
transaction may fail; a job whose task could not even write its failure is
`lost` to the running process (section 5).

**ManifestPublication.** A manifest is a set of facts *(chapter, listed /
fetched / translated)*. Sections that read, merge and replace the file without
an await are one step; what a run read *before* an await is in `run.base`. The
models of caching and runs are the outlines of the two modules above: here they
only have to come and go at any time.

**RestoreSwap.** `root`, `stage` and `saved[n]` are the directories (the data
directory, the unpacked archive, the rollback directory of the n-th restore):
functions from entry to *generation*, which restore the content came from.
`"wal"` is the pair `-wal`, `-shm`. `journal[n]` is `journal.json`: absent,
created and not yet written, written, committed. `phase` is the program counter
of `restore` with its `install`, `commit` and `rollback`, and of the start of
the process; `current` is the `RestoreSwap` object in use. `Open` is
`_run_startup` seen from the files: it creates what is missing, which is what
makes a start at the wrong moment harmful, and it merges a `-wal` into a database
that is not its own (`Torn`). Every step may fail: those of the swap
(`InstallFails`, `ReloadFails`, `ReturnFails`), the commit, which stands outside
the `try` (`CommitFails`, `CleanFails`), the rollback within a call, which leaves
`quiesce_backend` to reload on what there is (`UndoFails`), and a start
(`StartFails`); a recovery may meet a second library to set aside, which the code
refuses (`UndoBlocked`, by `aside[n]`). The process may die before any step;
recovery is itself a sequence of such steps. `before` and `spoiled` are history:
what users were served when the restore began, and that a rollback has failed
within a call or a restore has begun beside an open journal. A crash is the end of
the process, not a loss of power: what was renamed stays renamed. The removal of
a rollback directory is one step, because after the rollback or the commit it
holds nothing that is needed, and a journal that outlives a part of it is undone
or removed to the same effect.

**ReadingProgress / ProgressSync.** The row is the last entry of `log` and its
revision the length of `log`; `receipts` holds request and revision of the
newest operations. `mem[d]` is the state of a writer (`_remote`,
`_baseRevision`, the operation sent, the position waiting, the conflict),
`disk[d]` its newest snapshot, `pc[d]` the await of `_restore` and `_drain`,
`wire[d]` every request the device has ever sent: the server may receive any of
them again at any time, which is loss, delay and duplication at once. An answer
may never come (`GiveUp`). Saves, conflicts and the two choices of the
user (keep the local position, use the server's) interleave with all of this,
and so do a client that knows no revisions and the server's own corrections.
`seen` and `kept` are history.

**TranslationJournal.** `text`, `source` and `journal` are files, `row` and
`history` tables, `pc` the point of the save under way (`read`, `journaled`,
`written`, `committed`) or of the process; each call of the file system or of
SQLite may fail and the process may die after each. A client edits what it
loaded (`view`), perhaps long ago. `RecoverOrFail` is the recovery at start-up
and before each save. Digests stand for their texts.

**BackendUpdate.** `status` and `request` are the two shared files; `api` is
the backend's call (`get`, `check`, `queue`) between its accesses to them,
`runner` the updater, `script` the command `update.sh` is at, with its local
flags; `saved` is its rollback directory and `kept` those of runs that broke
off. `db` counts the writes of users and carries the schema of the newest
release that opened it; `torn` says that the file and its log do not belong
together. `Undo` is `rollback_update` command by command. Mishaps are a command
that fails, the death of the updater or the machine, an end of the service, and
a run by hand. Upstream grows at any time, and a release may be unhealthy.

## 3. Runs

| run | instance | what it shows |
|---|---|---|
| `fair_queue` | 3 users, 2 items, 5 entries; 53 000 states | the attributes agree, a waiting user is passed at most once by each other one; refinement of `OwnerFifo` |
| `task_lifecycle` | 2 users with a book and a task of 2 chapters each (a download with both chapters at once, a translation), 3 queue entries, 1 crash, 1 closing of the gate; 742 000 states | `NoLostTask`, `InFlightHasRun`, `NoResurrection`, `NoChapterRedone`, refinement of `TaskPromise` |
| `task_liveness` | the same with one chapter at a time; 553 000 states | every stop settles; a queued task gets its turn once the service stays up |
| `chapter_cache` | a novel of 2 chapters the server caches whole, a comic of 1 that may be deleted, 2 readers, 1 restart, stop or deletion, readers symmetric; 1 452 000 states | the counters, the slot, the queues, the shared downloads and deletions; refinement of `ChapterOrder` |
| `cache_liveness` | the same with 1 reader, and the novel may be deleted; 204 000 states | every chapter asked for is attempted, every reader answered, every deletion ends |
| `link_jobs` | 1 key and requests without, 1 slot, 2 jobs, 1 retry, 2 stops, 1 failing transaction; 488 000 states | no unfinished job without a task, one task each, none in maintenance, one book per job although looking and saving are two steps, every job settles; refinement of `LinkPromise` |
| `manifest` | a book imported with 2 chapters, a third may be found; 82 000 states | a manga's manifest loses nothing; no manifest loses a chapter or a translation |
| `novel_manifest` | the same | **violated**, see section 5 |
| `progress_sync` | 2 devices, 2 positions, 3 operations, 1 write by others, 1 restart, 1 fault, 1 receipt; 1 750 000 states | nothing written blindly, applied twice or forgotten; a late receipt lowers nothing |
| `restore_swap` | 2 restores, 3 failing steps, 2 crashes; 164 000 states | wherever it is interrupted, also by a failing commit, the old data is recoverable and users see no mixture; refinement of `AtomicRestore`; all three until a rollback fails within a call (`spoiled`); a dead process serves again, or refuses |
| `translation_journal` | an editor and a task, 3 texts, 2 originals, a history of 2, 3 edits, 1 text from outside, 1 new original, 2 crashes, 2 faults; 2 500 000 states | no recovery refuses, no two entries share a number, no edit is blind; refinement of `RevisedText` |
| `backend_update` | 1 update, 2 new revisions of which the first is unhealthy, 2 mishaps, 1 write; 718 000 states | data kept and fit for the code that serves it, reports true, no half-built release, the service returns, the job ends |

**Why the bounds are enough.** The task table is only touched by the task a
step is about, the worker runs one task, and `FairQueue` decides the order, so
two tasks of two users already meet in every way two tasks can meet; two
chapters give a first, a last and two at once. Three queue entries let a task
be in the queue twice (paused and resumed) beside another. One crash may fall
anywhere, also in a start-up (a snapshot's reload is a second one), and one
closing of the gate meets every state of the worker. In the cache, two readers
are needed to share or to push aside, two workers to compete for the slot, two
chapters to have an order and a read-ahead; the deletion in `chapter_cache` is
of the book that readers ask for, that in `cache_liveness` of the book whose
worker holds one chapter and has another in line. Larger instances were run by
hand and hold as well: the novel deletable with two readers (3.1 million
states), both books deletable (4.0 million), two upsets with one reader. With
one slot and two jobs a link job waits for the other, and two stops let a crash
follow a maintenance. One receipt makes the second operation drop the first;
two devices and three operations make a conflict, its resolution and a late
repetition. Two faults and two crashes of a save reach a recovery that fails or
dies and is recovered from; a history of two is full after one external change
and an edit. Two revisions are an update to the first and one that finds
another upstream; two mishaps are a failing command and a failure in its
undoing, or a death and a run by hand after it. A second restore meets what the
first left behind; a crash in the recovery from a crash needs two; a restore
that fails, rolls back and cannot reload twice is three failing steps, and so is
one that fails, whose rollback fails, and whose reload fails. With two slots the
link jobs hold as well (717 000 states): two tasks of one job, were there any,
would then look for its book at once. The
theorems lift every safety property and every refinement to all values of the
constants; only liveness rests on these bounds. Two mishaps turned out to be too
few in one place: the clause of `BackAtOld` on the service was once stronger
than what holds, which needs four of them to show (section 5, 9e). The corrected
properties and the inductive invariant were checked on a part of that larger
instance too (four mishaps, two updates; 21 million states).

All bounds are constants named `Max...` (or `Deletable`, the books a user may
delete) and stand in guards of the environment only: how often users queue,
save or write, crashes happen, commands fail, the gate closes, restores begin.
`MaxHistory` and `MaxReceipts` are not bounds but limits of the code, smaller
here.

**Deadlock** is checked in the runs of the queue, the tasks, the manifests and
the restores. The others turn it off, because their systems rightly come to
rest once the bounded environment has done all it may: with every chapter
stored and every request made, every job done, every position saved, the edits
and crashes used up, the one update over. That nothing *waits* there is what
their liveness properties say, and for the journal `NeverStuck`.

**Fairness.** Liveness assumes weak fairness only of what the event loop and
time-outs guarantee: a ready worker, start-up step or woken waiter runs; a
chapter's download or translation and a link job's preview or import end (every
request has a time-out), so that a task holding a slot gives it back; the
`exclusive()` section of the gate ends or times out after thirty seconds
(`maintenance.py`); the sleep of a service restart ends; a restore's thread
goes on from rename to rename; a service manager starts a process that ended;
the deletion of a book goes on when what it gathered has ended. The updater goes
from command to command, each of them with a time-out, and the path unit starts
it when a request exists; a call of the backend ends; and while an update is
active the admin page keeps asking
(`admin-web/src/components/BackendUpgradePage.tsx`), so that a request that
stays unanswered is in the end found overdue, although each single call may
find it in time (`SF(Overdue)`). Users, readers, administrators, maintenance,
operators and crashes owe nothing. `QueuedTaskTaken` is therefore conditional:
an administrator may leave the service stopped for ever. `StartsAgain` allows
the start that refuses, `JobEnds` excuses a killed updater and one that leaves
no service to tell, `Settles` a job that is `lost` or whose process stops
serving: see section 5.

## 4. Proofs

All theorems hold for every value of the constants that satisfies the named
assumptions (`NoOwnerAssumption`, `FairTaskQueueAssumption`, `TaskAssumption`,
`CacheAssumption`, `NoKeyIsNoKey`, `LinkAssumption`, `ManifestAssumption`,
`RestoreAssumption`, `ReceiptsAssumption`, `SyncAssumption`,
`JournalAssumption`, `UpdateAssumption`, `NoneAssumption`), which TLC evaluates
on the instances. They say only that bounds are natural numbers, that sets of
chapters, books and readers are finite or what they should be, that there is a
slot, a receipt and room for two entries of history, and that a null value is
not a member.

* **The queue** (`TaskTheorems`). The lemmas say what `Put` and `Get` do to a
  coherent record; the invariant `QueueInv` adds `PassedStandsBefore` to typing
  and coherence. `BoundedBypass` alone is not
  inductive: that a user has been passed once by another says nothing of the
  next `get`, unless one knows where both stand in the rotation.
  `BypassIsBounded`, `ServedInTurn` (nobody is served twice in a row while
  another waits), `QueueStaysCoherent` and `QueueImplementsFifo` follow.
* **Tasks** (`TaskTheorems`). `LifecycleInv` is typing, queue coherence
  and, besides the three safety properties, what they lean on: the worker holds
  a task exactly in the states that carry one (`WorkerConsistent`), start-up has
  handled the rows before the cursor (`StartUpCovers`), only submitted tasks are
  in the queue (`OnlySubmitted`), a task with a run has a row that says so or
  was deleted (`RunHasRow`), the chapters of a run are those without checkpoint
  (`ChaptersOfRun`). `NoLostTask` is not inductive without them, since the next
  start must be shown to queue every row before the worker runs.
  `TasksAreNotLost`, `StopsHaveARun`, `DeletionIsFinal`, `ChaptersAreNotRedone`
  and the refinement `TasksKeepPromise` follow.
* **The chapter cache** (`CacheTheorems`). The conjuncts of `Coherent` and
  `AwaitedIsLive` are inductive together: the counters need the types of the
  requests, the slot needs to know which books are being deleted, the queues
  need the slot and the workers, the deletions need the downloads. Each
  conjunct has one lemma (`TypesStay`, `CountersStay`, `OneStaysInBackground`,
  `NoneForgotten`, `AwaitedStaysLive`, `DeletionsStay`) with a step per action.
  Under them lie lemmas on data: what `InOrder` lists, what heads, tails,
  concatenation and removal do to sequences without repetition, and that the
  counters, which are cardinalities, follow when one section begins or ends.
  For the refinement, `Schedule` asks, `WorkerWakes` attempts, the end of a
  download stores nothing the line knows of, `CancelBook` drops a line,
  `WorkerLeaves` and `DeleteBook` move lines that are dropped already, a start
  asks anew, and every other step leaves the lines alone
  (`CacheImplementsChapterOrder`). `DownloadsKept` rests on the counters: what
  a reader awaits is protected, so nobody's arrival cancels it.
* **Link jobs** (`LinkTheorems`). `Ind` adds to the properties that a task at
  work has a running row and one that waits a queued row, and that the book a
  task is making is still not there (`Tied`), that no two live tasks have one
  job (`Single`), that `scheduled` names tasks of the right job (`Known`), that slots are
  counted (`InSlots`), that an unfinished job keeps a live task while the
  process can answer (`Kept`), and how often a book was made (`Once`).
  `BooksAreMadeOnce` leans on `Single`: a task saves a book on the strength of a
  look that lies before its awaits, and nobody else could save it since; a task
  that comes later, by a retry, a recovery or maintenance, looks again. One
  lemma per action shows that it keeps `Ind`, another what a client sees of it;
  `LinkKeepsPromise` puts the second kind together.
* **Manifests** (`ManifestTheorems`). `ManifestInv` adds `SnapshotCurrent`: while
  a run exists, what it last read holds every listed chapter and every
  translation of the manifest. It is needed because a novel's run overwrites
  the file with that snapshot, and it is inductive only because a check for new
  chapters asks a second time whether a run writes. `MangaLosesNothing` and
  `DirectoryIsKept` follow.
* **Restores** (`RestoreTheorems`). `Recoverable` says what the journal is for:
  what a rollback would make of the two directories now is what users had. It
  is not inductive alone. `RestoreInv` adds, as long as nothing is spoiled, that
  only the last restore has a journal that means something (`JournalOfLast`),
  that without an open one the data directory is whole (`WholeUnlessOpen`), that
  all new data is in its place from the commit on (`NewInPlace`), how far
  `install` is (`InstallProgress`), what an open journal lets a rollback put back,
  entry by entry (`RecoverableByEntry`), and that what users had is older than
  what is being restored (`Ages`): since an entry of the new generation cannot be
  the old one, an entry in its place proves that the old one was saved, which is
  what lets a start on the new data write there. `RestoreIsAtomic` maps `data`
  to what the next start would find and keeps the answer: `Commit` is `Replace`,
  the end of a committed call `Succeed`, a failing commit `Fail` with users on
  newer data than the next start will find, a start `Serve`; every other step,
  crash and recovery is invisible. `FailuresRollBack` is about the restores that
  fail *before* their commit and whose rollback does not fail too: they leave
  users with what they saw. Both exceptions stand in the statement, because the
  code breaks it there (section 5, 6 and 7).
* **Reading progress** (`ProgressTheorems`). `SyncInv` joins server, network and
  devices. The log is a chain: each entry names the revision before it, and one
  with an identifier was asked for by a device (`Chain`); a receipt is for a
  logged request (`Receipted`); an identifier stands for *one* request, in
  whatever memory, disk or wire it is (`OneRequest`). `AppliedOnce` follows from
  `Chain` and `OneRequest`: two entries under one identifier would be one
  request, and a request names one place in the chain. It does not lean on the
  receipts, so it holds however few the server keeps. For each device,
  `Informed` bounds its revisions, on every copy, by those it was told of, which
  is what makes a request name a state its sender saw (`NoBlindOverwrite`);
  `Awaiting` ties an answer to the request it is about, so that only what the
  server has logged is taken off the disk; `Choosing` and `Settled` say what is
  left when nothing is pending, and with them `Safe` (`NothingForgotten` for a
  device) becomes inductive. Three frame lemmas (`DeviceStep`, `ServerStep`,
  `Bystander`) reduce an action to the device it is about.
* **Translation edits** (`TranslationTheorems`). `Ind` says how far the save is
  (`Progress`), that a journal is beyond the row unless it is committed, with its
  new text in place (`Ahead`), and which entries the history has (`Ledger`); the last
  is what makes the new numbers unique although an external change takes one of
  its own and old entries are dropped. The abstract text is what a recovery
  would leave now; `Commit` is the edit, and the file's write before it, its
  undoing and every crash are invisible.
* **The update** (`UpdateTheorems`). `UpdateInv` says, for each command
  `update.sh` may be at, what it has done and what its exit trap has undone.
  `Calls`, `Runs`, `Known` and `Flags` are about its variables, the request and
  the updater that waits; `Done` lists where link, repository, files and service
  stand unless a step of the undoing failed. From it follow the two reports
  (`ReportsAreTrue`), with `Ended` for the time between the end of a run and its
  report, in which one by hand may begin: nothing goes back behind the revision
  that was installed. `Built` gives `Orderly`. `Owing` gives `UserDataKept`: what
  users had is in a directory that is kept, or in the database, or, while the
  database may be replaced, in this run's rollback directory. `Fits` gives
  `DataFitsCode`: link and schema agree except between those commands of the
  undoing at which the service is down; it holds until a step of the undoing or
  of the cleaning up fails (`spoiled`), after which the service may be left down or on another release.

Model-checked only: liveness under fairness and everything that speaks of
`ENABLED` (`StopSettles`, `QueuedTaskTaken`, `EveryChapterAttempted`,
`ReadersAnswered`, `Settles`, `StartsAgain`, `ServiceReturns`, `JobEnds`). The
prover cannot reach them.

## 5. Findings

Stated as a property of the repository's own documentation and refuted by TLC:

1. **A novel's translation drops what caching recorded** (`novel_manifest`,
   `scraper.py:3194`, `docs/development/04-backend-and-android.md:197`). The
   novel branch saves the manifest read before the model was asked; the other
   two publishing paths reload it.

Observations made while modelling. The models contain the behaviour, and the
properties are stated around it where it is an accepted limit:

2. **A task may begin after the service was stopped** (`process_lifecycle.py:68`).
   The wait for the Event is not repeated after it wakes; start and stop in one
   turn of the loop let it pass.
3. **A reader may be cancelled with a download he did not cancel**
   (`chapter_cache.py:244`). Between `cancel()` and the end of a task it is
   still shared with new readers. He is answered, with an error.
4. **Deletion leaves a trace in the cache.** `cancel_book` leaves the key its
   worker holds in `_queued` (`chapter_cache.py:130`), and a cancelled worker
   that had taken the last chapter drops a queue made meanwhile (line 238); the
   next worker then finds none (line 199). All this concerns a book that is
   going away, which is what `NoChapterForgotten` says.
5. **A crash may leave a journal that no start accepts**
   (`backup_restore_state.py:36`). The journal is created and then written; what
   lies in between stops every later start, although nothing was moved yet.
6. **A restore that fails in its commit is not rolled back**
   (`backup_service.py:509`; `docs/development/04-backend-and-android.md:63` says
   that a failure rolls back and reloads). The commit is outside the `try`: the
   client is told of a failure, users are served the new data, and with the
   journal still open the next start takes it away again. This is `CommitFails`.
   The promise is stated around it: only a client told of a failure may see data
   that is taken back, and what is taken back and what is served are whole.
7. **A rollback that fails half-way is served** (`backup_service.py:504`,
   `backend_maintenance.py:37`). A second error, within the rollback, leaves the
   `except` block, and the `finally` of `quiesce_backend` reloads on a directory
   that is half undone: on a new empty database where the old one was not back
   yet, on the old one beside a `-wal` of the new, or beside the new library. The
   journal stays open, so the next start goes on with the undoing, but now it
   also sets aside what was written meanwhile, and where a library was set aside
   already the rename onto it is refused, at this and every later start
   (`backup_restore_state.py:66`, `UndoBlocked`). A rollback whose last step, the
   removal, fails leaves its journal in the same way. And a restore begun
   after 6, or after this, puts a second open journal beside the first; the
   start undoes them in the order of `glob`, which may put the older data over
   the newer or mix them. From there on `spoiled` excuses the data properties;
   that a start ends, in serving or in a refusal, is still checked.
8. **A link job may be left without a task until the next start.** The calls
   at the start of `run_link_job` are outside its `try`
   (`link_import_execution.py:42`): when SQLite fails there, the row stays
   queued or running and a retry is answered that it already runs. This is
   `lost`.
9. **Update.** (a) `update.sh:775` removes the rollback directory before
   `update_succeeded` is set: a removal that fails half-way starts a rollback
   with what is left. (b) The backend's check for overdue requests reads and
   writes the status in two steps (`backend_update.py:321`) and may overwrite
   an "updating" of the updater by "failed"; a second job can then be queued. (c)
   After a killed updater or a reboot the status stays active until the script
   is run by hand. (d) A death while a release is built leaves a directory
   later updates refuse. (e) "Rolled back" may be told of a service that is down
   or on another release: an earlier undoing that failed half-way leaves the
   link and the repository apart, or a file missing; the next update fails and
   is undone to what it found, the old release still answers the check of its
   health, and then the service ends, before the report is written. What starts
   is what the link points to, if it starts. `BackAtOld` allows for this.

## 6. Plan

Done: the queue, tasks, the cache with deletion and shutdown, manifests, link
jobs, restores, reading progress, translation edits, the update, each with its
theorems. What would add most next:

1. The book update schedule: its leases, and the periodic check that overwrites
   the result of a manual one (`book_updates.py`, the row read before the
   awaits).
2. The gate with its roots and nested operations; the reservations of the quota.
3. `ManifestPublication` together with the deletion of a book.

## 7. Not modelled

The models cover the parts that keep state across awaits, requests, processes
or crashes. Most lines of the repository do something else: nine tenths of the
tree is parsing of web sites, conversion of formats, route handlers that read
and answer, schema text and user interfaces. Their results enter the models as
outcomes, and a state machine for them would have no interleaving to check. This
is why the share of mapped lines stays small.

* Scrapers, parsers, archive formats, image processing, exports, diagnostics:
  pure conversion or I/O, represented by an outcome.
* Accounts, second factor, registration, sessions, device registry: identity
  and cryptography, a different subject.
* Plug-ins, discovery, the user interfaces: they drive the operations modelled
  here from outside, and the models let an arbitrary environment do that.
* Storage quota: check, publication and bookkeeping are one `BEGIN IMMEDIATE`
  transaction under a lock.
* Tasks: SQLite statements that fail in `run_task`'s own handlers; the gate's
  nesting of operations under one root.
* Chapter cache: a second request to delete a book that is being deleted; a
  worker whose dictionary entry is gone (its `KeyError` ends a task of a deleted
  book).
* Manifests: the deletion of the book, whose lock is dropped from the table.
* Link jobs: deletion of the imported book, provisional rows of the quota, a
  start-up that fails during a reload.
* Restores: creating, inspecting and cleaning up archives.
* Reading progress: revisions that a restored backup or a new import sets back,
  a writer that is disposed of while it still writes, keeping the local
  position against a newer conflict than the one shown, a server position
  fetched before an account changes, the replay of other books.
* Translation edits: chapters too long for the journalled path, which are
  written directly and here only when no save is under way; loss of power
  without a synced directory; the table of requests to translate selections;
  readers, who may see a text whose rows are not committed yet.
* Update: the updater's read-modify-write of the status and the runner's
  read-and-remove of the request are one step each; a rollback directory that
  cannot be removed after a complete rollback (the report is then that it
  failed); signals it traps, the path
  unit as something a rollback stops, start limits of systemd, loss of power
  without a synced file.

## 8. Running

```
tlc -workers 2 -config TaskLifecycle.cfg MCTaskLifecycle.tla
tlapm CacheTheorems.tla
```

The configuration and module of each run are listed in `PROJECT.json`. The run
marked violated prints a counterexample; all others end without error, none in
more than some minutes. The proofs take about seven minutes together.
