------------------------------- MODULE LinkJobs -------------------------------
(***************************************************************************)
(* Import of books by link (link_jobs.py, link_job_repository.py,          *)
(* link_import_execution.py, book_import_execution.py): jobs are rows of   *)
(* SQLite, worked on by asyncio tasks, a few at a time, that end with the  *)
(* process and are made again from the rows when it starts.  Maintenance   *)
(* (backend_maintenance.py) stops and restarts the tasks inside the        *)
(* process, behind a gate.                                                 *)
(*                                                                         *)
(* The event loop runs a turn between two awaits, so an action is a turn;  *)
(* every function of the store is one transaction inside a turn.           *)
(***************************************************************************)
EXTENDS Integers, Sequences, FiniteSets

CONSTANTS
  Keys,         \* the operations of clients, by Idempotency-Key
  NoKey,        \* in place of a key: a request that has none
  Slots,        \* the semaphore (2 in the code)
  MaxJobs,      \* bound: jobs
  MaxRetries,   \* bound: retries of failed jobs
  MaxStops,     \* bound: crashes, stops and maintenance
  MaxFaults     \* bound: transactions that fail

ASSUME LinkAssumption ==
  /\ NoKey \notin Keys
  /\ Slots \in Nat \ {0}
  /\ MaxJobs \in Nat /\ MaxRetries \in Nat /\ MaxStops \in Nat /\ MaxFaults \in Nat

VARIABLES
  jobs,         \* the table link_jobs, in the order of creation
  imports,      \* imports[j]: how often the book of job j was made and saved
  phase,        \* of the process and of its gate
  runs,         \* the tasks since the last start, in the order of creation
  scheduled,    \* scheduled_link_jobs: scheduled[j], or NoRun
  lost,         \* jobs a task left behind because it could not write
  retries, stops, faults

bounds == <<retries, stops, faults>>
store  == <<jobs, imports>>
vars   == <<store, phase, runs, scheduled, lost, bounds>>

NoRun == 0
Jobs  == 1..Len(jobs)
Runs  == 1..Len(runs)

Modes    == {"preview", "import"}
Statuses == {"queued", "running", "completed", "failed"}

\* serving: the gate is open; closing: maintenance waits for the operations
\* under way; quiet: _run_shutdown with the gate closed; stopped: maintenance;
\* reopening: _run_startup is done and the gate still closed; stopping:
\* _run_shutdown of a process that ends; down.
Phases == {"serving", "closing", "quiet", "stopped", "reopening", "stopping", "down"}

\* waiting for the semaphore; held at the gate; in _run_link_job: previewing;
\* importing (create_imported_book has not looked for the book yet); making
\* (it found none and awaits the new one); imported (the book is there, the
\* job does not say so); done, with its callback to come; gone.
Active == {"previewing", "importing", "making", "imported"}
Steps  == {"waiting", "held", "done", "gone"} \cup Active

TypeOK ==
  /\ jobs \in Seq([key : Keys \cup {NoKey}, mode : Modes, status : Statuses])
  /\ Len(jobs) <= MaxJobs
  /\ imports \in [1..MaxJobs -> Nat]
  /\ phase \in Phases
  /\ runs \in Seq([job : 1..MaxJobs, at : Steps, child : BOOLEAN])
  /\ \A i \in Runs : runs[i].job \in Jobs
  /\ scheduled \in [1..MaxJobs -> Nat]
  /\ lost \subseteq 1..MaxJobs
  /\ retries \in 0..MaxRetries /\ stops \in 0..MaxStops /\ faults \in 0..MaxFaults

Init ==
  /\ jobs = <<>> /\ imports = [j \in 1..MaxJobs |-> 0]
  /\ phase = "serving"
  /\ runs = <<>> /\ scheduled = [j \in 1..MaxJobs |-> NoRun]
  /\ lost = {}
  /\ retries = 0 /\ stops = 0 /\ faults = 0

JobOf(i) == runs[i].job

At(i, step) == runs' = [runs EXCEPT ![i].at = step]

Becomes(j, status) == jobs' = [jobs EXCEPT ![j].status = status]

\* A transaction that fails.
Fault == faults < MaxFaults /\ faults' = faults + 1

Loses(j) == lost' = lost \cup {j}

\* j has a task that is not done().
Live(j) == scheduled[j] # NoRun /\ runs[scheduled[j]].at \notin {"done", "gone"}

\* schedule_link_job, from a request.
Schedule(j) ==
  IF Live(j) THEN UNCHANGED <<runs, scheduled>>
  ELSE /\ runs' = Append(runs, [job |-> j, at |-> "waiting", child |-> TRUE])
       /\ scheduled' = [scheduled EXCEPT ![j] = Len(runs) + 1]

-----------------------------------------------------------------------------
(* Requests *)

\* For mutation: every request makes a job.
ExistingForgotten(key) == {}

\* The job of an operation a client has asked for before.
Existing(key) == {j \in Jobs : key # NoKey /\ jobs[j].key = key}

\* post_link_job of an operation that has no job; a repeated one is answered
\* with its job, or with 409 when it asks for something else.
Post(key, mode) ==
  /\ phase = "serving"
  /\ Existing(key) = {}
  /\ Len(jobs) < MaxJobs
  /\ jobs' = Append(jobs, [key |-> key, mode |-> mode, status |-> "queued"])
  /\ Schedule(Len(jobs) + 1)
  /\ UNCHANGED <<imports, phase, lost, bounds>>

\* retry_link_job
Retry(j) ==
  /\ phase = "serving" /\ retries < MaxRetries
  /\ jobs[j].status = "failed"
  /\ Becomes(j, "queued")
  /\ Schedule(j)
  /\ retries' = retries + 1
  /\ UNCHANGED <<imports, phase, lost, stops, faults>>

-----------------------------------------------------------------------------
(* A task: execute and run_link_job *)

\* The gate lets a task in while it is open; while it closes, also the task of
\* a request, if the request is itself still under way: it may be or not.
Admitted(i) == phase = "serving" \/ (phase = "closing" /\ runs[i].child)

\* execute, once it is through the gate, up to the first await of run_link_job.
Begins(i) ==
  LET j == JobOf(i)
  IN  IF jobs[j].status = "queued"
        THEN \/ /\ Becomes(j, "running") /\ At(i, "previewing")
                /\ UNCHANGED <<lost, faults>>
             \/ /\ Fault /\ Loses(j)
                /\ Becomes(j, "running") \/ UNCHANGED jobs
                /\ At(i, "done")
        ELSE At(i, "done") /\ UNCHANGED <<jobs, lost, faults>>

\* For mutation: the semaphore is not released.
HoldsSlotForever(i) == runs[i].at # "waiting"

\* A task that holds a slot of the semaphore.
HoldsSlot(i) == runs[i].at \in Active \cup {"held"}

Acquire(i) ==
  /\ runs[i].at = "waiting" /\ phase \notin {"quiet", "stopping"}
  /\ \A k \in 1..(i - 1) : runs[k].at # "waiting"
  /\ Cardinality({k \in Runs : HoldsSlot(k)}) < Slots
  /\ \/ Admitted(i) /\ Begins(i)
     \/ phase # "serving" /\ At(i, "held") /\ UNCHANGED <<jobs, lost, faults>>
  /\ UNCHANGED <<imports, phase, scheduled, retries, stops>>

Enter(i) ==
  /\ runs[i].at = "held" /\ phase = "serving"
  /\ Begins(i)
  /\ UNCHANGED <<imports, phase, scheduled, retries, stops>>

\* A task that has not been cancelled.
Running(i) == runs[i].at \in Active /\ phase # "stopping"

\* run_link_job, when the metadata is there.
Previewed(i) ==
  /\ Running(i) /\ runs[i].at = "previewing"
  /\ IF jobs[JobOf(i)].mode = "preview"
       THEN Becomes(JobOf(i), "completed") /\ At(i, "done")
       ELSE At(i, "importing") /\ UNCHANGED jobs
  /\ UNCHANGED <<imports, phase, scheduled, lost, bounds>>

\* For mutation: nobody looks whether the book is there.
CheckForgotten(i) ==
  /\ runs[i].at = "importing"
  /\ At(i, "making")
  /\ UNCHANGED <<store, phase, scheduled, lost, bounds>>

\* create_imported_book, up to its first await: the identity of the book is
\* that of the job, and a book that is there is taken as it is.  It runs in a
\* task of its own, which goes on until run_link_job has been told to end.
CheckBook(i) ==
  /\ runs[i].at = "importing"
  /\ At(i, IF imports[JobOf(i)] = 0 THEN "making" ELSE "imported")
  /\ UNCHANGED <<store, phase, scheduled, lost, bounds>>

\* create_imported_book, when the files are there: save_book replaces a row
\* that has come meanwhile, and asks nothing.
SaveBook(i) ==
  /\ runs[i].at = "making"
  /\ imports' = [imports EXCEPT ![JobOf(i)] = @ + 1]
  /\ At(i, "imported")
  /\ UNCHANGED <<jobs, phase, scheduled, lost, bounds>>

\* run_link_job, when the book is there.
Complete(i) ==
  /\ Running(i) /\ runs[i].at = "imported"
  /\ Becomes(JobOf(i), "completed") /\ At(i, "done")
  /\ UNCHANGED <<imports, phase, scheduled, lost, bounds>>

\* run_link_job, when a stage or a transaction fails; the transaction that says
\* so may fail as well.
Fails(i) ==
  /\ Running(i)
  /\ \/ Becomes(JobOf(i), "failed") /\ UNCHANGED <<lost, faults>>
     \/ Fault /\ Loses(JobOf(i)) /\ UNCHANGED jobs
  /\ At(i, "done")
  /\ UNCHANGED <<imports, phase, scheduled, retries, stops>>

\* A task that _run_shutdown has cancelled: defer.
Cancelled(i) ==
  /\ phase \in {"quiet", "stopping"}
  /\ runs[i].at \in {"waiting", "held"} \cup Active
  /\ IF runs[i].at \in Active
       THEN \/ Becomes(JobOf(i), "queued") /\ UNCHANGED <<lost, faults>>
            \/ Fault /\ Loses(JobOf(i)) /\ UNCHANGED jobs
       ELSE UNCHANGED <<jobs, lost, faults>>
  /\ At(i, "done")
  /\ UNCHANGED <<imports, phase, scheduled, retries, stops>>

\* finished, a turn after the task has ended.
Finished(i) ==
  /\ runs[i].at = "done"
  /\ At(i, "gone")
  /\ scheduled' = [scheduled EXCEPT ![JobOf(i)] = NoRun]
  /\ UNCHANGED <<store, phase, lost, bounds>>

-----------------------------------------------------------------------------
(* The process *)

Stops(from, to) ==
  /\ phase \in from /\ stops < MaxStops
  /\ phase' = to /\ stops' = stops + 1
  /\ UNCHANGED <<store, runs, scheduled, lost, retries, faults>>

Turns(from, to) ==
  phase = from /\ phase' = to /\ UNCHANGED <<store, runs, scheduled, lost, bounds>>

\* exclusive: maintenance closes the gate; it opens again when the operations
\* under way do not end in time.
Close   == Stops({"serving"}, "closing")
Busy    == Turns("closing", "serving")

\* For mutation: maintenance goes on after the time limit.
DrainedAnyway == Turns("closing", "quiet")

Drained == (\A i \in Runs : runs[i].at \notin Active) /\ Turns("closing", "quiet")

AllGone == \A i \in Runs : runs[i].at = "gone"

\* _run_shutdown has cancelled the tasks and waited for them.
Quiesced == AllGone /\ Turns("quiet", "stopped")

\* For mutation: the jobs that were running are left as they are.
RecoverableQueued == {j \in Jobs : jobs[j].status = "queued"}

\* recover, and the tasks of what it returns.
Recoverable == {j \in Jobs : jobs[j].status \in {"queued", "running"}}
Recovered ==
  /\ jobs' = [j \in Jobs |->
                IF j \in Recoverable THEN [jobs[j] EXCEPT !.status = "queued"] ELSE jobs[j]]
  /\ \E order \in [1..Cardinality(Recoverable) -> Recoverable] :
       /\ \A i, k \in DOMAIN order : i < k => order[i] < order[k]
       /\ \A j \in Recoverable : \E i \in DOMAIN order : order[i] = j
       /\ runs' = [i \in DOMAIN order |-> [job |-> order[i], at |-> "waiting", child |-> FALSE]]
       /\ scheduled' = [j \in 1..MaxJobs |->
                          IF j \in Recoverable THEN CHOOSE i \in DOMAIN order : order[i] = j ELSE NoRun]
  /\ lost' = {}
  /\ UNCHANGED <<imports, bounds>>

\* reload, and the gate after it.
Reload == phase = "stopped" /\ phase' = "reopening" /\ Recovered
Reopen == Turns("reopening", "serving")

\* The process ends in order, or not, and starts.
Stop  == Stops({"serving"}, "stopping")
Ended == AllGone /\ Turns("stopping", "down")
Crash ==
  /\ phase # "down" /\ stops < MaxStops
  /\ phase' = "down" /\ stops' = stops + 1
  /\ runs' = <<>> /\ scheduled' = [j \in 1..MaxJobs |-> NoRun]
  /\ UNCHANGED <<store, lost, retries, faults>>
Start == phase = "down" /\ phase' = "serving" /\ Recovered

-----------------------------------------------------------------------------
Step(i) ==
  \/ Acquire(i) \/ Enter(i)
  \/ Previewed(i) \/ CheckBook(i) \/ SaveBook(i) \/ Complete(i) \/ Fails(i)
  \/ Cancelled(i) \/ Finished(i)

Process ==
  \/ Close \/ Busy \/ Drained \/ Quiesced \/ Reload \/ Reopen
  \/ Stop \/ Ended \/ Crash \/ Start

Next ==
  \/ \E key \in Keys \cup {NoKey}, mode \in Modes : Post(key, mode)
  \/ \E j \in Jobs : Retry(j)
  \/ \E i \in Runs : Step(i)
  \/ Process

Spec == Init /\ [][Next]_vars

\* The event loop comes to every task that can go on; what a stage waits for
\* ends, with its answer or with its time limit.
Fairness == \A i \in 1..(MaxJobs + MaxRetries) : WF_vars(i \in Runs /\ Step(i))

FairSpec == Spec /\ Fairness

-----------------------------------------------------------------------------
(* Properties *)

Unfinished == {j \in Jobs : jobs[j].status \in {"queued", "running"}}

\* A job that is not finished has a task for as long as the process serves
\* requests, whatever crash, maintenance or retry came before; a client is
\* told by retry_link_job that it need not start one.
NotForgotten ==
  phase = "serving" =>
    \A j \in Unfinished \ lost : \E i \in Runs : JobOf(i) = j /\ runs[i].at \notin {"done", "gone"}

\* No two tasks work on one job, and no more than the semaphore allows work at
\* all, also across a restart of the tasks inside the process.
OneTaskEach ==
  /\ \A i, k \in Runs :
       JobOf(i) = JobOf(k) /\ {runs[i].at, runs[k].at} \cap {"done", "gone"} = {} => i = k
  /\ Cardinality({i \in Runs : runs[i].at \in Active}) <= Slots

\* While maintenance has the files, no import writes to them.
QuietWhileClosed == phase \in {"quiet", "stopped", "reopening"} => \A i \in Runs : runs[i].at \notin Active

\* At every moment each job is imported by one task, in a slot, and none in
\* maintenance (_schedule, _SLOTS, the gate, stop).
ImportsInOrder == OneTaskEach /\ QuietWhileClosed

\* The book of a job is made and saved once, although saving asks nothing and
\* the look for it lies before the awaits: also when the process ends, or a
\* transaction fails, between saving the book and saying so, and when a retry,
\* a recovery or the end of maintenance makes the job a task again
\* (create_imported_book, schedule_link_job, recover).
MadeOnce == \A j \in Jobs : imports[j] <= 1

\* A job that waits or runs comes to an end if the process goes on serving.
Settles ==
  \A j \in 1..MaxJobs :
    j \in Jobs /\ j \in Unfinished ~> (j \notin Unfinished \/ j \in lost \/ phase # "serving")

\* The promise to clients, by the state they can tell apart.
Work  == [j \in Jobs |-> [key |-> jobs[j].key, mode |-> jobs[j].mode,
           state |-> IF j \in Unfinished THEN "open" ELSE jobs[j].status]]
Books == {j \in Jobs : imports[j] > 0}

Promise == INSTANCE LinkPromise WITH work <- Work, books <- Books

KeepsPromise == Promise!Spec
=============================================================================
