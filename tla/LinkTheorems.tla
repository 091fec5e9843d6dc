------------------------------ MODULE LinkTheorems ------------------------------
(***************************************************************************)
(* Proofs about LinkJobs, for any number of operations, slots, jobs,       *)
(* retries, stops and faults.                                              *)
(***************************************************************************)
EXTENDS LinkJobs, FiniteSetTheorems, SequenceTheorems, TLAPS

JobRecord == [key : Keys \cup {NoKey}, mode : Modes, status : Statuses]
RunRecord == [job : 1..MaxJobs, at : Steps, child : BOOLEAN]

Alive(i) == runs[i].at \notin {"done", "gone"}

\* A task and its job agree; the book a task is making is still not there.
Tied ==
  \A i \in Runs :
    /\ runs[i].at \in Active => jobs[JobOf(i)].status = "running"
    /\ runs[i].at \in {"waiting", "held"} => jobs[JobOf(i)].status = "queued"
    /\ runs[i].at \in {"importing", "making", "imported"} => jobs[JobOf(i)].mode = "import"
    /\ runs[i].at = "making" => imports[JobOf(i)] = 0
    /\ runs[i].at = "imported" => imports[JobOf(i)] > 0

Single == \A i, k \in Runs : JobOf(i) = JobOf(k) /\ Alive(i) /\ Alive(k) => i = k

Known == \A j \in 1..MaxJobs : scheduled[j] # NoRun => scheduled[j] \in Runs /\ JobOf(scheduled[j]) = j

Holders == {i \in Runs : HoldsSlot(i)}
InSlots == Cardinality(Holders) <= Slots

Quiet == QuietWhileClosed /\ (phase \in {"stopped", "down"} => AllGone)

\* NotForgotten, and also before the gate opens.
Kept ==
  phase \in {"serving", "closing", "reopening"} =>
    \A j \in Unfinished \ lost : \E i \in Runs : JobOf(i) = j /\ Alive(i)

Once == \A j \in 1..MaxJobs : imports[j] <= 1 /\ (j \notin Jobs => imports[j] = 0)

Ind == TypeOK /\ Tied /\ Single /\ Known /\ InSlots /\ Quiet /\ Kept /\ Once

USE DEF JobRecord, RunRecord, Alive, Active, Modes, Statuses, Phases, NoRun

-----------------------------------------------------------------------------
(* The tables *)

LEMMA IsSequence ==
  ASSUME NEW S, NEW n \in Nat, NEW f \in [1..n -> S]
  PROVE  f \in Seq(S) /\ Len(f) = n
OBVIOUS

LEMMA TypeFacts ==
  ASSUME TypeOK
  PROVE  /\ Len(jobs) \in Nat /\ Len(runs) \in Nat /\ Len(jobs) <= MaxJobs /\ MaxJobs \in Nat
         /\ Jobs \subseteq 1..MaxJobs
         /\ jobs \in Seq(JobRecord) /\ runs \in Seq(RunRecord)
         /\ \A j \in Jobs : jobs[j] \in JobRecord
         /\ \A i \in Runs : runs[i] \in RunRecord /\ JobOf(i) \in Jobs
         /\ scheduled \in [1..MaxJobs -> Nat]
         /\ imports \in [1..MaxJobs -> Nat]
<1>1. jobs \in Seq(JobRecord) /\ runs \in Seq(RunRecord)
  BY DEF TypeOK
<1>2. /\ Len(jobs) \in Nat /\ \A j \in Jobs : jobs[j] \in JobRecord
      /\ Len(runs) \in Nat /\ \A i \in Runs : runs[i] \in RunRecord
  BY <1>1, ElementOfSeq, LenProperties DEF Jobs, Runs
<1> QED
  BY <1>1, <1>2, LinkAssumption DEF TypeOK, Jobs, JobOf

\* What a task's step leaves of the tasks.
LEMMA AtViews ==
  ASSUME TypeOK, NEW i \in Runs, NEW step \in Steps, At(i, step)
  PROVE  /\ runs' \in Seq(RunRecord) /\ Len(runs') = Len(runs) /\ Runs' = Runs
         /\ \A k \in Runs : JobOf(k)' = JobOf(k) /\ runs'[k].child = runs[k].child
         /\ \A k \in Runs : runs'[k].at = IF k = i THEN step ELSE runs[k].at
<1>1. /\ runs \in Seq(RunRecord) /\ Len(runs) \in Nat /\ i \in 1..Len(runs)
      /\ \A k \in Runs : runs[k] \in RunRecord
  BY TypeFacts DEF Runs
<1> DEFINE new == [runs[i] EXCEPT !.at = step]
<1>2. new \in RunRecord /\ new.job = runs[i].job /\ new.child = runs[i].child /\ new.at = step
  BY <1>1
<1>3. runs' = [runs EXCEPT ![i] = new]
  BY <1>1 DEF At
<1>4. /\ runs' \in Seq(RunRecord) /\ Len(runs') = Len(runs)
      /\ \A k \in 1..Len(runs) : runs'[k] = IF k = i THEN new ELSE runs[k]
  BY <1>1, <1>2, <1>3, ExceptSeq
<1> HIDE DEF new
<1> QED
  BY <1>1, <1>2, <1>4 DEF Runs, JobOf

\* What it leaves of the jobs.
LEMMA BecomesViews ==
  ASSUME TypeOK, NEW j \in Jobs, NEW status \in Statuses, Becomes(j, status)
  PROVE  /\ jobs' \in Seq(JobRecord) /\ Len(jobs') = Len(jobs) /\ Jobs' = Jobs
         /\ \A o \in Jobs : jobs'[o].key = jobs[o].key /\ jobs'[o].mode = jobs[o].mode
         /\ \A o \in Jobs : jobs'[o].status = IF o = j THEN status ELSE jobs[o].status
<1>1. jobs \in Seq(JobRecord) /\ Len(jobs) \in Nat /\ j \in 1..Len(jobs) /\ \A o \in Jobs : jobs[o] \in JobRecord
  BY TypeFacts DEF Jobs
<1> DEFINE new == [jobs[j] EXCEPT !.status = status]
<1>2. new \in JobRecord /\ new.key = jobs[j].key /\ new.mode = jobs[j].mode /\ new.status = status
  BY <1>1
<1>3. jobs' = [jobs EXCEPT ![j] = new]
  BY <1>1 DEF Becomes
<1>4. /\ jobs' \in Seq(JobRecord) /\ Len(jobs') = Len(jobs)
      /\ \A o \in 1..Len(jobs) : jobs'[o] = IF o = j THEN new ELSE jobs[o]
  BY <1>1, <1>2, <1>3, ExceptSeq
<1> HIDE DEF new
<1> QED
  BY <1>1, <1>2, <1>4 DEF Jobs

\* A job left alone keeps its status.
LEMMA SameStatus ==
  ASSUME TypeOK, NEW j \in Jobs, UNCHANGED jobs
  PROVE  Becomes(j, jobs[j].status) /\ jobs[j].status \in Statuses
<1>1. jobs \in Seq(JobRecord) /\ j \in 1..Len(jobs) /\ jobs[j] \in JobRecord
  BY TypeFacts DEF Jobs
<1>2. [jobs EXCEPT ![j].status = jobs[j].status] = jobs
  BY <1>1
<1> QED
  BY <1>1, <1>2 DEF Becomes

-----------------------------------------------------------------------------
(* The step of a task that is not done *)

\* Whatever a task does to itself and to its job.
Moves(i, step, status) == At(i, step) /\ Becomes(JobOf(i), status) /\ UNCHANGED <<phase, scheduled>>

\* The step and what the job says agree, as Tied has it.
Agrees(i, step, status) ==
  /\ step \notin {"waiting", "gone"}
  /\ step \in Active => status = "running"
  /\ step = "held" => status = "queued"
  /\ step \in {"importing", "making", "imported"} => jobs[JobOf(i)].mode = "import"
  /\ step = "making" => imports'[JobOf(i)] = 0
  /\ step = "imported" => imports'[JobOf(i)] > 0

LEMMA MovesKeeps ==
  ASSUME Ind, NEW i \in Runs, NEW step \in Steps, NEW status \in Statuses,
         Moves(i, step, status), Agrees(i, step, status), Alive(i),
         imports' \in [1..MaxJobs -> Nat], \A j \in 1..MaxJobs : j # JobOf(i) => imports'[j] = imports[j],
         imports[JobOf(i)] > 0 => imports'[JobOf(i)] > 0,
         step \in Active \cup {"held"} => HoldsSlot(i) \/ Cardinality(Holders) < Slots,
         step \in Active => phase \notin {"quiet", "stopped", "reopening"},
         step = "done" /\ status \in {"queued", "running"} /\ phase \in {"serving", "closing", "reopening"} => JobOf(i) \in lost',
         lost \subseteq lost', lost' \subseteq 1..MaxJobs,
         \A j \in 1..MaxJobs : imports'[j] <= 1 /\ (j \notin Jobs => imports'[j] = 0),
         retries' \in 0..MaxRetries, stops' \in 0..MaxStops, faults' \in 0..MaxFaults
  PROVE  Ind'
<1>1. /\ TypeOK /\ Tied /\ Single /\ Known /\ InSlots /\ Quiet /\ Kept /\ Once
      /\ At(i, step) /\ Becomes(JobOf(i), status) /\ phase' = phase /\ scheduled' = scheduled
  BY DEF Ind, Moves
<1>2. /\ Len(jobs) \in Nat /\ Len(runs) \in Nat /\ Jobs \subseteq 1..MaxJobs
      /\ \A k \in Runs : runs[k] \in RunRecord /\ JobOf(k) \in Jobs
      /\ \A j \in Jobs : jobs[j] \in JobRecord
  BY <1>1, TypeFacts
<1>3. /\ runs' \in Seq(RunRecord) /\ Len(runs') = Len(runs) /\ Runs' = Runs
      /\ \A k \in Runs : JobOf(k)' = JobOf(k)
      /\ \A k \in Runs : runs'[k].at = IF k = i THEN step ELSE runs[k].at
  BY <1>1, AtViews
<1>4. /\ jobs' \in Seq(JobRecord) /\ Len(jobs') = Len(jobs) /\ Jobs' = Jobs
      /\ \A o \in Jobs : jobs'[o].mode = jobs[o].mode
      /\ \A o \in Jobs : jobs'[o].status = IF o = JobOf(i) THEN status ELSE jobs[o].status
  <2>1. PICK j \in Jobs : j = JobOf(i)
    BY <1>2
  <2>2. Becomes(j, status)
    BY <1>1, <2>1
  <2>3. TypeOK
    BY <1>1
  <2>4. /\ jobs' \in Seq(JobRecord) /\ Len(jobs') = Len(jobs) /\ Jobs' = Jobs
        /\ \A o \in Jobs : jobs'[o].key = jobs[o].key /\ jobs'[o].mode = jobs[o].mode
        /\ \A o \in Jobs : jobs'[o].status = IF o = j THEN status ELSE jobs[o].status
    BY <2>2, <2>3, BecomesViews
  <2> QED
    BY <2>1, <2>4
<1>5. \A k \in Runs : k # i /\ Alive(k) => JobOf(k) # JobOf(i)
  BY <1>1 DEF Single
<1>6. TypeOK'
  BY <1>1, <1>2, <1>3, <1>4 DEF TypeOK, JobOf
<1>7. Tied'
  <2> SUFFICES ASSUME NEW k \in Runs
               PROVE  /\ runs'[k].at \in Active => jobs'[JobOf(k)].status = "running"
                      /\ runs'[k].at \in {"waiting", "held"} => jobs'[JobOf(k)].status = "queued"
                      /\ runs'[k].at \in {"importing", "making", "imported"} => jobs'[JobOf(k)].mode = "import"
                      /\ runs'[k].at = "making" => imports'[JobOf(k)] = 0
                      /\ runs'[k].at = "imported" => imports'[JobOf(k)] > 0
    BY <1>3 DEF Tied
  <2>1. CASE k = i
    BY <1>2, <1>3, <1>4, <2>1 DEF Agrees
  <2>2. CASE k # i
    <3>1. /\ runs'[k].at = runs[k].at /\ JobOf(k) \in Jobs
          /\ JobOf(k) \in 1..MaxJobs /\ jobs'[JobOf(k)].mode = jobs[JobOf(k)].mode
      BY <1>2, <1>3, <1>4, <2>2
    <3>2. Alive(k) => /\ jobs'[JobOf(k)].status = jobs[JobOf(k)].status
                      /\ imports'[JobOf(k)] = imports[JobOf(k)]
      BY <1>4, <1>5, <2>2, <3>1
    <3>3. runs[k].at \in Active \cup {"waiting", "held"} => Alive(k)
      BY DEF Alive, Active
    <3> QED
      BY <1>1, <3>1, <3>2, <3>3 DEF Tied
  <2> QED
    BY <2>1, <2>2
<1>8. Single'
  <2>1. \A k \in Runs : Alive(k)' => Alive(k)
    BY <1>3
  <2> QED
    BY <1>1, <1>3, <2>1 DEF Single
<1>9. Known'
  BY <1>1, <1>3 DEF Known
<1>10. InSlots'
  <2>1. IsFiniteSet(Holders) /\ Cardinality(Holders) \in Nat /\ Cardinality(Holders) <= Slots /\ Slots \in Nat
    <3>1. IsFiniteSet(Runs)
      <4>1. Len(runs) \in Int /\ 1 \in Int
        BY <1>2
      <4> QED
        BY <4>1, FS_Interval DEF Runs
    <3>2. IsFiniteSet(Holders)
      BY <3>1, FS_Subset DEF Holders
    <3> QED
      BY <1>1, <3>2, FS_CardinalityType, LinkAssumption DEF InSlots
  <2>2. Holders' \subseteq Holders \cup {i}
    BY <1>3 DEF Holders, HoldsSlot
  <2>3. CASE i \in Holders' /\ i \notin Holders
    <3>1. Cardinality(Holders) < Slots
      BY <1>3, <2>3 DEF Holders, HoldsSlot
    <3>2. Cardinality(Holders \cup {i}) = Cardinality(Holders) + 1 /\ IsFiniteSet(Holders \cup {i})
      BY <2>1, <2>3, FS_AddElement
    <3> QED
      BY <2>1, <2>2, <3>1, <3>2, FS_Subset, FS_CardinalityType DEF InSlots
  <2>4. CASE ~(i \in Holders' /\ i \notin Holders)
    <3>1. Holders' \subseteq Holders
      BY <2>2, <2>4
    <3> QED
      BY <2>1, <3>1, FS_Subset, FS_CardinalityType DEF InSlots
  <2> QED
    BY <2>3, <2>4
<1>11. Quiet'
  BY <1>1, <1>3 DEF Quiet, QuietWhileClosed, AllGone
<1>12. Kept'
  <2> SUFFICES ASSUME phase \in {"serving", "closing", "reopening"},
                      NEW j \in Jobs, jobs'[j].status \in {"queued", "running"}, j \notin lost'
               PROVE  \E k \in Runs : JobOf(k) = j /\ runs'[k].at \notin {"done", "gone"}
    BY <1>1, <1>3, <1>4 DEF Kept, Unfinished
  <2>1. CASE j = JobOf(i)
    <3>1. step # "done"
      BY <1>2, <1>4, <2>1
    <3>2. step # "gone"
      BY DEF Agrees
    <3> QED
      BY <1>2, <1>3, <1>4, <2>1, <3>1, <3>2
  <2>2. CASE j # JobOf(i)
    <3>1. PICK k \in Runs : JobOf(k) = j /\ Alive(k)
      BY <1>1, <1>4, <2>2 DEF Kept, Unfinished
    <3> QED
      BY <1>3, <2>2, <3>1
  <2> QED
    BY <2>1, <2>2
<1>13. Once'
  BY <1>4 DEF Once
<1> QED
  BY <1>6, <1>7, <1>8, <1>9, <1>10, <1>11, <1>12, <1>13 DEF Ind

\* A step that makes no book: it leaves the job to another task only by a
\* cancellation, or with a write that failed.
LEMMA StepKeeps ==
  ASSUME Ind, NEW i \in Runs, NEW step \in Steps, NEW status \in Statuses,
         Moves(i, step, status), Alive(i), UNCHANGED <<imports, retries, stops>>,
         Agrees(i, step, status),
         step \in Active \cup {"held"} => HoldsSlot(i) \/ Cardinality(Holders) < Slots,
         step \in Active => phase \notin {"quiet", "stopped", "reopening"},
         \/ /\ UNCHANGED <<lost, faults>>
            /\ step = "done" => status \in {"completed", "failed"} \/ phase \in {"quiet", "stopping"}
         \/ Fault /\ Loses(JobOf(i))
  PROVE  Ind'
<1>1. /\ imports \in [1..MaxJobs -> Nat] /\ lost \subseteq 1..MaxJobs
      /\ retries \in 0..MaxRetries /\ stops \in 0..MaxStops /\ faults \in 0..MaxFaults
      /\ \A j \in 1..MaxJobs : imports[j] <= 1 /\ (j \notin Jobs => imports[j] = 0)
      /\ JobOf(i) \in 1..MaxJobs
  BY TypeFacts DEF Ind, TypeOK, Once
<1>2. /\ lost \subseteq lost' /\ lost' \subseteq 1..MaxJobs
      /\ faults' \in 0..MaxFaults
      /\ step = "done" /\ status \in {"queued", "running"} /\ phase \in {"serving", "closing", "reopening"}
           => JobOf(i) \in lost'
  <2>1. CASE /\ UNCHANGED <<lost, faults>>
             /\ step = "done" => status \in {"completed", "failed"} \/ phase \in {"quiet", "stopping"}
    BY <1>1, <2>1
  <2>2. CASE Fault /\ Loses(JobOf(i))
    <3>1. faults' \in 0..MaxFaults
      BY <1>1, <2>2, LinkAssumption DEF Fault
    <3>2. lost' = lost \cup {JobOf(i)}
      BY <2>2 DEF Loses
    <3>3. lost \subseteq lost' /\ lost' \subseteq 1..MaxJobs /\ JobOf(i) \in lost'
      BY <1>1, <3>2
    <3> QED
      BY <3>1, <3>3
  <2> QED
    BY <2>1, <2>2
<1>3. imports' = imports /\ retries' = retries /\ stops' = stops
  OBVIOUS
<1> QED
  BY <1>1, <1>2, <1>3, MovesKeeps

\* What a step knows of its job.
LEMMA JobFacts ==
  ASSUME Ind, NEW i \in Runs
  PROVE  /\ JobOf(i) \in Jobs /\ runs[i].at \in Steps
         /\ jobs[JobOf(i)].status \in Statuses /\ jobs[JobOf(i)].mode \in Modes
         /\ UNCHANGED jobs => Becomes(JobOf(i), jobs[JobOf(i)].status)
         /\ runs[i].at \in Active => jobs[JobOf(i)].status = "running"
         /\ runs[i].at \in {"waiting", "held"} => jobs[JobOf(i)].status = "queued"
         /\ runs[i].at \in {"importing", "making", "imported"} => jobs[JobOf(i)].mode = "import"
         /\ runs[i].at = "making" => imports[JobOf(i)] = 0
         /\ runs[i].at = "imported" => imports[JobOf(i)] > 0
         /\ runs[i].at \in Active => phase \notin {"quiet", "stopped", "reopening"}
<1>1. TypeOK /\ Tied /\ Quiet
  BY DEF Ind
<1>2. JobOf(i) \in Jobs /\ runs[i] \in RunRecord /\ jobs[JobOf(i)] \in JobRecord
  BY <1>1, TypeFacts
<1>3. ASSUME UNCHANGED jobs PROVE Becomes(JobOf(i), jobs[JobOf(i)].status)
  <2>1. PICK j \in Jobs : j = JobOf(i)
    BY <1>2
  <2> QED
    BY <1>1, <1>3, <2>1, SameStatus
<1> QED
  BY <1>1, <1>2, <1>3 DEF Tied, Quiet, QuietWhileClosed

LEMMA BeginsKeeps ==
  ASSUME Ind, NEW i \in Runs, runs[i].at \in {"waiting", "held"}, Admitted(i), Begins(i),
         HoldsSlot(i) \/ Cardinality(Holders) < Slots,
         UNCHANGED <<imports, phase, scheduled, retries, stops>>
  PROVE  Ind'
<1>1. jobs[JobOf(i)].status = "queued" /\ phase \notin {"quiet", "stopped", "reopening"} /\ Alive(i)
  BY JobFacts DEF Admitted
<1>2. CASE Becomes(JobOf(i), "running") /\ At(i, "previewing") /\ UNCHANGED <<lost, faults>>
  <2>1. Moves(i, "previewing", "running") /\ Agrees(i, "previewing", "running")
    BY <1>2 DEF Moves, Agrees
  <2> QED
    BY <1>1, <1>2, <2>1, StepKeeps DEF Steps
<1>3. CASE Fault /\ Loses(JobOf(i)) /\ Becomes(JobOf(i), "running") /\ At(i, "done")
  <2>1. Moves(i, "done", "running") /\ Agrees(i, "done", "running")
    BY <1>3 DEF Moves, Agrees
  <2> QED
    BY <1>1, <1>3, <2>1, StepKeeps DEF Steps
<1>4. CASE Fault /\ Loses(JobOf(i)) /\ UNCHANGED jobs /\ At(i, "done")
  <2>1. Moves(i, "done", "queued") /\ Agrees(i, "done", "queued")
    BY <1>1, <1>4, JobFacts DEF Moves, Agrees
  <2> QED
    BY <1>1, <1>4, <2>1, StepKeeps DEF Steps
<1> QED
  BY <1>1, <1>2, <1>3, <1>4 DEF Begins

LEMMA AcquireKeeps ==
  ASSUME Ind, NEW i \in Runs, Acquire(i)
  PROVE  Ind'
<1>1. /\ runs[i].at = "waiting" /\ Cardinality(Holders) < Slots
      /\ UNCHANGED <<imports, phase, scheduled, retries, stops>>
  BY DEF Acquire, Holders
<1>2. CASE Admitted(i) /\ Begins(i)
  BY <1>1, <1>2, BeginsKeeps
<1>3. CASE At(i, "held") /\ UNCHANGED <<jobs, lost, faults>>
  <2>1. jobs[JobOf(i)].status = "queued" /\ Becomes(JobOf(i), "queued")
    BY <1>1, <1>3, JobFacts
  <2>2. Moves(i, "held", "queued") /\ Agrees(i, "held", "queued")
    BY <1>1, <1>3, <2>1 DEF Moves, Agrees
  <2> QED
    BY <1>1, <1>3, <2>2, StepKeeps DEF Steps
<1> QED
  BY <1>2, <1>3 DEF Acquire

LEMMA EnterKeeps ==
  ASSUME Ind, NEW i \in Runs, Enter(i)
  PROVE  Ind'
<1>1. runs[i].at = "held" /\ Admitted(i) /\ Begins(i) /\ UNCHANGED <<imports, phase, scheduled, retries, stops>>
  BY DEF Enter, Admitted
<1>2. HoldsSlot(i)
  BY <1>1 DEF HoldsSlot
<1> QED
  BY <1>1, <1>2, BeginsKeeps

LEMMA PreviewedKeeps ==
  ASSUME Ind, NEW i \in Runs, Previewed(i)
  PROVE  Ind'
<1>1. /\ runs[i].at = "previewing" /\ Alive(i) /\ HoldsSlot(i) /\ UNCHANGED <<imports, retries, stops>>
      /\ UNCHANGED <<lost, faults>> /\ UNCHANGED <<phase, scheduled>>
  BY DEF Previewed, HoldsSlot, bounds
<1>2. CASE Becomes(JobOf(i), "completed") /\ At(i, "done")
  <2>1. Moves(i, "done", "completed") /\ Agrees(i, "done", "completed")
    BY <1>1, <1>2 DEF Moves, Agrees
  <2> QED
    BY <1>1, <2>1, StepKeeps DEF Steps
<1>3. CASE jobs[JobOf(i)].mode # "preview" /\ At(i, "importing") /\ UNCHANGED jobs
  <2>1. /\ jobs[JobOf(i)].status = "running" /\ jobs[JobOf(i)].mode = "import" /\ Becomes(JobOf(i), "running")
        /\ phase \notin {"quiet", "stopped", "reopening"}
    BY <1>1, <1>3, JobFacts
  <2>2. Moves(i, "importing", "running") /\ Agrees(i, "importing", "running")
    BY <1>1, <1>3, <2>1 DEF Moves, Agrees
  <2> QED
    BY <1>1, <2>1, <2>2, StepKeeps DEF Steps
<1> QED
  BY <1>2, <1>3 DEF Previewed

LEMMA CheckBookKeeps ==
  ASSUME Ind, NEW i \in Runs, CheckBook(i)
  PROVE  Ind'
<1>1. /\ runs[i].at = "importing" /\ Alive(i) /\ HoldsSlot(i) /\ UNCHANGED jobs
      /\ UNCHANGED <<imports, retries, stops>> /\ UNCHANGED <<lost, faults>> /\ UNCHANGED <<phase, scheduled>>
  BY DEF CheckBook, HoldsSlot, store, bounds
<1>2. /\ jobs[JobOf(i)].status = "running" /\ jobs[JobOf(i)].mode = "import" /\ Becomes(JobOf(i), "running")
      /\ phase \notin {"quiet", "stopped", "reopening"} /\ imports[JobOf(i)] \in Nat
  BY <1>1, JobFacts, TypeFacts DEF Ind
<1>3. CASE imports[JobOf(i)] = 0
  <2>1. Moves(i, "making", "running") /\ Agrees(i, "making", "running")
    BY <1>1, <1>2, <1>3 DEF CheckBook, Moves, Agrees
  <2> QED
    BY <1>1, <1>2, <2>1, StepKeeps DEF Steps
<1>4. CASE imports[JobOf(i)] > 0
  <2>1. Moves(i, "imported", "running") /\ Agrees(i, "imported", "running")
    BY <1>1, <1>2, <1>4 DEF CheckBook, Moves, Agrees
  <2> QED
    BY <1>1, <1>2, <2>1, StepKeeps DEF Steps
<1> QED
  BY <1>2, <1>3, <1>4

\* The book a task saves was not there when it looked, and no other task has
\* saved it since: no other task has the job.
LEMMA SaveBookKeeps ==
  ASSUME Ind, NEW i \in Runs, SaveBook(i)
  PROVE  Ind'
<1>1. /\ runs[i].at = "making" /\ Alive(i) /\ HoldsSlot(i) /\ At(i, "imported")
      /\ imports' = [imports EXCEPT ![JobOf(i)] = @ + 1]
      /\ UNCHANGED jobs /\ UNCHANGED <<phase, scheduled>> /\ lost' = lost
      /\ retries' = retries /\ stops' = stops /\ faults' = faults
  BY DEF SaveBook, HoldsSlot, bounds
<1>2. /\ jobs[JobOf(i)].status = "running" /\ jobs[JobOf(i)].mode = "import" /\ Becomes(JobOf(i), "running")
      /\ phase \notin {"quiet", "stopped", "reopening"} /\ JobOf(i) \in Jobs /\ imports[JobOf(i)] = 0
  BY <1>1, JobFacts
<1>3. /\ imports \in [1..MaxJobs -> Nat] /\ lost \subseteq 1..MaxJobs /\ Jobs \subseteq 1..MaxJobs
      /\ retries \in 0..MaxRetries /\ stops \in 0..MaxStops /\ faults \in 0..MaxFaults
      /\ \A j \in 1..MaxJobs : imports[j] <= 1 /\ (j \notin Jobs => imports[j] = 0)
  BY TypeFacts DEF Ind, TypeOK, Once
<1>4. /\ imports' \in [1..MaxJobs -> Nat] /\ imports'[JobOf(i)] = 1
      /\ \A j \in 1..MaxJobs : j # JobOf(i) => imports'[j] = imports[j]
      /\ \A j \in 1..MaxJobs : imports'[j] <= 1 /\ (j \notin Jobs => imports'[j] = 0)
  <2>1. PICK o \in Jobs : o = JobOf(i)
    BY <1>2
  <2>2. o \in 1..MaxJobs /\ imports[o] = 0 /\ imports' = [imports EXCEPT ![o] = 1]
    BY <1>1, <1>2, <1>3, <2>1
  <2>3. imports' \in [1..MaxJobs -> Nat] /\ imports'[o] = 1
    BY <1>3, <2>2
  <2>4. \A j \in 1..MaxJobs : j # o => imports'[j] = imports[j]
    BY <1>3, <2>2
  <2> QED
    BY <1>3, <2>1, <2>3, <2>4
<1>5. Moves(i, "imported", "running") /\ Agrees(i, "imported", "running")
  BY <1>1, <1>2, <1>4 DEF Moves, Agrees
<1>6. /\ imports'[JobOf(i)] > 0 /\ "imported" \in Steps /\ "running" \in Statuses
      /\ lost \subseteq lost' /\ lost' \subseteq 1..MaxJobs
      /\ retries' \in 0..MaxRetries /\ stops' \in 0..MaxStops /\ faults' \in 0..MaxFaults
  BY <1>1, <1>3, <1>4 DEF Steps
<1> HIDE DEF Statuses
<1> QED
  BY <1>1, <1>2, <1>4, <1>5, <1>6, MovesKeeps

LEMMA CompleteKeeps ==
  ASSUME Ind, NEW i \in Runs, Complete(i)
  PROVE  Ind'
<1>1. /\ Alive(i) /\ Moves(i, "done", "completed") /\ Agrees(i, "done", "completed")
      /\ UNCHANGED <<imports, retries, stops>> /\ UNCHANGED <<lost, faults>>
  BY DEF Complete, Moves, Agrees, bounds
<1> QED
  BY <1>1, StepKeeps DEF Steps

LEMMA FailsKeeps ==
  ASSUME Ind, NEW i \in Runs, Fails(i)
  PROVE  Ind'
<1>1. /\ runs[i].at \in Active /\ Alive(i) /\ At(i, "done")
      /\ UNCHANGED <<imports, retries, stops>> /\ UNCHANGED <<phase, scheduled>>
  BY DEF Fails, Running
<1>2. CASE Becomes(JobOf(i), "failed") /\ UNCHANGED <<lost, faults>>
  <2>1. Moves(i, "done", "failed") /\ Agrees(i, "done", "failed")
    BY <1>1, <1>2 DEF Moves, Agrees
  <2> QED
    BY <1>1, <1>2, <2>1, StepKeeps DEF Steps
<1>3. CASE Fault /\ Loses(JobOf(i)) /\ UNCHANGED jobs
  <2>1. Moves(i, "done", "running") /\ Agrees(i, "done", "running")
    BY <1>1, <1>3, JobFacts DEF Moves, Agrees
  <2> QED
    BY <1>1, <1>3, <2>1, StepKeeps DEF Steps
<1> QED
  BY <1>2, <1>3 DEF Fails

LEMMA CancelledKeeps ==
  ASSUME Ind, NEW i \in Runs, Cancelled(i)
  PROVE  Ind'
<1>1. /\ Alive(i) /\ At(i, "done") /\ phase \in {"quiet", "stopping"}
      /\ UNCHANGED <<imports, retries, stops>> /\ UNCHANGED <<phase, scheduled>>
  BY DEF Cancelled
<1>2. CASE Becomes(JobOf(i), "queued") /\ UNCHANGED <<lost, faults>>
  <2>1. Moves(i, "done", "queued") /\ Agrees(i, "done", "queued")
    BY <1>1, <1>2 DEF Moves, Agrees
  <2> QED
    BY <1>1, <1>2, <2>1, StepKeeps DEF Steps
<1>3. CASE Fault /\ Loses(JobOf(i)) /\ UNCHANGED jobs
  <2>1. PICK status \in Statuses : Becomes(JobOf(i), status)
    BY <1>3, JobFacts
  <2>2. Moves(i, "done", status) /\ Agrees(i, "done", status)
    BY <1>1, <2>1 DEF Moves, Agrees
  <2> QED
    BY <1>1, <1>3, <2>2, StepKeeps DEF Steps
<1>4. CASE UNCHANGED <<jobs, lost, faults>>
  <2>1. PICK status \in Statuses : Becomes(JobOf(i), status)
    BY <1>4, JobFacts
  <2>2. Moves(i, "done", status) /\ Agrees(i, "done", status)
    BY <1>1, <2>1 DEF Moves, Agrees
  <2> QED
    BY <1>1, <1>4, <2>2, StepKeeps DEF Steps
<1> QED
  BY <1>2, <1>3, <1>4 DEF Cancelled

LEMMA FinishedKeeps ==
  ASSUME Ind, NEW i \in Runs, Finished(i)
  PROVE  Ind'
<1>1. /\ TypeOK /\ Tied /\ Single /\ Known /\ InSlots /\ Quiet /\ Kept /\ Once
      /\ runs[i].at = "done" /\ At(i, "gone") /\ scheduled' = [scheduled EXCEPT ![JobOf(i)] = NoRun]
      /\ jobs' = jobs /\ imports' = imports /\ phase' = phase /\ lost' = lost
      /\ retries' = retries /\ stops' = stops /\ faults' = faults
  BY DEF Ind, Finished, store, bounds
<1>2. /\ scheduled \in [1..MaxJobs -> Nat] /\ \A k \in Runs : JobOf(k) \in Jobs
      /\ Jobs \subseteq 1..MaxJobs
  BY <1>1, TypeFacts
<1>3. /\ runs' \in Seq(RunRecord) /\ Len(runs') = Len(runs) /\ Runs' = Runs
      /\ \A k \in Runs : JobOf(k)' = JobOf(k)
      /\ \A k \in Runs : runs'[k].at = IF k = i THEN "gone" ELSE runs[k].at
  BY <1>1, AtViews DEF Steps
<1>4. Jobs' = Jobs /\ Unfinished' = Unfinished
  BY <1>1 DEF Jobs, Unfinished
<1>5. TypeOK'
  BY <1>1, <1>2, <1>3, <1>4 DEF TypeOK, JobOf
<1>6. Tied'
  BY <1>1, <1>3 DEF Tied
<1>7. Single'
  BY <1>1, <1>3 DEF Single
<1>8. Known'
  BY <1>1, <1>2, <1>3 DEF Known
<1>9. InSlots'
  <2>1. Holders' = Holders
    BY <1>1, <1>3 DEF Holders, HoldsSlot
  <2> QED
    BY <1>1, <2>1 DEF InSlots
<1>10. Quiet'
  BY <1>1, <1>3 DEF Quiet, QuietWhileClosed, AllGone
<1>11. Kept'
  BY <1>1, <1>3, <1>4 DEF Kept
<1>12. Once'
  BY <1>1, <1>4 DEF Once
<1> QED
  BY <1>5, <1>6, <1>7, <1>8, <1>9, <1>10, <1>11, <1>12 DEF Ind

-----------------------------------------------------------------------------
(* Requests *)

\* A job that becomes queued, and that no task works on, gets a task.
Asked(j) ==
  /\ phase = "serving" /\ jobs'[j].status = "queued"
  /\ \A k \in Runs : JobOf(k) = j => ~Alive(k)
  /\ \A o \in Jobs : o # j => jobs'[o] = jobs[o]
  /\ Jobs' = Jobs \cup {j}
  /\ jobs' \in Seq(JobRecord) /\ Len(jobs') <= MaxJobs /\ j \in 1..MaxJobs
  /\ Schedule(j)
  /\ imports' = imports /\ phase' = phase /\ lost' = lost
  /\ retries' \in 0..MaxRetries /\ stops' \in 0..MaxStops /\ faults' \in 0..MaxFaults

LEMMA AskedKeeps ==
  ASSUME Ind, NEW j \in Nat, Asked(j)
  PROVE  Ind'
<1>1. TypeOK /\ Tied /\ Single /\ Known /\ InSlots /\ Quiet /\ Kept /\ Once
  BY DEF Ind
<1>2. /\ Len(runs) \in Nat /\ runs \in Seq(RunRecord) /\ Jobs \subseteq 1..MaxJobs
      /\ \A k \in Runs : runs[k] \in RunRecord /\ JobOf(k) \in Jobs
      /\ scheduled \in [1..MaxJobs -> Nat]
  BY <1>1, TypeFacts
<1> DEFINE new == [job |-> j, at |-> "waiting", child |-> TRUE]
<1> PICK next \in Nat : next = Len(runs) + 1
  BY <1>2
<1>3. new \in RunRecord
  BY DEF Asked, Steps
<1>4. runs' = Append(runs, new) /\ scheduled' = [scheduled EXCEPT ![j] = next]
  BY <1>1 DEF Asked, Schedule, Live, Known
<1>5. /\ runs' \in Seq(RunRecord) /\ Len(runs') = next /\ Runs' = Runs \cup {next} /\ next \notin Runs
      /\ \A k \in Runs : runs'[k] = runs[k]
      /\ runs'[next] = new
  <2>1. /\ runs' \in Seq(RunRecord) /\ Len(runs') = next
        /\ \A k \in 1..Len(runs) : runs'[k] = runs[k]
        /\ runs'[next] = new
    BY <1>2, <1>3, <1>4, AppendProperties
  <2> QED
    BY <1>2, <2>1 DEF Runs
<1>6. /\ JobOf(next)' = j /\ runs'[next].at = "waiting" /\ next \in Runs'
      /\ \A k \in Runs : JobOf(k)' = JobOf(k) /\ runs'[k].at = runs[k].at
  BY <1>5 DEF JobOf
<1> HIDE DEF new
<1>7. TypeOK'
  <2>1. \A k \in Runs' : runs'[k].job \in Jobs'
    BY <1>2, <1>5, <1>6 DEF Asked, JobOf
  <2>2. scheduled' \in [1..MaxJobs -> Nat]
    BY <1>2, <1>4
  <2> QED
    BY <1>1, <1>5, <2>1, <2>2 DEF TypeOK, Asked
<1>8. Tied'
  <2> SUFFICES ASSUME NEW k \in Runs'
               PROVE  /\ runs'[k].at \in Active => jobs'[JobOf(k)'].status = "running"
                      /\ runs'[k].at \in {"waiting", "held"} => jobs'[JobOf(k)'].status = "queued"
                      /\ runs'[k].at \in {"importing", "making", "imported"} => jobs'[JobOf(k)'].mode = "import"
                      /\ runs'[k].at = "making" => imports'[JobOf(k)'] = 0
                      /\ runs'[k].at = "imported" => imports'[JobOf(k)'] > 0
    BY DEF Tied
  <2>1. CASE k = next
    BY <1>6, <2>1 DEF Asked
  <2>2. CASE k \in Runs /\ JobOf(k) = j
    BY <1>6, <2>2 DEF Asked
  <2>3. CASE k \in Runs /\ JobOf(k) # j
    <3>1. jobs'[JobOf(k)] = jobs[JobOf(k)]
      BY <1>2, <2>3 DEF Asked
    <3> QED
      BY <1>1, <1>6, <2>3, <3>1 DEF Tied, Asked
  <2> QED
    BY <1>5, <2>1, <2>2, <2>3
<1>9. Single'
  <2> SUFFICES ASSUME NEW i \in Runs', NEW k \in Runs', JobOf(i)' = JobOf(k)', Alive(i)', Alive(k)'
               PROVE  i = k
    BY DEF Single
  <2> QED
    BY <1>1, <1>5, <1>6 DEF Single, Asked
<1>10. Known'
  BY <1>1, <1>2, <1>4, <1>5, <1>6 DEF Known
<1>11. InSlots'
  <2>1. Holders' = Holders
    BY <1>5, <1>6 DEF Holders, HoldsSlot
  <2> QED
    BY <1>1, <2>1 DEF InSlots
<1>12. Quiet'
  BY DEF Quiet, QuietWhileClosed, Asked
<1>13. Kept'
  <2> SUFFICES ASSUME NEW o \in Jobs', o \in Unfinished', o \notin lost
               PROVE  \E k \in Runs' : JobOf(k)' = o /\ Alive(k)'
    BY DEF Kept, Unfinished, Asked
  <2>1. CASE o = j
    BY <1>6, <2>1
  <2>2. CASE o # j
    <3>1. o \in Unfinished
      BY <2>2 DEF Unfinished, Asked
    <3>2. PICK k \in Runs : JobOf(k) = o /\ Alive(k)
      BY <1>1, <3>1 DEF Kept, Asked
    <3> QED
      BY <1>5, <1>6, <3>2
  <2> QED
    BY <2>1, <2>2
<1>14. Once'
  BY <1>1 DEF Once, Asked
<1> QED
  BY <1>7, <1>8, <1>9, <1>10, <1>11, <1>12, <1>13, <1>14 DEF Ind

LEMMA PostKeeps ==
  ASSUME Ind, NEW key \in Keys \cup {NoKey}, NEW mode \in Modes, Post(key, mode)
  PROVE  Ind'
<1> DEFINE j == Len(jobs) + 1
           new == [key |-> key, mode |-> mode, status |-> "queued"]
<1>1. /\ TypeOK /\ Len(jobs) \in Nat /\ jobs \in Seq(JobRecord) /\ MaxJobs \in Nat
      /\ \A k \in Runs : JobOf(k) \in Jobs
  BY TypeFacts DEF Ind
<1>2. new \in JobRecord
  OBVIOUS
<1>3. /\ phase = "serving" /\ Len(jobs) < MaxJobs /\ jobs' = Append(jobs, new) /\ Schedule(j)
      /\ imports' = imports /\ phase' = phase /\ lost' = lost
      /\ retries' = retries /\ stops' = stops /\ faults' = faults
  BY DEF Post, bounds
<1> HIDE DEF new
<1>4. /\ jobs' \in Seq(JobRecord) /\ Len(jobs') = j /\ jobs'[j] = new
      /\ \A o \in 1..Len(jobs) : jobs'[o] = jobs[o]
  BY <1>1, <1>2, <1>3, AppendProperties
<1>5. Jobs' = Jobs \cup {j} /\ j \notin Jobs /\ j \in 1..MaxJobs
  BY <1>1, <1>3, <1>4 DEF Jobs
<1>6. Asked(j)
  <2>1. \A o \in Jobs : jobs'[o] = jobs[o]
    BY <1>4 DEF Jobs
  <2>2. jobs'[j].status = "queued"
    BY <1>4 DEF new
  <2>3. retries \in 0..MaxRetries /\ stops \in 0..MaxStops /\ faults \in 0..MaxFaults
    BY <1>1 DEF TypeOK
  <2>4. Len(jobs') <= MaxJobs
    BY <1>1, <1>3, <1>4
  <2>5. \A k \in Runs : JobOf(k) # j
    BY <1>1, <1>5
  <2> HIDE DEF j
  <2> QED
    BY <1>3, <1>4, <1>5, <2>1, <2>2, <2>3, <2>4, <2>5 DEF Asked
<1>7. j \in Nat
  BY <1>1
<1> HIDE DEF j
<1>8. \A o \in Nat : o = j => Asked(o)
  BY <1>6
<1> QED
  BY <1>7, <1>8, AskedKeeps

LEMMA RetryKeeps ==
  ASSUME Ind, NEW j \in Jobs, Retry(j)
  PROVE  Ind'
<1>1. /\ TypeOK /\ Tied /\ Jobs \subseteq 1..MaxJobs /\ Len(jobs) <= MaxJobs
      /\ retries \in 0..MaxRetries /\ stops \in 0..MaxStops /\ faults \in 0..MaxFaults
      /\ jobs \in Seq(JobRecord) /\ \A o \in Jobs : jobs[o] \in JobRecord
      /\ \A k \in Runs : runs[k] \in RunRecord
  BY TypeFacts DEF Ind, TypeOK
<1>2. /\ phase = "serving" /\ retries < MaxRetries /\ jobs[j].status = "failed"
      /\ Becomes(j, "queued") /\ Schedule(j) /\ retries' = retries + 1
      /\ imports' = imports /\ phase' = phase /\ lost' = lost /\ stops' = stops /\ faults' = faults
  BY DEF Retry
<1>3. /\ jobs' \in Seq(JobRecord) /\ Len(jobs') = Len(jobs) /\ Jobs' = Jobs
      /\ jobs'[j].status = "queued"
  BY <1>1, <1>2, BecomesViews
<1>4. \A o \in Jobs : o # j => jobs'[o] = jobs[o]
  BY <1>1, <1>2 DEF Becomes, Jobs
<1>5. \A k \in Runs : JobOf(k) = j => ~Alive(k)
  BY <1>1, <1>2 DEF Tied, Steps
<1>6. retries' \in 0..MaxRetries
  BY <1>1, <1>2, LinkAssumption
<1>7. Asked(j) /\ j \in Nat
  BY <1>1, <1>2, <1>3, <1>4, <1>5, <1>6 DEF Asked
<1> QED
  BY <1>7, AskedKeeps

-----------------------------------------------------------------------------
(* The process *)

\* A turn of the process that leaves the jobs and the tasks alone.
Frame ==
  /\ jobs' = jobs /\ imports' = imports /\ runs' = runs /\ scheduled' = scheduled /\ lost' = lost
  /\ phase' \in Phases
  /\ retries' \in 0..MaxRetries /\ stops' \in 0..MaxStops /\ faults' \in 0..MaxFaults

LEMMA FrameKeeps ==
  ASSUME Ind, Frame,
         phase' \in {"quiet", "stopped", "reopening"} => \A i \in Runs : runs[i].at \notin Active,
         phase' \in {"stopped", "down"} => AllGone,
         phase' \in {"serving", "closing", "reopening"} => phase \in {"serving", "closing", "reopening"}
  PROVE  Ind'
<1>1. /\ TypeOK /\ Tied /\ Single /\ Known /\ InSlots /\ Kept /\ Once
      /\ Runs' = Runs /\ Jobs' = Jobs /\ Unfinished' = Unfinished /\ Holders' = Holders
      /\ \A i \in Runs : JobOf(i)' = JobOf(i)
  BY DEF Ind, Frame, Runs, Jobs, Unfinished, Holders, HoldsSlot, JobOf
<1>2. TypeOK'
  BY <1>1 DEF TypeOK, Frame
<1>3. Tied' /\ Single' /\ Known'
  BY <1>1 DEF Tied, Single, Known, Frame
<1>4. InSlots' /\ Once'
  BY <1>1 DEF InSlots, Once, Frame
<1>5. Quiet'
  BY <1>1 DEF Quiet, QuietWhileClosed, AllGone, Frame
<1>6. Kept'
  BY <1>1 DEF Kept, Frame
<1> QED
  BY <1>2, <1>3, <1>4, <1>5, <1>6 DEF Ind

LEMMA TurnsFrame ==
  ASSUME Ind, NEW from \in Phases, NEW to \in Phases, Turns(from, to)
  PROVE  Frame /\ phase = from /\ phase' = to
BY DEF Ind, TypeOK, Turns, Frame, store, bounds

LEMMA StopsFrame ==
  ASSUME Ind, NEW to \in Phases, Stops({"serving"}, to)
  PROVE  Frame /\ phase = "serving" /\ phase' = to
<1>1. stops \in 0..MaxStops /\ stops < MaxStops /\ stops' = stops + 1
  BY DEF Ind, TypeOK, Stops
<1>2. stops' \in 0..MaxStops
  BY <1>1, LinkAssumption
<1> QED
  BY <1>2 DEF Ind, TypeOK, Stops, Frame, store

LEMMA QuietFacts ==
  ASSUME Ind
  PROVE  /\ phase \in Phases
         /\ phase \in {"quiet", "stopped", "reopening"} => \A i \in Runs : runs[i].at \notin Active
         /\ AllGone => \A i \in Runs : runs[i].at \notin Active
BY DEF Ind, TypeOK, Quiet, QuietWhileClosed, AllGone

LEMMA PhaseKeeps ==
  ASSUME Ind, Close \/ Busy \/ Drained \/ Quiesced \/ Reopen \/ Stop \/ Ended
  PROVE  Ind'
<1>1. CASE Close
  BY <1>1, StopsFrame, FrameKeeps DEF Close
<1>2. CASE Busy
  BY <1>2, TurnsFrame, FrameKeeps DEF Busy
<1>3. CASE Drained
  BY <1>3, TurnsFrame, FrameKeeps DEF Drained
<1>4. CASE Quiesced
  BY <1>4, TurnsFrame, FrameKeeps, QuietFacts DEF Quiesced
<1>5. CASE Reopen
  BY <1>5, TurnsFrame, FrameKeeps DEF Reopen
<1>6. CASE Stop
  BY <1>6, StopsFrame, FrameKeeps DEF Stop
<1>7. CASE Ended
  BY <1>7, TurnsFrame, FrameKeeps DEF Ended
<1> QED
  BY <1>1, <1>2, <1>3, <1>4, <1>5, <1>6, <1>7

LEMMA CrashKeeps ==
  ASSUME Ind, Crash
  PROVE  Ind'
<1>1. TypeOK /\ Once /\ stops \in 0..MaxStops /\ MaxJobs \in Nat
  BY LinkAssumption DEF Ind, TypeOK
<1>2. /\ jobs' = jobs /\ imports' = imports /\ lost' = lost /\ phase' = "down"
      /\ runs' = <<>> /\ scheduled' = [j \in 1..MaxJobs |-> NoRun]
      /\ retries' = retries /\ faults' = faults /\ stops < MaxStops /\ stops' = stops + 1
  BY DEF Crash, store
<1>3. Len(runs') = 0 /\ runs' \in Seq(RunRecord) /\ Runs' = {} /\ Jobs' = Jobs
  <2>1. <<>> \in Seq(RunRecord) /\ Len(<<>>) = 0
    BY EmptySeq
  <2> QED
    BY <1>2, <2>1 DEF Runs, Jobs
<1>4. stops' \in 0..MaxStops
  BY <1>1, <1>2, LinkAssumption
<1>5. scheduled' \in [1..MaxJobs -> Nat]
  BY <1>2
<1>6. TypeOK'
  BY <1>1, <1>2, <1>3, <1>4, <1>5 DEF TypeOK
<1>7. Tied' /\ Single' /\ Quiet' /\ Kept'
  BY <1>2, <1>3 DEF Tied, Single, Quiet, QuietWhileClosed, AllGone, Kept
<1>8. Known'
  BY <1>2, <1>3 DEF Known
<1>9. InSlots'
  <2>1. Holders' = {}
    BY <1>3 DEF Holders
  <2> QED
    BY <2>1, FS_EmptySet, LinkAssumption DEF InSlots
<1>10. Once'
  BY <1>1, <1>2, <1>3 DEF Once
<1> QED
  BY <1>6, <1>7, <1>8, <1>9, <1>10 DEF Ind

\* The tasks made from the rows: one for each job that is not finished.
LEMMA RecoveredRuns ==
  ASSUME TypeOK, Recovered
  PROVE  /\ runs' \in Seq(RunRecord) /\ Runs' \subseteq Nat
         /\ \A i \in Runs' : runs'[i].job \in Recoverable /\ runs'[i].at = "waiting"
         /\ \A i, k \in Runs' : runs'[i].job = runs'[k].job => i = k
         /\ \A j \in Recoverable : \E i \in Runs' : runs'[i].job = j
         /\ scheduled' \in [1..MaxJobs -> Nat]
         /\ \A j \in 1..MaxJobs : scheduled'[j] # NoRun => scheduled'[j] \in Runs' /\ runs'[scheduled'[j]].job = j
<1>1. /\ Len(jobs) \in Nat /\ Jobs \subseteq 1..MaxJobs /\ Recoverable \subseteq Jobs
      /\ IsFiniteSet(Jobs)
  <2>1. Len(jobs) \in Nat /\ Jobs \subseteq 1..MaxJobs
    BY TypeFacts
  <2>2. Len(jobs) \in Int /\ 1 \in Int
    BY <2>1
  <2>3. IsFiniteSet(1..Len(jobs))
    BY <2>2, FS_Interval
  <2> QED
    BY <2>1, <2>3 DEF Recoverable, Jobs
<1> PICK n \in Nat : n = Cardinality(Recoverable)
  BY <1>1, FS_Subset, FS_CardinalityType
<1>2. PICK order \in [1..n -> Recoverable] :
        /\ \A i, k \in DOMAIN order : i < k => order[i] < order[k]
        /\ \A j \in Recoverable : \E i \in DOMAIN order : order[i] = j
        /\ runs' = [i \in DOMAIN order |-> [job |-> order[i], at |-> "waiting", child |-> FALSE]]
        /\ scheduled' = [j \in 1..MaxJobs |->
                           IF j \in Recoverable THEN CHOOSE i \in DOMAIN order : order[i] = j ELSE NoRun]
  BY DEF Recovered
<1>3. DOMAIN order = 1..n /\ \A i \in 1..n : order[i] \in Recoverable /\ order[i] \in Nat
  <2>1. Recoverable \subseteq Nat
    BY <1>1, LinkAssumption
  <2> QED
    BY <1>2, <2>1
<1>4. \A i, k \in 1..n : order[i] = order[k] => i = k
  <2> SUFFICES ASSUME NEW i \in 1..n, NEW k \in 1..n, order[i] = order[k], i # k PROVE FALSE
    OBVIOUS
  <2>1. i < k \/ k < i
    OBVIOUS
  <2> QED
    BY <1>2, <1>3, <2>1
<1>5. \A i \in 1..n : runs'[i] = [job |-> order[i], at |-> "waiting", child |-> FALSE] /\ runs'[i] \in RunRecord
  BY <1>1, <1>2, <1>3 DEF Steps
<1>6. runs' \in [1..n -> RunRecord]
  BY <1>2, <1>3, <1>5
<1>7. runs' \in Seq(RunRecord) /\ Len(runs') = n /\ Runs' = 1..n
  <2> HIDE DEF RunRecord
  <2>1. runs' \in Seq(RunRecord) /\ Len(runs') = n
    BY <1>6, IsSequence
  <2> QED
    BY <2>1 DEF Runs
<1>8. \A j \in Recoverable : /\ (CHOOSE i \in 1..n : order[i] = j) \in 1..n
                             /\ order[CHOOSE i \in 1..n : order[i] = j] = j
  BY <1>2, <1>3
<1>9. \A j \in 1..MaxJobs : scheduled'[j] \in Nat /\ (scheduled'[j] # NoRun => scheduled'[j] \in 1..n /\ order[scheduled'[j]] = j)
  BY <1>2, <1>3, <1>8
<1>10. scheduled' \in [1..MaxJobs -> Nat]
  BY <1>2, <1>9
<1> QED
  BY <1>2, <1>3, <1>4, <1>5, <1>7, <1>9, <1>10

LEMMA RecoveredKeeps ==
  ASSUME Ind, Recovered, phase' \in {"serving", "reopening"}
  PROVE  Ind'
<1>1. /\ TypeOK /\ Once /\ jobs \in Seq(JobRecord) /\ Len(jobs) \in Nat /\ \A j \in Jobs : jobs[j] \in JobRecord
      /\ imports' = imports /\ lost' = {} /\ retries' = retries /\ stops' = stops /\ faults' = faults
  BY TypeFacts DEF Ind, Recovered, bounds
<1>2. /\ runs' \in Seq(RunRecord) /\ Runs' \subseteq Nat
      /\ \A i \in Runs' : runs'[i].job \in Recoverable /\ runs'[i].at = "waiting"
      /\ \A i, k \in Runs' : runs'[i].job = runs'[k].job => i = k
      /\ \A j \in Recoverable : \E i \in Runs' : runs'[i].job = j
      /\ scheduled' \in [1..MaxJobs -> Nat]
      /\ \A j \in 1..MaxJobs : scheduled'[j] # NoRun => scheduled'[j] \in Runs' /\ runs'[scheduled'[j]].job = j
  BY <1>1, RecoveredRuns
<1>3. /\ jobs' = [j \in Jobs |-> IF j \in Recoverable THEN [jobs[j] EXCEPT !.status = "queued"] ELSE jobs[j]]
      /\ \A j \in Jobs : jobs'[j] \in JobRecord
      /\ \A j \in Jobs : jobs'[j].status \in {"queued", "running"} => j \in Recoverable
      /\ \A j \in Recoverable : jobs'[j].status = "queued"
  <2>1. jobs' = [j \in Jobs |-> IF j \in Recoverable THEN [jobs[j] EXCEPT !.status = "queued"] ELSE jobs[j]]
    BY DEF Recovered
  <2>2. \A j \in Jobs : [jobs[j] EXCEPT !.status = "queued"] \in JobRecord
                        /\ [jobs[j] EXCEPT !.status = "queued"].status = "queued"
    BY <1>1
  <2>3. \A j \in Jobs : jobs'[j] = IF j \in Recoverable THEN [jobs[j] EXCEPT !.status = "queued"] ELSE jobs[j]
    BY <2>1
  <2>4. Recoverable \subseteq Jobs /\ \A j \in Jobs : j \notin Recoverable => jobs[j].status \notin {"queued", "running"}
    BY DEF Recoverable
  <2> QED
    BY <1>1, <2>1, <2>2, <2>3, <2>4
<1>4. jobs' \in Seq(JobRecord) /\ Len(jobs') = Len(jobs) /\ Jobs' = Jobs
  <2>1. jobs' \in [1..Len(jobs) -> JobRecord]
    BY <1>3 DEF Jobs
  <2>2. jobs' \in Seq(JobRecord) /\ Len(jobs') = Len(jobs)
    BY <1>1, <2>1, IsSequence
  <2> QED
    BY <2>2 DEF Jobs
<1>5. Recoverable \subseteq Jobs
  BY DEF Recoverable
<1>6. TypeOK'
  BY <1>1, <1>2, <1>4, <1>5 DEF TypeOK
<1>7. Tied'
  BY <1>2, <1>3 DEF Tied, JobOf
<1>8. Single' /\ Known'
  BY <1>2 DEF Single, Known, JobOf
<1>9. InSlots'
  <2>1. Holders' = {}
    BY <1>2 DEF Holders, HoldsSlot
  <2> QED
    BY <2>1, FS_EmptySet, LinkAssumption DEF InSlots
<1>10. Quiet'
  BY <1>2 DEF Quiet, QuietWhileClosed
<1>11. Kept'
  <2> SUFFICES ASSUME NEW j \in Jobs', jobs'[j].status \in {"queued", "running"}
               PROVE  \E i \in Runs' : JobOf(i)' = j /\ Alive(i)'
    BY DEF Kept, Unfinished
  <2>1. PICK i \in Runs' : runs'[i].job = j
    BY <1>2, <1>3, <1>4
  <2> QED
    BY <1>2, <2>1 DEF JobOf
<1>12. Once'
  BY <1>1, <1>4 DEF Once
<1> QED
  BY <1>6, <1>7, <1>8, <1>9, <1>10, <1>11, <1>12 DEF Ind

-----------------------------------------------------------------------------
(* The invariant *)

LEMMA InitInd == Init => Ind
<1> SUFFICES ASSUME Init PROVE Ind
  OBVIOUS
<1>1. /\ <<>> \in Seq(JobRecord) /\ <<>> \in Seq(RunRecord) /\ Len(<<>>) = 0 /\ MaxJobs \in Nat
  BY EmptySeq, LinkAssumption
<1>2. /\ jobs = <<>> /\ runs = <<>> /\ Runs = {} /\ Jobs = {} /\ phase = "serving"
      /\ imports = [j \in 1..MaxJobs |-> 0] /\ scheduled = [j \in 1..MaxJobs |-> NoRun]
  BY <1>1 DEF Init, Runs, Jobs
<1>3. TypeOK
  BY <1>1, <1>2, LinkAssumption DEF Init, TypeOK
<1>4. Tied /\ Single /\ Quiet /\ Kept
  BY <1>2 DEF Tied, Single, Quiet, QuietWhileClosed, AllGone, Kept, Unfinished
<1>5. Known /\ Once
  BY <1>2 DEF Known, Once
<1>6. InSlots
  <2>1. Holders = {}
    BY <1>2 DEF Holders
  <2> QED
    BY <2>1, FS_EmptySet, LinkAssumption DEF InSlots
<1> QED
  BY <1>3, <1>4, <1>5, <1>6 DEF Ind

LEMMA StutterInd == Ind /\ UNCHANGED vars => Ind'
<1> SUFFICES ASSUME Ind, UNCHANGED vars PROVE Ind'
  OBVIOUS
<1>1. Frame /\ phase' = phase
  BY DEF Ind, TypeOK, Frame, vars, store, bounds
<1> QED
  BY <1>1, FrameKeeps DEF Ind, Quiet, QuietWhileClosed

LEMMA NextInd == Ind /\ [Next]_vars => Ind'
<1> SUFFICES ASSUME Ind, [Next]_vars PROVE Ind'
  OBVIOUS
<1>1. CASE \E key \in Keys \cup {NoKey}, mode \in Modes : Post(key, mode)
  BY <1>1, PostKeeps
<1>2. CASE \E j \in Jobs : Retry(j)
  BY <1>2, RetryKeeps
<1>3. ASSUME NEW i \in Runs, Step(i) PROVE Ind'
  BY <1>3, AcquireKeeps, EnterKeeps, PreviewedKeeps, CheckBookKeeps, SaveBookKeeps, CompleteKeeps, FailsKeeps,
     CancelledKeeps, FinishedKeeps DEF Step
<1>4. CASE Process
  <2>1. CASE Close \/ Busy \/ Drained \/ Quiesced \/ Reopen \/ Stop \/ Ended
    BY <2>1, PhaseKeeps
  <2>2. CASE Reload
    BY <2>2, RecoveredKeeps DEF Reload
  <2>3. CASE Crash
    BY <2>3, CrashKeeps
  <2>4. CASE Start
    BY <2>4, RecoveredKeeps DEF Start
  <2> QED
    BY <1>4, <2>1, <2>2, <2>3, <2>4 DEF Process
<1>5. CASE UNCHANGED vars
  BY <1>5, StutterInd
<1> QED
  BY <1>1, <1>2, <1>3, <1>4, <1>5 DEF Next

\* Rows, tasks and the gate agree, whatever requests, stops and faults there were.
THEOREM LinkInvariant == Spec => []Ind
<1> QED
  BY InitInd, NextInd, PTL DEF Spec

\* A job that is not finished has a task for as long as requests are served.
THEOREM JobsAreNotForgotten == Spec => []NotForgotten
<1>1. Ind => NotForgotten
  BY DEF Ind, Kept, NotForgotten
<1> QED
  BY <1>1, LinkInvariant, PTL

\* No two tasks work on one job, and the semaphore's slots are never exceeded.
THEOREM JobsHaveOneTask == Spec => []OneTaskEach
<1>1. Ind => OneTaskEach
  <2> SUFFICES ASSUME Ind PROVE OneTaskEach
    OBVIOUS
  <2> DEFINE working == {i \in Runs : runs[i].at \in Active}
  <2>1. working \subseteq Holders
    BY DEF Holders, HoldsSlot
  <2>2. IsFiniteSet(Holders)
    <3>1. Len(runs) \in Int /\ 1 \in Int
      BY TypeFacts DEF Ind
    <3> QED
      BY <3>1, FS_Interval, FS_Subset DEF Holders, Runs
  <2>3. /\ Cardinality(working) <= Cardinality(Holders)
        /\ Cardinality(working) \in Nat /\ Cardinality(Holders) \in Nat
    BY <2>1, <2>2, FS_Subset, FS_CardinalityType
  <2>4. Cardinality(working) <= Slots
    BY <2>3, LinkAssumption DEF Ind, InSlots
  <2>5. \A i, k \in Runs :
          JobOf(i) = JobOf(k) /\ {runs[i].at, runs[k].at} \cap {"done", "gone"} = {} => i = k
    BY DEF Ind, Single
  <2> QED
    BY <2>4, <2>5 DEF OneTaskEach
<1> QED
  BY <1>1, LinkInvariant, PTL

\* No import writes while maintenance has the files.
THEOREM ImportsAreQuiet == Spec => []QuietWhileClosed
<1>1. Ind => QuietWhileClosed
  BY DEF Ind, Quiet
<1> QED
  BY <1>1, LinkInvariant, PTL

\* Both at once, as the run checks them.
THEOREM ImportsStayInOrder == Spec => []ImportsInOrder
  BY JobsHaveOneTask, ImportsAreQuiet, PTL DEF ImportsInOrder

\* A job's book is made and saved once, whatever crash comes before the job
\* says so, and although the task looks for the book before its awaits and
\* saves it after them: it is the only task of the job (Single), so what it
\* saw still holds (Tied).
THEOREM BooksAreMadeOnce == Spec => []MadeOnce
<1>1. Ind => MadeOnce
  BY TypeFacts DEF Ind, Once, MadeOnce
<1> QED
  BY <1>1, LinkInvariant, PTL

-----------------------------------------------------------------------------
(* The promise to clients *)

Open(j) == jobs[j].status \in {"queued", "running"}

Shown(status) == IF status \in {"queued", "running"} THEN "open" ELSE status

\* What clients can tell of a job, and that nothing else of the tables shows.
LEMMA WorkFacts ==
  ASSUME Ind
  PROVE  /\ Len(jobs) \in Nat /\ Len(Work) = Len(jobs) /\ DOMAIN Work = Jobs /\ Jobs = 1..Len(Work)
         /\ \A j \in Jobs : /\ Work[j] = [key |-> jobs[j].key, mode |-> jobs[j].mode,
                                            state |-> IF Open(j) THEN "open" ELSE jobs[j].status]
                             /\ Work[j] \in Promise!Records
<1>1. Len(jobs) \in Nat /\ \A j \in Jobs : jobs[j] \in JobRecord
  BY TypeFacts DEF Ind
<1>2. \A j \in Jobs : j \in Unfinished <=> Open(j)
  BY DEF Unfinished, Open
<1>3. DOMAIN Work = Jobs
      /\ \A j \in Jobs : Work[j] = [key |-> jobs[j].key, mode |-> jobs[j].mode,
                                     state |-> IF Open(j) THEN "open" ELSE jobs[j].status]
  BY <1>2 DEF Work
<1>4. \A j \in Jobs : Work[j] \in Promise!Records
  BY <1>1, <1>3 DEF Open, Promise!Records, Promise!Modes
<1>5. Work \in [1..Len(jobs) -> Promise!Records]
  BY <1>3, <1>4 DEF Work, Jobs
<1>6. Len(Work) = Len(jobs)
  BY <1>1, <1>5, IsSequence
<1> QED
  BY <1>1, <1>3, <1>4, <1>6 DEF Jobs

\* A job that stays open, or as it was, shows no change.
LEMMA WorkStays ==
  ASSUME Ind, Ind', Jobs' = Jobs,
         \A o \in Jobs : /\ jobs'[o].key = jobs[o].key /\ jobs'[o].mode = jobs[o].mode
                         /\ Shown(jobs'[o].status) = Shown(jobs[o].status)
  PROVE  Work' = Work
<1>1. \A j \in Jobs : Work'[j] = Work[j]
  <2>1. \A j \in Jobs : Work'[j] = [key |-> jobs'[j].key, mode |-> jobs'[j].mode,
                                    state |-> IF Open(j)' THEN "open" ELSE jobs'[j].status]
    BY DEF Work, Unfinished, Open
  <2> QED
    BY <2>1, WorkFacts DEF Open, Shown
<1> QED
  BY <1>1 DEF Work

\* A job whose status changes shows that, and nothing else changes.
LEMMA WorkBecomes ==
  ASSUME Ind, Ind', NEW j \in Jobs, NEW status \in Statuses, Becomes(j, status), imports' = imports
  PROVE  Promise!Becomes(j, Shown(status))
<1>1. TypeOK
  BY DEF Ind
<1>2. /\ Jobs' = Jobs
      /\ \A o \in Jobs : jobs'[o].key = jobs[o].key /\ jobs'[o].mode = jobs[o].mode
      /\ \A o \in Jobs : jobs'[o].status = IF o = j THEN status ELSE jobs[o].status
  BY <1>1, BecomesViews
<1>3. \A o \in Jobs : Work'[o] = [key |-> jobs'[o].key, mode |-> jobs'[o].mode,
                                  state |-> IF Open(o)' THEN "open" ELSE jobs'[o].status]
  BY <1>2 DEF Work, Unfinished, Open
<1>4. DOMAIN Work = Jobs /\ DOMAIN Work' = Jobs
  BY <1>2 DEF Work
<1>5. \A o \in Jobs : Work'[o] = IF o = j THEN [Work[o] EXCEPT !.state = Shown(status)] ELSE Work[o]
  <2>1. SUFFICES ASSUME NEW o \in Jobs
                 PROVE  Work'[o] = IF o = j THEN [Work[o] EXCEPT !.state = Shown(status)] ELSE Work[o]
    OBVIOUS
  <2>2. Work[o] = [key |-> jobs[o].key, mode |-> jobs[o].mode,
                   state |-> IF Open(o) THEN "open" ELSE jobs[o].status]
    BY WorkFacts
  <2>3. Work'[o] = [key |-> jobs[o].key, mode |-> jobs[o].mode,
                    state |-> IF o = j THEN Shown(status) ELSE Shown(jobs[o].status)]
    BY <1>2, <1>3 DEF Open, Shown
  <2> QED
    BY <2>2, <2>3 DEF Open, Shown
<1>6. Work' = [Work EXCEPT ![j].state = Shown(status)]
  <2>1. Work' = [o \in Jobs |-> Work'[o]]
    BY <1>2 DEF Work
  <2>2. [Work EXCEPT ![j].state = Shown(status)]
          = [o \in Jobs |-> IF o = j THEN [Work[o] EXCEPT !.state = Shown(status)] ELSE Work[o]]
    BY <1>4
  <2> QED
    BY <1>5, <2>1, <2>2
<1>7. Books' = Books
  BY <1>2 DEF Books
<1> QED
  BY <1>6, <1>7 DEF Promise!Becomes

\* The step of a task shows its end, or nothing.
LEMMA TaskShows ==
  ASSUME Ind, Ind', NEW i \in Runs, NEW status \in Statuses, Becomes(JobOf(i), status), imports' = imports,
         \/ status \in {"queued", "running"} /\ Open(JobOf(i))
         \/ jobs' = jobs
         \/ status = "failed" /\ Open(JobOf(i))
         \/ status = "completed" /\ Open(JobOf(i)) /\ (jobs[JobOf(i)].mode = "import" => imports[JobOf(i)] > 0)
  PROVE  [Promise!Next]_<<Work, Books>>
<1> PICK j \in Jobs : j = JobOf(i)
  BY JobFacts
<1>1. /\ Becomes(j, status) /\ Jobs' = Jobs /\ TypeOK
      /\ \A o \in Jobs : jobs'[o].key = jobs[o].key /\ jobs'[o].mode = jobs[o].mode
      /\ \A o \in Jobs : jobs'[o].status = IF o = j THEN status ELSE jobs[o].status
  BY BecomesViews DEF Ind
<1>2. Books' = Books
  BY <1>1 DEF Books
<1>3. j \in 1..Len(Work) /\ Work[j].mode = jobs[j].mode /\ (Open(j) => Work[j].state = "open")
  BY WorkFacts
<1>4. CASE status \in {"queued", "running"} /\ Open(j)
  <2>1. Work' = Work
    BY <1>1, <1>4, WorkStays DEF Open, Shown
  <2> QED
    BY <1>2, <2>1
<1>5. CASE jobs' = jobs
  <2>1. Work' = Work
    BY <1>1, <1>5, WorkStays
  <2> QED
    BY <1>2, <2>1
<1>6. CASE status = "failed" /\ Open(j)
  <2>1. Promise!Becomes(j, "failed")
    BY <1>1, <1>6, WorkBecomes DEF Shown
  <2>2. Promise!Fail(j)
    BY <1>3, <1>6, <2>1 DEF Promise!Fail
  <2> QED
    BY <1>3, <2>2 DEF Promise!Next
<1>7. CASE status = "completed" /\ Open(j) /\ (jobs[j].mode = "import" => imports[j] > 0)
  <2>1. Promise!Becomes(j, "completed")
    BY <1>1, <1>7, WorkBecomes DEF Shown
  <2>2. Promise!Complete(j)
    BY <1>3, <1>7, <2>1 DEF Promise!Complete, Books
  <2> QED
    BY <1>3, <2>2 DEF Promise!Next
<1> QED
  BY <1>4, <1>5, <1>6, <1>7

LEMMA StepShows ==
  ASSUME Ind, Ind', NEW i \in Runs, Step(i)
  PROVE  [Promise!Next]_<<Work, Books>>
<1>1. /\ runs[i].at \in Active => Open(JobOf(i))
      /\ runs[i].at \in {"waiting", "held"} => Open(JobOf(i))
      /\ jobs' = jobs => \E status \in Statuses : Becomes(JobOf(i), status)
      /\ JobOf(i) \in Jobs
  BY JobFacts DEF Open
<1>2. ASSUME jobs' = jobs, imports' = imports
      PROVE  [Promise!Next]_<<Work, Books>>
  <2>1. PICK status \in Statuses : Becomes(JobOf(i), status)
    BY <1>1, <1>2
  <2> QED
    BY <1>2, <2>1, TaskShows
<1>3. ASSUME NEW status \in {"queued", "running", "failed"}, Becomes(JobOf(i), status), imports' = imports,
             runs[i].at \in Active \cup {"waiting", "held"}
      PROVE  [Promise!Next]_<<Work, Books>>
  <2>1. Open(JobOf(i)) /\ status \in Statuses
    BY <1>1, <1>3
  <2> QED
    BY <1>3, <2>1, TaskShows
<1>4. ASSUME Becomes(JobOf(i), "completed"), imports' = imports, runs[i].at \in Active,
             jobs[JobOf(i)].mode = "import" => imports[JobOf(i)] > 0
      PROVE  [Promise!Next]_<<Work, Books>>
  <2>1. Open(JobOf(i)) /\ "completed" \in Statuses
    BY <1>1, <1>4
  <2> QED
    BY <1>4, <2>1, TaskShows
<1>5. CASE Acquire(i)
  BY <1>2, <1>3, <1>5 DEF Acquire, Begins
<1>6. CASE Enter(i)
  BY <1>2, <1>3, <1>6 DEF Enter, Begins
<1>7. CASE Previewed(i)
  BY <1>2, <1>4, <1>7 DEF Previewed
<1>8. CASE CheckBook(i)
  BY <1>2, <1>8 DEF CheckBook, store
<1>13. CASE SaveBook(i)
  <2>1. PICK j \in Jobs : j = JobOf(i)
    BY <1>1
  <2>2. /\ runs[i].at = "making" /\ jobs' = jobs
        /\ imports' = [imports EXCEPT ![j] = @ + 1]
    BY <1>13, <2>1 DEF SaveBook
  <2>3. imports \in [1..MaxJobs -> Nat] /\ Jobs \subseteq 1..MaxJobs /\ imports[j] = 0
    BY <2>1, <2>2, TypeFacts, JobFacts DEF Ind
  <2>4. Jobs' = Jobs /\ Work' = Work
    BY <2>2, WorkStays DEF Jobs
  <2>5. j \in 1..Len(Work) /\ Work[j].state = "open" /\ Work[j].mode = "import"
    BY <1>1, <2>1, <2>2, WorkFacts, JobFacts
  <2>6. Books' = Books \cup {j} /\ j \notin Books
    BY <2>1, <2>2, <2>3, <2>4 DEF Books
  <2>7. Promise!Make(j)
    BY <2>4, <2>5, <2>6 DEF Promise!Make
  <2> QED
    BY <2>5, <2>7 DEF Promise!Next
<1>9. CASE Complete(i)
  <2>1. imports[JobOf(i)] > 0
    BY <1>9, JobFacts DEF Complete
  <2> QED
    BY <1>4, <1>9, <2>1 DEF Complete
<1>10. CASE Fails(i)
  BY <1>2, <1>3, <1>10 DEF Fails, Running
<1>11. CASE Cancelled(i)
  BY <1>2, <1>3, <1>11 DEF Cancelled
<1>12. CASE Finished(i)
  BY <1>2, <1>12 DEF Finished, store
<1> QED
  BY <1>5, <1>6, <1>7, <1>8, <1>9, <1>10, <1>11, <1>12, <1>13 DEF Step

LEMMA PostShows ==
  ASSUME Ind, Ind', NEW key \in Keys \cup {NoKey}, NEW mode \in Modes, Post(key, mode)
  PROVE  Promise!Submit(key, mode)
<1> PICK n \in Nat : n = Len(jobs)
  BY WorkFacts
<1> DEFINE new  == [key |-> key, mode |-> mode, status |-> "queued"]
           show == [key |-> key, mode |-> mode, state |-> "open"]
<1>1. /\ Existing(key) = {} /\ n < MaxJobs /\ jobs' = Append(jobs, new) /\ imports' = imports
      /\ jobs \in Seq(JobRecord) /\ new \in JobRecord
  BY TypeFacts DEF Post, Ind
<1>2. /\ Len(jobs') = n + 1 /\ jobs'[n + 1] = new
      /\ \A o \in 1..n : jobs'[o] = jobs[o]
  BY <1>1, AppendProperties
<1>3. Jobs = 1..n /\ Jobs' = 1..(n + 1)
  BY <1>2 DEF Jobs
<1>4. \A o \in 1..(n + 1) : Work'[o] = [key |-> jobs'[o].key, mode |-> jobs'[o].mode,
                                        state |-> IF Open(o)' THEN "open" ELSE jobs'[o].status]
  BY <1>3 DEF Work, Unfinished, Open
<1>5. Work'[n + 1] = show
  BY <1>2, <1>4 DEF Open
<1>6. \A o \in 1..n : Work'[o] = Work[o]
  BY <1>2, <1>3, <1>4, WorkFacts DEF Open
<1>7. Work \in Seq(Promise!Records) /\ Len(Work) = n
  BY <1>3, WorkFacts, IsSequence DEF Work
<1>8. Work' = Append(Work, show)
  <2>1. show \in Promise!Records
    BY DEF Promise!Records, Promise!Modes
  <2>2. Work' = [o \in 1..(n + 1) |-> Work'[o]]
    BY <1>3 DEF Work
  <2>3. /\ Append(Work, show) \in Seq(Promise!Records) /\ Len(Append(Work, show)) = n + 1
        /\ \A o \in 1..n : Append(Work, show)[o] = Work[o]
        /\ Append(Work, show)[n + 1] = show
    BY <1>7, <2>1, AppendProperties
  <2>4. Work' \in Seq(Promise!Records) /\ Len(Work') = n + 1
    <3>1. \A o \in 1..(n + 1) : Work'[o] \in Promise!Records
      BY <1>5, <1>6, <2>1, <1>3, WorkFacts
    <3> QED
      BY <2>2, <3>1, IsSequence
  <2> HIDE DEF show
  <2> QED
    BY <1>5, <1>6, <2>3, <2>4, SeqEqual
<1>9. Books' = Books
  BY <1>1, <1>3, TypeFacts DEF Books, Ind, Once
<1>10. key = NoKey \/ \A j \in 1..Len(Work) : Work[j].key # key
  BY <1>1, <1>3, <1>7, WorkFacts DEF Existing
<1> QED
  BY <1>8, <1>9, <1>10 DEF Promise!Submit

LEMMA RetryShows ==
  ASSUME Ind, Ind', NEW j \in Jobs, Retry(j)
  PROVE  Promise!Retry(j) /\ j \in 1..Len(Work)
<1>1. Becomes(j, "queued") /\ jobs[j].status = "failed" /\ imports' = imports
  BY DEF Retry
<1>2. Promise!Becomes(j, "open")
  BY <1>1, WorkBecomes DEF Shown
<1>3. Work[j].state = "failed" /\ j \in 1..Len(Work)
  BY <1>1, WorkFacts DEF Open
<1> QED
  BY <1>2, <1>3 DEF Promise!Retry

LEMMA ProcessShows ==
  ASSUME Ind, Ind', Process
  PROVE  UNCHANGED <<Work, Books>>
<1>1. CASE jobs' = jobs /\ imports' = imports
  BY <1>1 DEF Work, Books, Jobs, Unfinished
<1>2. CASE Recovered
  <2>1. /\ jobs' = [j \in Jobs |-> IF j \in Recoverable THEN [jobs[j] EXCEPT !.status = "queued"] ELSE jobs[j]]
        /\ imports' = imports /\ Len(jobs) \in Nat /\ \A j \in Jobs : jobs[j] \in JobRecord
    BY <1>2, TypeFacts DEF Recovered, Ind
  <2>2. Len(jobs') = Len(jobs) /\ Jobs' = Jobs
    <3>1. \A j \in 1..Len(jobs) : jobs'[j] \in JobRecord
      BY <2>1 DEF Jobs
    <3>2. jobs' \in [1..Len(jobs) -> JobRecord]
      BY <2>1, <3>1 DEF Jobs
    <3> QED
      BY <2>1, <3>2, IsSequence DEF Jobs
  <2>3. \A o \in Jobs : /\ jobs'[o].key = jobs[o].key /\ jobs'[o].mode = jobs[o].mode
                         /\ Shown(jobs'[o].status) = Shown(jobs[o].status)
    <3> TAKE o \in Jobs
    <3>1. jobs'[o] = IF o \in Recoverable THEN [jobs[o] EXCEPT !.status = "queued"] ELSE jobs[o]
      BY <2>1
    <3>2. CASE o \in Recoverable
      <4>1. /\ jobs'[o].status = "queued" /\ jobs'[o].key = jobs[o].key /\ jobs'[o].mode = jobs[o].mode
        BY <2>1, <3>1, <3>2
      <4>2. jobs[o].status \in {"queued", "running"}
        BY <3>2 DEF Recoverable
      <4> QED
        BY <4>1, <4>2 DEF Shown
    <3>3. CASE o \notin Recoverable
      BY <3>1, <3>3
    <3> QED
      BY <3>2, <3>3
  <2>4. Work' = Work
    BY <2>2, <2>3, WorkStays
  <2> QED
    BY <2>1, <2>2, <2>4 DEF Books
<1> QED
  BY <1>1, <1>2 DEF Process, Close, Busy, Drained, Quiesced, Reload, Reopen, Stop, Ended, Crash, Start,
     Stops, Turns, store

\* Whatever the service does, clients see one job for an operation, one book
\* for a job, and outcomes that stay.
THEOREM LinkKeepsPromise == Spec => KeepsPromise
<1>1. Init => Promise!Init
  <2> SUFFICES ASSUME Init PROVE Work = <<>> /\ Books = {}
    BY DEF Promise!Init
  <2>1. Jobs = {}
    BY EmptySeq DEF Init, Jobs
  <2> QED
    BY <2>1 DEF Work, Books
<1>2. ASSUME Ind, Ind', [Next]_vars
      PROVE  [Promise!Next]_<<Work, Books>>
  <2>1. ASSUME NEW key \in Keys \cup {NoKey}, NEW mode \in Modes, Post(key, mode)
        PROVE  Promise!Next
    BY <1>2, <2>1, PostShows DEF Promise!Next, Modes, Promise!Modes
  <2>2. ASSUME NEW j \in Jobs, Retry(j)
        PROVE  Promise!Next
    BY <1>2, <2>2, RetryShows DEF Promise!Next
  <2>3. CASE \E i \in Runs : Step(i)
    BY <1>2, <2>3, StepShows
  <2>4. CASE Process
    BY <1>2, <2>4, ProcessShows
  <2>5. CASE UNCHANGED vars
    BY <2>5 DEF vars, store, Work, Books, Jobs, Unfinished
  <2> QED
    BY <1>2, <2>1, <2>2, <2>3, <2>4, <2>5 DEF Next
<1> QED
  BY <1>1, <1>2, LinkInvariant, PTL DEF Spec, KeepsPromise, Promise!Spec
=============================================================================
