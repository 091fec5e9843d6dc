---------------------------- MODULE UpdateTheorems ----------------------------
(***************************************************************************)
(* Proofs about BackendUpdate, for any number of commits, updates,         *)
(* mishaps and writes, any artifacts and any bad releases.                 *)
(***************************************************************************)
EXTENDS BackendUpdate, TLAPS

-----------------------------------------------------------------------------
(* The inductive invariant                                                     *)

\* update.sh has touched nothing but the release it builds, then the service.
Before == {"fetch", "build", "announce", "stop", "copy", "check"}

\* "current" points to the new release.
Switched == {"start", "verify", "health", "reset", "clear", "finish"}

\* What follows the undoing of the data, the files, the repository, the link.
AfterLog   == {"undoStart", "judge", "tell", "leave"}
AfterFiles == AfterLog \cup {"undoData", "undoLog"}
AfterRepo  == AfterFiles \cup {"undoFiles"}
AfterLink  == AfterRepo \cup {"undoRepo"}

\* A call is refused before it writes, and writes what git said.
Calls ==
  /\ api.at \in {"reconcile", "remove", "expire"} => api.op \in {"get", "check"}
  /\ api.op = "queue" /\ api.at = "decide" => updates < MaxUpdates
  /\ api.at = "answer" => api.seen.state \in {"up_to_date", "available", "failed"}
                          /\ api.seen.error \in {"none", "other"}

\* The updater waits for the update it started; the rollback directory is there
\* while update.sh may need it.
Runs ==
  /\ script.online <=> runner.at = "running"
  /\ script.at = "idle" => ~script.online
  /\ script.at \in {"idle", "finish"} <=> saved = None

\* Revisions come from upstream.
Known ==
  /\ link <= upstream /\ repo <= upstream
  /\ script.old <= upstream /\ script.prev <= upstream /\ script.target <= upstream

\* What the variables of update.sh say of where it is.
Flags ==
  /\ script.at \in Before => ~script.cutover
  /\ script.at \in {"fetch", "build", "announce", "stop"} => ~script.stopped
  /\ script.at \in (Working \ Before) \cup (Undoing \ {"undoStart"}) => script.cutover
  /\ script.at = "build" => script.built
  /\ script.at \in Working => script.ok
  /\ script.online /\ script.at \in (Working \ {"fetch"}) \cup {"finish"} =>
       script.target = runner.candidate

\* What is done is there, and what is undone is back unless a step failed.
Done ==
  /\ script.at \in Before \/ (script.at \in AfterLog /\ ~script.cutover) =>
       link = script.prev /\ repo = script.old /\ installed = saved.installed
  /\ script.at \in {"install", "switch"} => link = script.prev
  /\ script.at \in Switched => link = script.target
  /\ script.at \in {"switch"} \cup Switched => \A a \in Artifacts : installed[a] = script.target
  /\ script.at \in {"clear", "finish"} => repo = script.target
  /\ script.at \in {"reset", "clear", "finish"} => releases[script.target] = "ready"
  /\ script.ok /\ script.at \in AfterLink => link = script.prev
  /\ script.ok /\ script.at \in AfterRepo => repo = script.old
  /\ script.ok /\ script.at \in AfterFiles => installed = saved.installed
  /\ script.ok /\ script.at \in {"tell", "leave"} =>
       \/ service = script.old
       \/ script.prev # script.old \/ \E a \in Artifacts : installed[a] = None

\* After an update that succeeded nothing goes back behind it, a run by hand
\* in between included.
Beyond(r) ==
  /\ InstalledAll(r) /\ r <= upstream
  /\ script.at # "idle" => script.prev >= r /\ script.old >= r
  /\ saved # None => \A a \in Artifacts : saved.installed[a] = None \/ saved.installed[a] >= r
  /\ script.at \in (Working \ {"fetch"}) \cup {"finish"} => script.target >= r

Ended == runner.at = "ended" => runner.candidate \in Revisions /\ Beyond(runner.candidate)

\* Only the release being built is half-built.
Built ==
  ~spoiled => \A r \in Revisions :
    \/ releases[r] \in {"absent", "ready"}
    \/ script.built /\ r = script.target /\ script.at \in {"build", "judge"}

\* The data owed to users, in a directory that is kept or in that of this run.
OwedIsKept == \E s \in kept : s.db = owed

OwedIsHere ==
  /\ db.writes >= owed.writes
  /\ db.torn =>
       /\ saved # None /\ saved.db = owed
       /\ script.at = "undoLog" \/ (script.at \in AfterLog /\ ~script.ok)
  /\ script.at \in {"copy", "check"} => db = owed
  /\ script.at \in (Working \ Before) => saved.db = owed
  /\ script.at \in Undoing /\ script.cutover => saved.db \in {owed, None}

Owing ==
  /\ ~owed.torn
  /\ script.at \in {"copy", "check"} => service = None
  /\ OwedIsKept \/ OwedIsHere

\* The release that serves, or would, is as new as the schema of the database.
Fitting ==
  /\ service \in {None, link}
  /\ script.at \notin {"undoRepo", "undoFiles", "undoData"} => db.schema <= link
  /\ script.at # "undoLog" => ~db.torn
  /\ \/ script.at \in {"copy", "check", "install", "switch", "start",
                       "undoLink", "undoRepo", "undoFiles", "undoData", "undoLog"}
     \/ script.at = "undoStart" /\ script.cutover
     => service = None
  /\ script.at \in (Working \ Before) \cup (Undoing \ {"undoStart"}) =>
       saved.db # None /\ saved.db.schema <= script.prev /\ ~saved.db.torn
  /\ script.at \in Working \ {"fetch"} => script.prev <= script.target
  /\ script.at \in Undoing \cup {"judge"} => script.ok

Fits == ~spoiled => Fitting

UpdateInv == TypeOK /\ Calls /\ Runs /\ Known /\ Flags /\ Done /\ Ended /\ Built /\ Owing /\ Fits

-----------------------------------------------------------------------------
(* What the steps have in common                                               *)

\* What is idle has its type.
LEMMA IdleTypes ==
  /\ Blank \in Reports /\ NoRequest \in Requests /\ NoCall \in ApiCalls
  /\ NoRunner \in Updaters /\ NoRunner.at = "idle"
  /\ NoScript \in Scripts /\ NoScript.at = "idle" /\ ~NoScript.online
<1>1. 0 \in Revisions /\ 0 \in 0..MaxUpdates
  BY UpdateAssumption DEF Revisions
<1>2. Blank \in Reports
  BY <1>1 DEF Blank, Report, Reports, States, Errors
<1>3. NoRequest \in Requests
  BY <1>1 DEF NoRequest, Requests
<1>4. NoCall \in ApiCalls
  BY <1>2 DEF NoCall, ApiCalls
<1>5. NoRunner \in Updaters /\ NoRunner.at = "idle"
  BY <1>1 DEF NoRunner, Updaters
<1>6. NoScript \in Scripts /\ NoScript.at = "idle" /\ ~NoScript.online
  BY <1>1 DEF NoScript, Scripts
<1> QED
  BY <1>2, <1>3, <1>4, <1>5, <1>6

\* While update.sh runs, its rollback directory is there.
LEMMA SavedThere ==
  ASSUME UpdateInv, script.at \notin {"idle", "finish"}
  PROVE  /\ saved \in Saved /\ saved # None /\ saved.db \in Databases \cup {None}
         /\ saved.installed \in [Artifacts -> Revisions \cup {None}]
  BY DEF UpdateInv, TypeOK, Runs, Saved

\* ... and so it is after one of the two is replaced.
LEMMA SavedReplaced ==
  ASSUME NEW s \in Saved, NEW new \in Databases \cup {None}
  PROVE  /\ [s EXCEPT !.db = new] \in Saved /\ [s EXCEPT !.db = new] # None
         /\ [s EXCEPT !.db = new].db = new
         /\ [s EXCEPT !.db = new].installed = s.installed
  BY NoneAssumption DEF Saved

\* The exit trap changes nothing but where update.sh is.
LEMMA BrokenScript ==
  ASSUME NEW s \in Scripts
  PROVE  /\ Broken(s) \in Scripts
         /\ Broken(s).at = IF s.cutover THEN "undoStop"
                           ELSE IF s.stopped THEN "undoStart" ELSE "judge"
         /\ Broken(s).online = s.online /\ Broken(s).old = s.old /\ Broken(s).prev = s.prev
         /\ Broken(s).target = s.target /\ Broken(s).built = s.built
         /\ Broken(s).stopped = s.stopped /\ Broken(s).cutover = s.cutover /\ Broken(s).ok = s.ok
  BY DEF Broken, Scripts, Working, Undoing

\* A service that starts runs what "current" points to, and brings the schema
\* up to that release at most.
LEMMA StartsService ==
  ASSUME TypeOK, Starts
  PROVE  /\ service' \in {None, link} /\ service' \in Revisions \cup {None} /\ db' \in Databases
         /\ db'.writes = db.writes /\ db'.torn = db.torn
         /\ db.schema <= link => db'.schema <= link
         /\ (\A a \in Artifacts : installed[a] # None) => service' = link
<1>1. db \in Databases /\ link \in Revisions
  BY DEF TypeOK
<1>2. CASE \E a \in Artifacts : installed[a] = None
  BY <1>1, <1>2 DEF Starts
<1>3. CASE ~\E a \in Artifacts : installed[a] = None
  <2>1. service' = link
    BY <1>3 DEF Starts
  <2>2. PICK n \in {db.schema, Larger(db.schema, link)} : db' = [db EXCEPT !.schema = n]
    BY <1>3 DEF Starts
  <2>3. db.schema \in Revisions /\ Larger(db.schema, link) \in Revisions
        /\ (db.schema <= link => Larger(db.schema, link) <= link)
    BY <1>1, UpdateAssumption DEF Databases, Larger, Revisions
  <2>4. n \in Revisions /\ (db.schema <= link => n <= link)
    BY <2>2, <2>3
  <2>5. db' \in Databases /\ db'.writes = db.writes /\ db'.torn = db.torn /\ db'.schema = n
    BY <1>1, <2>2, <2>4 DEF Databases
  <2> QED
    BY <1>1, <2>1, <2>4, <2>5
<1> QED
  BY <1>2, <1>3

\* A step of the backend touches the status, the request and its call.
LEMMA BackendKeeps ==
  ASSUME UpdateInv, UNCHANGED backendOnly, TypeOK', Calls'
  PROVE  UpdateInv'
<1> USE DEF backendOnly, disk, past
<1>1. Runs' /\ Known' /\ Flags' /\ Done'
  BY DEF UpdateInv, Runs, Known, Flags, Done
<1>2. Ended' /\ Built' /\ Owing' /\ Fits'
  BY DEF UpdateInv, Ended, Beyond, InstalledAll, Built, Owing, OwedIsKept, OwedIsHere, Fits,
         Fitting
<1> QED
  BY <1>1, <1>2 DEF UpdateInv

\* A step of the updater alone neither starts nor ends an update, nor does it
\* claim that one has succeeded.
LEMMA RunnerKeeps ==
  ASSUME UpdateInv, UNCHANGED <<upstream, api, disk, service, db, past, updates, script>>, TypeOK',
         runner.at # "running", runner'.at \notin {"running", "ended"}
  PROVE  UpdateInv'
<1> USE DEF disk, past
<1>1. Calls' /\ Runs' /\ Known'
  BY DEF UpdateInv, Calls, Runs, Known
<1>2. Flags'
  BY DEF UpdateInv, Runs, Flags
<1>3. Done'
  BY DEF UpdateInv, Done
<1>4. Ended'
  BY DEF Ended
<1>5. Built' /\ Owing' /\ Fits'
  BY DEF UpdateInv, Built, Owing, OwedIsKept, OwedIsHere, Fits, Fitting
<1> QED
  BY <1>1, <1>2, <1>3, <1>4, <1>5 DEF UpdateInv

-----------------------------------------------------------------------------
(* The backend                                                                 *)

\* The calls of the backend.
LEMMA BackendStep ==
  ASSUME UpdateInv, Backend
  PROVE  UpdateInv'
<1>1. TypeOK /\ Calls
  BY DEF UpdateInv
<1>2. status \in Reports /\ api.seen \in Reports /\ api \in ApiCalls
  BY <1>1 DEF TypeOK, ApiCalls
<1>3. Blank \in Reports /\ NoCall \in ApiCalls /\ NoRequest \in Requests
  BY IdleTypes
<1>4. ASSUME NEW op \in {"get", "check", "queue"}, Read(op) PROVE UpdateInv'
  <2>1. TypeOK'
    BY <1>1, <1>2, <1>4 DEF TypeOK, Read, backendOnly, bounds, disk, past, ApiCalls
  <2>2. Calls'
    BY <1>1, <1>4 DEF Calls, Read, bounds, Active
  <2> QED
    BY <1>4, <2>1, <2>2, BackendKeeps DEF Read
<1>5. CASE InTime \/ Overdue
  <2>1. PICK next \in {"decide", "remove", "expire"} : Reconcile(next)
    BY <1>5 DEF InTime, Overdue
  <2>2. TypeOK'
    BY <1>1, <1>2, <2>1 DEF TypeOK, Reconcile, backendOnly, bounds, disk, past, ApiCalls
  <2>3. Calls'
    BY <1>1, <1>2, <2>1 DEF Calls, Reconcile, bounds
  <2> QED
    BY <2>1, <2>2, <2>3, BackendKeeps DEF Reconcile
<1>6. CASE RemoveTrigger
  <2>1. TypeOK'
    BY <1>1, <1>2, <1>3, <1>6 DEF TypeOK, RemoveTrigger, backendOnly, bounds, disk, past, ApiCalls
  <2>2. Calls'
    BY <1>1, <1>2, <1>6 DEF Calls, RemoveTrigger, bounds
  <2> QED
    BY <1>6, <2>1, <2>2, BackendKeeps DEF RemoveTrigger
<1>7. CASE Expire
  <2> DEFINE failed == Report("failed", api.seen.job, api.seen.candidate, "other")
  <2>1. failed \in Reports
    BY <1>2 DEF Report, Reports, States, Errors
  <2>2. api' = [api EXCEPT !.at = "decide", !.seen = failed] /\ status' = failed
        /\ api.at = "expire"
    BY <1>7 DEF Expire
  <2> HIDE DEF failed
  <2>3. TypeOK'
    BY <1>1, <1>2, <1>7, <2>1, <2>2 DEF TypeOK, Expire, backendOnly, bounds, disk, past, ApiCalls
  <2>4. Calls'
    BY <1>1, <1>2, <1>7, <2>2 DEF Calls, Expire, bounds
  <2> QED
    BY <1>7, <2>3, <2>4, BackendKeeps DEF Expire
<1>8. CASE Return
  <2>1. TypeOK'
    BY <1>1, <1>3, <1>8 DEF TypeOK, Return, backendOnly, bounds, disk, past
  <2>2. Calls'
    BY <1>8 DEF Calls, Return, NoCall
  <2> QED
    BY <1>8, <2>1, <2>2, BackendKeeps DEF Return
<1>9. CASE StartCheck
  <2>1. status' \in Reports
    BY <1>9, UpdateAssumption DEF StartCheck, Report, Reports, States, Active, Errors
  <2>2. TypeOK'
    BY <1>1, <1>2, <1>3, <1>9, <2>1
       DEF TypeOK, StartCheck, backendOnly, bounds, disk, past, ApiCalls
  <2>3. Calls'
    BY <1>1, <1>2, <1>9 DEF Calls, StartCheck
  <2> QED
    BY <1>9, <2>2, <2>3, BackendKeeps DEF StartCheck
<1>10. CASE Ask
  <2>1. PICK found \in
          {Report(IF upstream = repo THEN "up_to_date" ELSE "available", 0, upstream, "none"),
           Report("failed", 0, None, "other")} :
          api' = [api EXCEPT !.at = "answer", !.seen = found]
    BY <1>10 DEF Ask
  <2>2. found \in Reports /\ found.state \in {"up_to_date", "available", "failed"}
        /\ found.error \in {"none", "other"}
    BY <1>1, UpdateAssumption DEF TypeOK, Report, Reports, States, Errors
  <2>3. TypeOK'
    BY <1>1, <1>2, <1>10, <2>1, <2>2 DEF TypeOK, Ask, backendOnly, bounds, disk, past, ApiCalls
  <2>4. Calls'
    BY <1>2, <2>1, <2>2 DEF Calls
  <2> QED
    BY <1>10, <2>3, <2>4, BackendKeeps DEF Ask
<1>11. CASE Answer
  <2>1. TypeOK'
    BY <1>1, <1>2, <1>3, <1>11 DEF TypeOK, Answer, backendOnly, bounds, disk, past
  <2>2. Calls'
    BY <1>11 DEF Calls, Answer, NoCall
  <2> QED
    BY <1>11, <2>1, <2>2, BackendKeeps DEF Answer
<1>12. CASE Queue
  <2> DEFINE queued == Report("queued", updates + 1, api.seen.candidate, "none")
  <2>1. updates + 1 \in 0..MaxUpdates
    BY <1>1, <1>12, UpdateAssumption DEF Queue, Calls, TypeOK
  <2>2. queued \in Reports
    BY <1>2, <2>1 DEF Report, Reports, States, Active, Errors
  <2>3. api' = [api EXCEPT !.at = "trigger", !.seen = queued] /\ status' = queued
        /\ api.at = "decide"
    BY <1>12 DEF Queue
  <2> HIDE DEF queued
  <2>4. TypeOK'
    BY <1>1, <1>2, <1>12, <2>1, <2>2, <2>3 DEF TypeOK, Queue, backendOnly, disk, past, ApiCalls
  <2>5. Calls'
    BY <1>2, <2>3 DEF Calls
  <2> QED
    BY <1>12, <2>4, <2>5, BackendKeeps DEF Queue
<1>13. CASE WriteTrigger
  <2>1. request' \in Requests
    BY <1>2, <1>13 DEF WriteTrigger, Reports, Requests
  <2>2. TypeOK'
    BY <1>1, <1>3, <1>13, <2>1 DEF TypeOK, WriteTrigger, backendOnly, bounds, disk, past
  <2>3. Calls'
    BY <1>13 DEF Calls, WriteTrigger, NoCall
  <2> QED
    BY <1>13, <2>2, <2>3, BackendKeeps DEF WriteTrigger
<1>14. CASE TriggerFails
  <2>1. status' \in Reports
    BY <1>2, <1>14 DEF TriggerFails, Report, Reports, States, Errors
  <2>2. mishaps' \in 0..MaxMishaps
    BY <1>1, <1>14, UpdateAssumption DEF TriggerFails, Mishap, TypeOK
  <2>3. TypeOK'
    BY <1>1, <1>3, <1>14, <2>1, <2>2 DEF TypeOK, TriggerFails, backendOnly, disk, past
  <2>4. Calls'
    BY <1>14 DEF Calls, TriggerFails, NoCall
  <2> QED
    BY <1>14, <2>3, <2>4, BackendKeeps DEF TriggerFails
<1> QED
  BY <1>4, <1>5, <1>6, <1>7, <1>8, <1>9, <1>10, <1>11, <1>12, <1>13, <1>14 DEF Backend

-----------------------------------------------------------------------------
(* The updater                                                                 *)

\* The steps of the updater, but for the start of an update.
LEMMA RunnerStep ==
  ASSUME UpdateInv, Runner
  PROVE  UpdateInv'
<1>1. /\ TypeOK /\ runner \in Updaters /\ status \in Reports
      /\ request \in Requests
  BY DEF UpdateInv, TypeOK
<1>2. NoRunner \in Updaters /\ NoRunner.at = "idle" /\ NoRequest \in Requests
  BY IdleTypes
<1>3. UNCHANGED <<runnerOnly, script>>
  BY DEF Runner, StartUpdater, TakeRequest, FindNothing, Reject, BeginJob, FindLocked, Complete,
         CompleteFails, ReportFailure
<1>4. runner.at # "running"
  BY DEF Runner, StartUpdater, TakeRequest, FindNothing, Reject, BeginJob, FindLocked, Complete,
         CompleteFails, ReportFailure
<1>5. runner' \in Updaters /\ runner'.at \notin {"running", "ended"}
  BY <1>1, <1>2 DEF Runner, StartUpdater, TakeRequest, FindNothing, Reject, BeginJob, FindLocked,
                    Complete, CompleteFails, ReportFailure, Updaters, Requests
<1>6. request' \in Requests
  BY <1>1, <1>2 DEF Runner, StartUpdater, TakeRequest, FindNothing, Reject, BeginJob, FindLocked,
                    Complete, CompleteFails, ReportFailure
<1>7. status' \in Reports
  <2>1. \/ status' = status
        \/ \E s \in {"updating", "completed"} :
             status' = Report(s, runner.job, runner.candidate, "none")
        \/ \E e \in {"other", status.error} :
             status' = Report("failed", runner.job, runner.candidate, e)
        \/ status' = Report("failed", status.job, status.candidate, "other")
    BY DEF Runner, StartUpdater, TakeRequest, FindNothing, Reject, BeginJob, FindLocked, Complete,
           CompleteFails, ReportFailure
  <2>2. ASSUME NEW s \in {"updating", "completed", "failed"}, NEW t \in {runner, status},
               NEW e \in {"none", "other", status.error}
        PROVE  Report(s, t.job, t.candidate, e) \in Reports
    BY <1>1 DEF Report, Reports, Updaters, States, Active, Errors
  <2> QED
    BY <1>1, <2>1, <2>2
<1>8. mishaps' \in 0..MaxMishaps
  BY <1>1, UpdateAssumption DEF Runner, StartUpdater, TakeRequest, FindNothing, Reject, BeginJob,
          FindLocked, Complete, CompleteFails, ReportFailure, Mishap, TypeOK
<1>9. TypeOK'
  BY <1>1, <1>3, <1>5, <1>6, <1>7, <1>8 DEF TypeOK, disk, past, runnerOnly
<1> QED
  BY <1>3, <1>4, <1>5, <1>9, RunnerKeeps DEF runnerOnly

-----------------------------------------------------------------------------
(* update.sh                                                                   *)

\* update.sh begins, for the updater or by hand.
LEMMA BeginsStep ==
  ASSUME UpdateInv, NEW online \in BOOLEAN, Begins(online), updates' = updates,
         mishaps' \in 0..MaxMishaps,
         IF online THEN runner.at = "ready" /\ runner' = [runner EXCEPT !.at = "running"]
                   ELSE runner' = runner
  PROVE  UpdateInv'
<1> USE DEF Begins, past, talk
<1>1. /\ runner' \in Updaters /\ (online <=> runner'.at = "running")
      /\ runner'.at = "ended" => runner' = runner
  BY DEF UpdateInv, TypeOK, Updaters, Runs
<1>2. saved' \in Saved /\ saved' # None
  BY NoneAssumption DEF UpdateInv, TypeOK, Saved
<1>3. TypeOK'
  BY <1>1, <1>2, IdleTypes DEF UpdateInv, TypeOK, Scripts, Working, Undoing, NoScript
<1>4. Calls'
  BY <1>1, <1>2 DEF UpdateInv, Calls
<1>5. Runs' /\ Known' /\ Flags'
  BY <1>1, <1>2, UpdateAssumption DEF UpdateInv, TypeOK, Scripts, Runs, Known, Flags,
         Working, Undoing, Before, NoScript, Revisions
<1>6. Done'
  BY <1>1, <1>2 DEF UpdateInv, TypeOK, Scripts, Runs, Flags, Done, Working, Undoing, Before,
         Switched, AfterLink, AfterRepo, AfterFiles, AfterLog, NoScript
<1>7. Ended'
  BY <1>1, <1>2 DEF UpdateInv, TypeOK, Scripts, Runs, Ended, Beyond, InstalledAll, Working,
         Undoing, NoScript
<1>8. Built'
  BY <1>1, <1>2 DEF UpdateInv, TypeOK, Scripts, Flags, Built, Working, Undoing, Before,
         NoScript
<1>9. Owing'
  BY <1>1, <1>2 DEF UpdateInv, TypeOK, Scripts, Runs, Flags, Owing, OwedIsKept, OwedIsHere,
         Working, Undoing, Before, AfterLog, NoScript
<1>10. Fits'
  BY <1>1, <1>2 DEF UpdateInv, TypeOK, Scripts, Flags, Done, Fits, Fitting, Working,
         Undoing, Before, Switched, AfterLink, AfterRepo, AfterFiles, AfterLog, NoScript
<1> QED
  BY <1>3, <1>4, <1>5, <1>6, <1>7, <1>8, <1>9, <1>10 DEF UpdateInv

\* A command fails, and the exit trap decides where to begin with the undoing.
LEMMA BreakStep ==
  ASSUME UpdateInv, script.at \in Working, NEW s \in Scripts, script' = Broken(s),
         s.online = script.online, s.old = script.old, s.prev = script.prev, s.ok = script.ok,
         s.built = script.built, s.cutover = script.cutover,
         s.stopped = script.stopped \/ script.at = "stop",
         s.target = script.target \/ (script.at = "fetch" /\ s.target = upstream),
         UNCHANGED <<upstream, request, api, runner, disk, service, db, past, updates>>,
         status' \in Reports, mishaps' \in 0..MaxMishaps
  PROVE  UpdateInv'
<1> USE DEF disk, past
<1>1. TypeOK'
  BY BrokenScript DEF UpdateInv, TypeOK, Scripts, Working, Undoing
<1>2. Calls'
  BY BrokenScript DEF UpdateInv, Calls
<1>3. Runs' /\ Known' /\ Flags'
  BY BrokenScript, UpdateAssumption DEF UpdateInv, TypeOK, Scripts, Runs, Known, Flags,
         Working, Undoing, Before, Revisions
<1>4. Done'
  BY BrokenScript DEF UpdateInv, TypeOK, Scripts, Runs, Flags, Done, Working, Undoing,
         Before, Switched, AfterLink, AfterRepo, AfterFiles, AfterLog
<1>5. Ended'
  BY BrokenScript DEF UpdateInv, TypeOK, Scripts, Runs, Ended, Beyond, InstalledAll,
         Working, Undoing
<1>6. Built'
  BY BrokenScript DEF UpdateInv, TypeOK, Scripts, Flags, Built, Working, Undoing, Before
<1>7. Owing'
  BY BrokenScript DEF UpdateInv, TypeOK, Scripts, Runs, Flags, Owing, OwedIsKept,
         OwedIsHere, Working, Undoing, Before, AfterLog
<1>8. Fits'
  BY BrokenScript DEF UpdateInv, TypeOK, Scripts, Flags, Done, Fits, Fitting, Working,
         Undoing, Before, Switched, AfterLink, AfterRepo, AfterFiles, AfterLog
<1> QED
  BY <1>1, <1>2, <1>3, <1>4, <1>5, <1>6, <1>7, <1>8 DEF UpdateInv

\* The candidate, or what there is upstream, is looked for among the releases.
LEMMA FetchStep ==
  ASSUME UpdateInv, Fetch
  PROVE  UpdateInv'
<1> DEFINE s == [script EXCEPT !.target = upstream]
           refused == \/ script.online /\ upstream # runner.candidate
                      \/ releases[upstream] = "partial"
<1>1. /\ script.at = "fetch"
      /\ script' = IF refused THEN Broken(s)
                   ELSE [s EXCEPT !.at = IF releases[upstream] = "absent"
                                           THEN "build" ELSE "announce",
                                  !.built = (releases[upstream] = "absent")]
      /\ UNCHANGED <<scriptOnly, status, request, api, disk, service, db, owed, mishaps>>
  BY DEF Fetch
<1>2. /\ s \in Scripts /\ s.at = "fetch" /\ s.online = script.online /\ s.old = script.old
      /\ s.prev = script.prev /\ s.target = upstream /\ s.built = script.built
      /\ s.stopped = script.stopped /\ s.cutover = script.cutover /\ s.ok = script.ok
  BY <1>1 DEF UpdateInv, TypeOK, Scripts
<1> HIDE DEF s
<1>3. CASE refused
  <2>1. status' \in Reports /\ mishaps' \in 0..MaxMishaps
    BY <1>1 DEF UpdateInv, TypeOK
  <2> QED
    BY <1>1, <1>2, <1>3, <2>1, BreakStep DEF scriptOnly, past, Working
<1>4. CASE ~refused
  <2> USE DEF scriptOnly, disk
  <2>1. TypeOK'
    BY <1>1, <1>2, <1>4 DEF UpdateInv, TypeOK, Scripts, Working, Undoing, ReleaseStates
  <2>2. Calls'
    BY <1>1, <1>2, <1>4 DEF UpdateInv, Calls
  <2>3. Runs' /\ Known' /\ Flags'
    BY <1>1, <1>2, <1>4, UpdateAssumption DEF UpdateInv, TypeOK, Scripts, Runs, Known,
           Flags, Working, Undoing, Before, Revisions
  <2>4. Done'
    BY <1>1, <1>2, <1>4 DEF UpdateInv, TypeOK, Scripts, Runs, Flags, Done, Working, Undoing,
           Before, Switched, AfterLink, AfterRepo, AfterFiles, AfterLog, ReleaseStates
  <2>5. Ended'
    BY <1>1, <1>2, <1>4 DEF UpdateInv, TypeOK, Scripts, Runs, Ended, Beyond, InstalledAll,
           Working, Undoing
  <2>6. Built'
    BY <1>1, <1>2, <1>4 DEF UpdateInv, TypeOK, Scripts, Flags, Built, Working, Undoing,
           Before, ReleaseStates
  <2>7. Owing'
    BY <1>1, <1>2, <1>4 DEF UpdateInv, TypeOK, Scripts, Runs, Flags, Owing, OwedIsKept,
           OwedIsHere, Working, Undoing, Before, AfterLog
  <2>8. Fits'
    BY <1>1, <1>2, <1>4 DEF UpdateInv, TypeOK, Scripts, Flags, Done, Fits, Fitting, Working,
           Undoing, Before, Switched, AfterLink, AfterRepo, AfterFiles, AfterLog, Known
  <2> QED
    BY <2>1, <2>2, <2>3, <2>4, <2>5, <2>6, <2>7, <2>8 DEF UpdateInv
<1> QED
  BY <1>3, <1>4

\* The status is told, or belongs to another job.
LEMMA SaysStep ==
  ASSUME UpdateInv, NEW state \in {"restarting", "verifying"}, NEW next \in Working,
         Says(state, next),
         \/ script.at = "announce" /\ next = "stop"
         \/ script.at = "verify" /\ next = "health"
  PROVE  UpdateInv'
<1>1. /\ script.at \in Working /\ script \in Scripts
      /\ UNCHANGED <<scriptOnly, request, api, disk, service, db, owed, mishaps>>
      /\ \/ status' \in Reports /\ To(next)
         \/ script' = Broken(script) /\ status' = status
  <2>1. status \in Reports /\ script \in Scripts
    BY DEF UpdateInv, TypeOK
  <2>2. Report(state, status.job, status.candidate, "none") \in Reports
    BY <2>1 DEF Report, Reports, States, Active, Errors
  <2> QED
    BY <2>1, <2>2 DEF Says, Working
<1>2. CASE script' = Broken(script) /\ status' = status
  <2>1. status' \in Reports /\ mishaps' \in 0..MaxMishaps
    BY <1>1, <1>2 DEF UpdateInv, TypeOK
  <2> QED
    BY <1>1, <1>2, <2>1, BreakStep DEF scriptOnly, past
<1>3. CASE status' \in Reports /\ To(next)
  <2> USE DEF To, scriptOnly, disk
  <2>1. TypeOK'
    BY <1>1, <1>3 DEF UpdateInv, TypeOK, Scripts, Working, Undoing
  <2>2. Calls'
    BY <1>1, <1>3 DEF UpdateInv, Calls
  <2>3. Runs' /\ Known' /\ Flags'
    BY <1>1, <1>3 DEF UpdateInv, TypeOK, Scripts, Runs, Known, Flags, Working, Undoing,
           Before
  <2>4. Done'
    BY <1>1, <1>3 DEF UpdateInv, TypeOK, Scripts, Runs, Flags, Done, Working, Undoing,
           Before, Switched, AfterLink, AfterRepo, AfterFiles, AfterLog
  <2>5. Ended'
    BY <1>1, <1>3 DEF UpdateInv, TypeOK, Scripts, Runs, Ended, Beyond, InstalledAll,
           Working, Undoing
  <2>6. Built'
    BY <1>1, <1>3 DEF UpdateInv, TypeOK, Scripts, Flags, Built, Working, Undoing, Before
  <2>7. Owing'
    BY <1>1, <1>3 DEF UpdateInv, TypeOK, Scripts, Runs, Flags, Owing, OwedIsKept,
           OwedIsHere, Working, Undoing, Before, AfterLog
  <2>8. Fits'
    BY <1>1, <1>3 DEF UpdateInv, TypeOK, Scripts, Flags, Done, Fits, Fitting, Working,
           Undoing, Before, Switched, AfterLink, AfterRepo, AfterFiles, AfterLog
  <2> QED
    BY <2>1, <2>2, <2>3, <2>4, <2>5, <2>6, <2>7, <2>8 DEF UpdateInv
<1> QED
  BY <1>1, <1>2, <1>3

\* The health of the new release is asked for.
LEMMA CheckHealthStep ==
  ASSUME UpdateInv, CheckHealth
  PROVE  UpdateInv'
<1>1. /\ script.at = "health" /\ script \in Scripts
      /\ UNCHANGED <<scriptOnly, status, request, api, disk, service, db, owed, mishaps>>
      /\ status \in Reports /\ mishaps \in 0..MaxMishaps
  BY DEF CheckHealth, UpdateInv, TypeOK
<1>2. CASE ~Healthy(script.target)
  <2>1. script' = Broken(script)
    BY <1>2 DEF CheckHealth
  <2> QED
    BY <1>1, <2>1, BreakStep DEF scriptOnly, past, Working
<1>3. CASE Healthy(script.target)
  <2>1. script' = [script EXCEPT !.at = "reset"] /\ releases[script.target] = "ready"
    BY <1>3 DEF CheckHealth, Healthy
  <2> USE DEF scriptOnly, disk
  <2>2. TypeOK'
    BY <1>1, <2>1 DEF UpdateInv, TypeOK, Scripts, Working, Undoing
  <2>3. Calls'
    BY <1>1, <2>1 DEF UpdateInv, Calls
  <2>4. Runs' /\ Known' /\ Flags'
    BY <1>1, <2>1 DEF UpdateInv, TypeOK, Scripts, Runs, Known, Flags, Working, Undoing,
           Before
  <2>5. Done'
    BY <1>1, <2>1 DEF UpdateInv, TypeOK, Scripts, Runs, Flags, Done, Working, Undoing,
           Before, Switched, AfterLink, AfterRepo, AfterFiles, AfterLog
  <2>6. Ended'
    BY <1>1, <2>1 DEF UpdateInv, TypeOK, Scripts, Runs, Ended, Beyond, InstalledAll,
           Working, Undoing
  <2>7. Built'
    BY <1>1, <2>1 DEF UpdateInv, TypeOK, Scripts, Flags, Built, Working, Undoing, Before
  <2>8. Owing'
    BY <1>1, <2>1 DEF UpdateInv, TypeOK, Scripts, Runs, Flags, Owing, OwedIsKept,
           OwedIsHere, Working, Undoing, Before, AfterLog
  <2>9. Fits'
    BY <1>1, <2>1 DEF UpdateInv, TypeOK, Scripts, Flags, Done, Fits, Fitting, Working,
           Undoing, Before, Switched, AfterLink, AfterRepo, AfterFiles, AfterLog
  <2> QED
    BY <2>2, <2>3, <2>4, <2>5, <2>6, <2>7, <2>8, <2>9 DEF UpdateInv
<1> QED
  BY <1>2, <1>3

\* A command fails.
LEMMA BreaksStep ==
  ASSUME UpdateInv, Breaks
  PROVE  UpdateInv'
<1> DEFINE s == [script EXCEPT !.stopped = @ \/ script.at = "stop"]
<1>1. /\ script.at \in Working /\ script' = Broken(s)
      /\ UNCHANGED <<scriptOnly, status, request, api, disk, service, db, owed>>
  BY DEF Breaks
<1>2. status' \in Reports /\ mishaps' \in 0..MaxMishaps
  BY UpdateAssumption DEF UpdateInv, TypeOK, Breaks, Mishap
<1>3. /\ s \in Scripts /\ s.online = script.online /\ s.old = script.old
      /\ s.prev = script.prev /\ s.target = script.target /\ s.built = script.built
      /\ s.stopped = script.stopped \/ script.at = "stop"
      /\ s.cutover = script.cutover /\ s.ok = script.ok
  BY DEF UpdateInv, TypeOK, Scripts
<1> HIDE DEF s
<1> QED
  BY <1>1, <1>2, <1>3, BreakStep DEF scriptOnly, past

\* The rollback directory is removed in part.
LEMMA ClearBreaksStep ==
  ASSUME UpdateInv, ClearBreaks
  PROVE  UpdateInv'
<1> USE DEF Mishap, talk
<1>1. /\ script.at = "clear" /\ script.cutover /\ script \in Scripts
      /\ script' = Broken(script) /\ spoiled' = TRUE /\ mishaps' \in 0..MaxMishaps
      /\ UNCHANGED <<upstream, talk, runner, kept, link, repo, installed, releases, service, db,
                     owed, killed, updates>>
  BY UpdateAssumption DEF ClearBreaks, UpdateInv, TypeOK, Flags, Working, Before
<1>2. /\ saved' \in Saved /\ saved' # None /\ saved'.db \in {saved.db, None}
      /\ \A a \in Artifacts : saved'.installed[a] \in {saved.installed[a], None}
  <2>1. saved \in Saved
    BY <1>1, SavedThere
  <2>2. PICK left \in {[saved EXCEPT !.db = None],
                       [saved EXCEPT !.installed = [a \in Artifacts |-> None]]} : saved' = left
    BY DEF ClearBreaks
  <2> QED
    BY <2>1, <2>2, NoneAssumption DEF Saved
<1>3. TypeOK'
  BY <1>1, <1>2, BrokenScript DEF UpdateInv, TypeOK, Scripts, Working, Undoing
<1>4. Calls'
  BY <1>1, <1>2, BrokenScript DEF UpdateInv, Calls
<1>5. Runs' /\ Known' /\ Flags'
  BY <1>1, <1>2, BrokenScript DEF UpdateInv, TypeOK, Scripts, Runs, Known, Flags, Working,
         Undoing, Before
<1>6. Done'
  BY <1>1, <1>2, BrokenScript DEF UpdateInv, TypeOK, Scripts, Runs, Flags, Done, Working,
         Undoing, Before, Switched, AfterLink, AfterRepo, AfterFiles, AfterLog
<1>7. Ended'
  BY <1>1, <1>2, BrokenScript DEF UpdateInv, TypeOK, Scripts, Runs, Ended, Beyond,
         InstalledAll, Working, Undoing
<1>8. Built'
  BY <1>1, <1>2, BrokenScript DEF UpdateInv, TypeOK, Scripts, Flags, Built, Working,
         Undoing, Before
<1>9. Owing'
  BY <1>1, <1>2, BrokenScript DEF UpdateInv, TypeOK, Scripts, Runs, Flags, Owing,
         OwedIsKept, OwedIsHere, Working, Undoing, Before, AfterLog
<1>10. Fits'
  BY <1>1, <1>2, BrokenScript DEF UpdateInv, TypeOK, Scripts, Flags, Done, Fits, Fitting,
         Working, Undoing, Before, Switched, AfterLink, AfterRepo, AfterFiles, AfterLog
<1> QED
  BY <1>3, <1>4, <1>5, <1>6, <1>7, <1>8, <1>9, <1>10 DEF UpdateInv

\* update.sh ends.
LEMMA FinishStep ==
  ASSUME UpdateInv, Finish
  PROVE  UpdateInv'
<1> USE DEF disk, past, bounds
<1>1. /\ script.at = "finish" /\ script.online \in BOOLEAN /\ saved = None
      /\ UNCHANGED <<upstream, request, api, disk, service, db, past, bounds>>
  BY DEF Finish, UpdateInv, TypeOK, Scripts, Runs
<1>2. /\ script' \in Scripts /\ script'.at = "idle" /\ script'.online = FALSE
      /\ script'.old = 0 /\ script'.prev = 0 /\ script'.target = 0
  BY IdleTypes DEF Finish, NoScript
<1>3. /\ status' \in Reports
      /\ \/ script.online /\ runner' = [runner EXCEPT !.at = "ended"]
         \/ ~script.online /\ runner' = runner
  BY <1>1, IdleTypes DEF Finish, UpdateInv, TypeOK
<1>4. /\ runner' \in Updaters /\ runner'.at # "running"
      /\ runner'.at = "ended" /\ ~script.online => runner' = runner
      /\ runner'.candidate = runner.candidate
  BY <1>1, <1>3 DEF UpdateInv, TypeOK, Updaters, Runs
<1>5. TypeOK'
  BY <1>1, <1>2, <1>4, <1>3, IdleTypes DEF UpdateInv, TypeOK, Scripts, Working, Undoing
<1>6. Calls'
  BY <1>1, <1>2, <1>4 DEF UpdateInv, Calls
<1>7. Runs' /\ Known' /\ Flags'
  BY <1>1, <1>2, <1>4, UpdateAssumption DEF UpdateInv, TypeOK, Scripts, Runs, Known, Flags,
         Working, Undoing, Before, Revisions
<1>8. Done'
  BY <1>1, <1>2, <1>4 DEF UpdateInv, TypeOK, Scripts, Runs, Flags, Done, Working, Undoing,
         Before, Switched, AfterLink, AfterRepo, AfterFiles, AfterLog
<1>9. Ended'
  BY <1>1, <1>2, <1>4, <1>3, UpdateAssumption DEF UpdateInv, TypeOK, Scripts, Runs, Ended,
         Beyond, InstalledAll, Working, Undoing, Revisions, Known, Flags, Done, Before, Switched
<1>10. Built'
  BY <1>1, <1>2, <1>4 DEF UpdateInv, TypeOK, Scripts, Flags, Built, Working, Undoing,
         Before
<1>11. Owing'
  BY <1>1, <1>2, <1>4 DEF UpdateInv, TypeOK, Scripts, Runs, Flags, Owing, OwedIsKept,
         OwedIsHere, Working, Undoing, Before, AfterLog
<1>12. Fits'
  BY <1>1, <1>2, <1>4 DEF UpdateInv, TypeOK, Scripts, Flags, Done, Fits, Fitting, Working,
         Undoing, Before, Switched, AfterLink, AfterRepo, AfterFiles, AfterLog
<1> QED
  BY <1>5, <1>6, <1>7, <1>8, <1>9, <1>10, <1>11, <1>12 DEF UpdateInv

\* update.sh ends after its undoing, and keeps what it saved if that failed.
LEMMA LeaveStep ==
  ASSUME UpdateInv, Leave
  PROVE  UpdateInv'
<1> USE DEF disk, past, bounds, talk
<1>1. /\ script.at = "leave" /\ script.online \in BOOLEAN /\ script.ok \in BOOLEAN
      /\ saved' = None /\ kept' \subseteq Saved /\ kept \subseteq kept'
      /\ script.ok \/ saved \in kept'
      /\ UNCHANGED <<upstream, talk, link, repo, installed, releases, service, db, past, bounds>>
  BY SavedThere DEF Leave, UpdateInv, TypeOK, Scripts
<1>2. /\ script' \in Scripts /\ script'.at = "idle" /\ script'.online = FALSE
      /\ script'.old = 0 /\ script'.prev = 0 /\ script'.target = 0
  BY IdleTypes DEF Leave, NoScript
<1>3. \/ script.online /\ runner' = [runner EXCEPT !.at = "failed"]
      \/ ~script.online /\ runner' = runner
  BY <1>1 DEF Leave
<1>4. /\ runner' \in Updaters /\ runner'.at # "running"
      /\ runner'.at = "ended" => runner' = runner
  BY <1>1, <1>3 DEF UpdateInv, TypeOK, Updaters, Runs
<1>5. TypeOK'
  BY <1>1, <1>2, <1>4, IdleTypes DEF UpdateInv, TypeOK, Scripts, Working, Undoing
<1>6. Calls'
  BY <1>1, <1>2, <1>4 DEF UpdateInv, Calls
<1>7. Runs' /\ Known' /\ Flags'
  BY <1>1, <1>2, <1>4, UpdateAssumption DEF UpdateInv, TypeOK, Scripts, Runs, Known, Flags,
         Working, Undoing, Before, Revisions
<1>8. Done'
  BY <1>1, <1>2, <1>4 DEF UpdateInv, TypeOK, Scripts, Runs, Flags, Done, Working, Undoing,
         Before, Switched, AfterLink, AfterRepo, AfterFiles, AfterLog
<1>9. Ended'
  BY <1>1, <1>2, <1>4 DEF UpdateInv, TypeOK, Scripts, Runs, Ended, Beyond, InstalledAll,
         Working, Undoing
<1>10. Built'
  BY <1>1, <1>2, <1>4 DEF UpdateInv, TypeOK, Scripts, Flags, Built, Working, Undoing,
         Before
<1>11. Owing'
  BY <1>1, <1>2, <1>4 DEF UpdateInv, TypeOK, Scripts, Runs, Flags, Owing, OwedIsKept,
         OwedIsHere, Working, Undoing, Before, AfterLog
<1>12. Fits'
  BY <1>1, <1>2, <1>4 DEF UpdateInv, TypeOK, Scripts, Flags, Done, Fits, Fitting, Working,
         Undoing, Before, Switched, AfterLink, AfterRepo, AfterFiles, AfterLog
<1> QED
  BY <1>5, <1>6, <1>7, <1>8, <1>9, <1>10, <1>11, <1>12 DEF UpdateInv

\* A command of the build.
LEMMA BuildStep ==
  ASSUME UpdateInv, Build
  PROVE  UpdateInv'
<1> USE DEF Build, To, scriptOnly
<1>1. TypeOK'
  BY DEF UpdateInv, TypeOK, Scripts, Working, Undoing, ReleaseStates
<1>2. Calls'
  BY DEF UpdateInv, Calls
<1>3. Runs' /\ Known' /\ Flags'
  BY DEF UpdateInv, TypeOK, Scripts, Runs, Known, Flags, Working, Undoing, Before
<1>4. Done'
  BY DEF UpdateInv, TypeOK, Scripts, Runs, Flags, Done, Working, Undoing, Before, Switched,
         AfterLink, AfterRepo, AfterFiles, AfterLog, ReleaseStates
<1>5. Ended'
  BY DEF UpdateInv, TypeOK, Scripts, Runs, Ended, Beyond, InstalledAll, Working, Undoing
<1>6. Built'
  BY DEF UpdateInv, TypeOK, Scripts, Flags, Built, Working, Undoing, Before, ReleaseStates
<1>7. Owing'
  BY DEF UpdateInv, TypeOK, Scripts, Runs, Flags, Owing, OwedIsKept, OwedIsHere, Working,
         Undoing, Before, AfterLog
<1>8. Fits'
  BY DEF UpdateInv, TypeOK, Scripts, Flags, Done, Fits, Fitting, Working, Undoing, Before,
         Switched, AfterLink, AfterRepo, AfterFiles, AfterLog
<1> QED
  BY <1>1, <1>2, <1>3, <1>4, <1>5, <1>6, <1>7, <1>8 DEF UpdateInv

\* The service is stopped.
LEMMA StopServiceStep ==
  ASSUME UpdateInv, StopService
  PROVE  UpdateInv'
<1> USE DEF StopService, To, scriptOnly, disk, Stops
<1>1. TypeOK'
  BY IdleTypes DEF UpdateInv, TypeOK, Scripts, Working, Undoing
<1>2. Calls'
  BY DEF UpdateInv, Calls, NoCall
<1>3. Runs' /\ Known' /\ Flags'
  BY DEF UpdateInv, TypeOK, Scripts, Runs, Known, Flags, Working, Undoing, Before
<1>4. Done'
  BY DEF UpdateInv, TypeOK, Scripts, Runs, Flags, Done, Working, Undoing, Before, Switched,
         AfterLink, AfterRepo, AfterFiles, AfterLog
<1>5. Ended'
  BY DEF UpdateInv, TypeOK, Scripts, Runs, Ended, Beyond, InstalledAll, Working, Undoing
<1>6. Built'
  BY DEF UpdateInv, TypeOK, Scripts, Flags, Built, Working, Undoing, Before
<1>7. Owing'
  <2>1. CASE db.torn
    BY <2>1 DEF UpdateInv, TypeOK, Scripts, Owing, OwedIsKept, OwedIsHere, AfterLog
  <2>2. CASE ~db.torn
    BY <2>2 DEF UpdateInv, TypeOK, Scripts, Databases, Owing, OwedIsHere, Working, Undoing,
                Before, AfterLog
  <2> QED
    BY <2>1, <2>2
<1>8. Fits'
  BY DEF UpdateInv, TypeOK, Scripts, Flags, Done, Fits, Fitting, Working, Undoing, Before,
         Switched, AfterLink, AfterRepo, AfterFiles, AfterLog
<1> QED
  BY <1>1, <1>2, <1>3, <1>4, <1>5, <1>6, <1>7, <1>8 DEF UpdateInv

\* The database is copied.
LEMMA CopyDatabaseStep ==
  ASSUME UpdateInv, CopyDatabase
  PROVE  UpdateInv'
<1> USE DEF CopyDatabase, To, scriptOnly
<1>1. TypeOK'
  <2>1. Partial \in Databases
    BY UpdateAssumption DEF Partial, Databases, Revisions
  <2>2. saved' \in Saved
    BY <2>1, SavedThere, SavedReplaced
  <2> QED
    BY <2>2 DEF UpdateInv, TypeOK, Scripts, Working, Undoing
<1>2. Calls'
  BY DEF UpdateInv, Calls
<1>3. Runs' /\ Known' /\ Flags'
  <2>1. Partial \in Databases
    BY UpdateAssumption DEF Partial, Databases, Revisions
  <2>2. saved' # None
    BY <2>1, SavedThere, SavedReplaced
  <2> QED
    BY <2>2 DEF UpdateInv, TypeOK, Scripts, Runs, Known, Flags, Working, Undoing, Before
<1>4. Done'
  BY DEF UpdateInv, TypeOK, Scripts, Runs, Flags, Done, Working, Undoing, Before, Switched,
         AfterLink, AfterRepo, AfterFiles, AfterLog, Saved
<1>5. Ended'
  BY DEF UpdateInv, TypeOK, Scripts, Runs, Ended, Beyond, InstalledAll, Working, Undoing,
         Saved
<1>6. Built'
  BY DEF UpdateInv, TypeOK, Scripts, Flags, Built, Working, Undoing, Before
<1>7. Owing'
  BY DEF UpdateInv, TypeOK, Scripts, Runs, Flags, Owing, OwedIsKept, OwedIsHere, Working,
         Undoing, Before, AfterLog, Saved
<1>8. Fits'
  BY DEF UpdateInv, TypeOK, Scripts, Flags, Done, Fits, Fitting, Working, Undoing, Before,
         Switched, AfterLink, AfterRepo, AfterFiles, AfterLog
<1> QED
  BY <1>1, <1>2, <1>3, <1>4, <1>5, <1>6, <1>7, <1>8 DEF UpdateInv

\* The copy is complete.
LEMMA CheckCopyStep ==
  ASSUME UpdateInv, CheckCopy
  PROVE  UpdateInv'
<1> USE DEF CheckCopy, To, scriptOnly
<1>1. TypeOK'
  <2>1. saved' \in Saved
    BY SavedThere, SavedReplaced DEF UpdateInv, TypeOK
  <2> QED
    BY <2>1 DEF UpdateInv, TypeOK, Scripts, Working, Undoing
<1>2. Calls'
  BY DEF UpdateInv, Calls
<1>3. Runs' /\ Known' /\ Flags'
  BY NoneAssumption DEF UpdateInv, TypeOK, Scripts, Runs, Known, Flags, Working, Undoing,
         Before, Saved
<1>4. Done'
  BY DEF UpdateInv, TypeOK, Scripts, Runs, Flags, Done, Working, Undoing, Before, Switched,
         AfterLink, AfterRepo, AfterFiles, AfterLog, Saved
<1>5. Ended'
  BY DEF UpdateInv, TypeOK, Scripts, Runs, Ended, Beyond, InstalledAll, Working, Undoing,
         Saved
<1>6. Built'
  BY DEF UpdateInv, TypeOK, Scripts, Flags, Built, Working, Undoing, Before
<1>7. Owing'
  BY DEF UpdateInv, TypeOK, Scripts, Runs, Flags, Owing, OwedIsKept, OwedIsHere, Working,
         Undoing, Before, AfterLog, Saved
<1>8. Fits'
  BY NoneAssumption DEF UpdateInv, TypeOK, Scripts, Flags, Done, Fits, Fitting, Working,
         Undoing, Before, Switched, AfterLink, AfterRepo, AfterFiles, AfterLog, Saved
<1> QED
  BY <1>1, <1>2, <1>3, <1>4, <1>5, <1>6, <1>7, <1>8 DEF UpdateInv

\* An installed file is replaced.
LEMMA InstallStep ==
  ASSUME UpdateInv, Install
  PROVE  UpdateInv'
<1> USE DEF Install, To, scriptOnly
<1>1. TypeOK'
  BY DEF UpdateInv, TypeOK, Scripts, Working, Undoing
<1>2. Calls'
  BY DEF UpdateInv, Calls
<1>3. Runs' /\ Known' /\ Flags'
  BY DEF UpdateInv, TypeOK, Scripts, Runs, Known, Flags, Working, Undoing, Before
<1>4. Done'
  BY DEF UpdateInv, TypeOK, Scripts, Runs, Flags, Done, Working, Undoing, Before, Switched,
         AfterLink, AfterRepo, AfterFiles, AfterLog
<1>5. Ended'
  BY DEF UpdateInv, TypeOK, Scripts, Runs, Ended, Beyond, InstalledAll, Working, Undoing
<1>6. Built'
  BY DEF UpdateInv, TypeOK, Scripts, Flags, Built, Working, Undoing, Before
<1>7. Owing'
  BY DEF UpdateInv, TypeOK, Scripts, Runs, Flags, Owing, OwedIsKept, OwedIsHere, Working,
         Undoing, Before, AfterLog
<1>8. Fits'
  BY DEF UpdateInv, TypeOK, Scripts, Flags, Done, Fits, Fitting, Working, Undoing, Before,
         Switched, AfterLink, AfterRepo, AfterFiles, AfterLog
<1> QED
  BY <1>1, <1>2, <1>3, <1>4, <1>5, <1>6, <1>7, <1>8 DEF UpdateInv

\* "current" is switched.
LEMMA SwitchLinkStep ==
  ASSUME UpdateInv, SwitchLink
  PROVE  UpdateInv'
<1> USE DEF SwitchLink, To, scriptOnly
<1>1. TypeOK'
  BY DEF UpdateInv, TypeOK, Scripts, Working, Undoing
<1>2. Calls'
  BY DEF UpdateInv, Calls
<1>3. Runs' /\ Known' /\ Flags'
  BY DEF UpdateInv, TypeOK, Scripts, Runs, Known, Flags, Working, Undoing, Before
<1>4. Done'
  BY DEF UpdateInv, TypeOK, Scripts, Runs, Flags, Done, Working, Undoing, Before, Switched,
         AfterLink, AfterRepo, AfterFiles, AfterLog
<1>5. Ended'
  BY DEF UpdateInv, TypeOK, Scripts, Runs, Ended, Beyond, InstalledAll, Working, Undoing
<1>6. Built'
  BY DEF UpdateInv, TypeOK, Scripts, Flags, Built, Working, Undoing, Before
<1>7. Owing'
  BY DEF UpdateInv, TypeOK, Scripts, Runs, Flags, Owing, OwedIsKept, OwedIsHere, Working,
         Undoing, Before, AfterLog
<1>8. Fits'
  BY UpdateAssumption DEF UpdateInv, TypeOK, Scripts, Flags, Done, Fits, Fitting, Working,
         Undoing, Before, Switched, AfterLink, AfterRepo, AfterFiles, AfterLog, Revisions,
         Databases
<1> QED
  BY <1>1, <1>2, <1>3, <1>4, <1>5, <1>6, <1>7, <1>8 DEF UpdateInv

\* The service is started on the new release.
LEMMA StartNewStep ==
  ASSUME UpdateInv, StartNew
  PROVE  UpdateInv'
<1> USE DEF StartNew, To, scriptOnly, disk
<1>1. TypeOK'
  BY StartsService DEF UpdateInv, TypeOK, Scripts, Working, Undoing
<1>2. Calls'
  BY DEF UpdateInv, Calls
<1>3. Runs' /\ Known' /\ Flags'
  BY DEF UpdateInv, TypeOK, Scripts, Runs, Known, Flags, Working, Undoing, Before
<1>4. Done'
  BY DEF UpdateInv, TypeOK, Scripts, Runs, Flags, Done, Working, Undoing, Before, Switched,
         AfterLink, AfterRepo, AfterFiles, AfterLog
<1>5. Ended'
  BY DEF UpdateInv, TypeOK, Scripts, Runs, Ended, Beyond, InstalledAll, Working, Undoing
<1>6. Built'
  BY DEF UpdateInv, TypeOK, Scripts, Flags, Built, Working, Undoing, Before
<1>7. Owing'
  BY StartsService DEF UpdateInv, TypeOK, Scripts, Runs, Flags, Owing, OwedIsKept,
         OwedIsHere, Working, Undoing, Before, AfterLog
<1>8. Fits'
  BY StartsService DEF UpdateInv, TypeOK, Scripts, Flags, Done, Fits, Fitting, Working,
         Undoing, Before, Switched, AfterLink, AfterRepo, AfterFiles, AfterLog
<1> QED
  BY <1>1, <1>2, <1>3, <1>4, <1>5, <1>6, <1>7, <1>8 DEF UpdateInv

\* The managed repository is moved.
LEMMA ResetRepoStep ==
  ASSUME UpdateInv, ResetRepo
  PROVE  UpdateInv'
<1> USE DEF ResetRepo, To, scriptOnly
<1>1. TypeOK'
  BY DEF UpdateInv, TypeOK, Scripts, Working, Undoing
<1>2. Calls'
  BY DEF UpdateInv, Calls
<1>3. Runs' /\ Known' /\ Flags'
  BY DEF UpdateInv, TypeOK, Scripts, Runs, Known, Flags, Working, Undoing, Before
<1>4. Done'
  BY DEF UpdateInv, TypeOK, Scripts, Runs, Flags, Done, Working, Undoing, Before, Switched,
         AfterLink, AfterRepo, AfterFiles, AfterLog
<1>5. Ended'
  BY DEF UpdateInv, TypeOK, Scripts, Runs, Ended, Beyond, InstalledAll, Working, Undoing
<1>6. Built'
  BY DEF UpdateInv, TypeOK, Scripts, Flags, Built, Working, Undoing, Before
<1>7. Owing'
  BY DEF UpdateInv, TypeOK, Scripts, Runs, Flags, Owing, OwedIsKept, OwedIsHere, Working,
         Undoing, Before, AfterLog
<1>8. Fits'
  BY DEF UpdateInv, TypeOK, Scripts, Flags, Done, Fits, Fitting, Working, Undoing, Before,
         Switched, AfterLink, AfterRepo, AfterFiles, AfterLog
<1> QED
  BY <1>1, <1>2, <1>3, <1>4, <1>5, <1>6, <1>7, <1>8 DEF UpdateInv

\* The rollback directory is removed.
LEMMA ClearStep ==
  ASSUME UpdateInv, Clear
  PROVE  UpdateInv'
<1> USE DEF Clear, To, scriptOnly
<1>1. TypeOK'
  BY DEF UpdateInv, TypeOK, Scripts, Working, Undoing
<1>2. Calls'
  BY DEF UpdateInv, Calls
<1>3. Runs' /\ Known' /\ Flags'
  BY DEF UpdateInv, TypeOK, Scripts, Runs, Known, Flags, Working, Undoing, Before
<1>4. Done'
  BY DEF UpdateInv, TypeOK, Scripts, Runs, Flags, Done, Working, Undoing, Before, Switched,
         AfterLink, AfterRepo, AfterFiles, AfterLog
<1>5. Ended'
  BY DEF UpdateInv, TypeOK, Scripts, Runs, Ended, Beyond, InstalledAll, Working, Undoing
<1>6. Built'
  BY DEF UpdateInv, TypeOK, Scripts, Flags, Built, Working, Undoing, Before
<1>7. Owing'
  BY DEF UpdateInv, TypeOK, Scripts, Runs, Flags, Owing, OwedIsKept, OwedIsHere, Working,
         Undoing, Before, AfterLog
<1>8. Fits'
  BY DEF UpdateInv, TypeOK, Scripts, Flags, Done, Fits, Fitting, Working, Undoing, Before,
         Switched, AfterLink, AfterRepo, AfterFiles, AfterLog
<1> QED
  BY <1>1, <1>2, <1>3, <1>4, <1>5, <1>6, <1>7, <1>8 DEF UpdateInv

\* The service is stopped again.
LEMMA UndoStopStep ==
  ASSUME UpdateInv, UndoStop
  PROVE  UpdateInv'
<1> USE DEF UndoStop, To, scriptOnly, disk, Stops
<1>1. TypeOK'
  BY IdleTypes DEF UpdateInv, TypeOK, Scripts, Working, Undoing
<1>2. Calls'
  BY DEF UpdateInv, Calls, NoCall
<1>3. Runs' /\ Known' /\ Flags'
  BY DEF UpdateInv, TypeOK, Scripts, Runs, Known, Flags, Working, Undoing, Before
<1>4. Done'
  BY DEF UpdateInv, TypeOK, Scripts, Runs, Flags, Done, Working, Undoing, Before, Switched,
         AfterLink, AfterRepo, AfterFiles, AfterLog
<1>5. Ended'
  BY DEF UpdateInv, TypeOK, Scripts, Runs, Ended, Beyond, InstalledAll, Working, Undoing
<1>6. Built'
  BY DEF UpdateInv, TypeOK, Scripts, Flags, Built, Working, Undoing, Before
<1>7. Owing'
  BY DEF UpdateInv, TypeOK, Scripts, Runs, Flags, Owing, OwedIsKept, OwedIsHere, Working,
         Undoing, Before, AfterLog
<1>8. Fits'
  BY DEF UpdateInv, TypeOK, Scripts, Flags, Done, Fits, Fitting, Working, Undoing, Before,
         Switched, AfterLink, AfterRepo, AfterFiles, AfterLog
<1> QED
  BY <1>1, <1>2, <1>3, <1>4, <1>5, <1>6, <1>7, <1>8 DEF UpdateInv

\* "current" goes back.
LEMMA UndoLinkStep ==
  ASSUME UpdateInv, UndoLink
  PROVE  UpdateInv'
<1> USE DEF UndoLink, To, scriptOnly
<1>1. TypeOK'
  BY DEF UpdateInv, TypeOK, Scripts, Working, Undoing
<1>2. Calls'
  BY DEF UpdateInv, Calls
<1>3. Runs' /\ Known' /\ Flags'
  BY DEF UpdateInv, TypeOK, Scripts, Runs, Known, Flags, Working, Undoing, Before
<1>4. Done'
  BY DEF UpdateInv, TypeOK, Scripts, Runs, Flags, Done, Working, Undoing, Before, Switched,
         AfterLink, AfterRepo, AfterFiles, AfterLog
<1>5. Ended'
  BY DEF UpdateInv, TypeOK, Scripts, Runs, Ended, Beyond, InstalledAll, Working, Undoing
<1>6. Built'
  BY DEF UpdateInv, TypeOK, Scripts, Flags, Built, Working, Undoing, Before
<1>7. Owing'
  BY DEF UpdateInv, TypeOK, Scripts, Runs, Flags, Owing, OwedIsKept, OwedIsHere, Working,
         Undoing, Before, AfterLog
<1>8. Fits'
  BY DEF UpdateInv, TypeOK, Scripts, Flags, Done, Fits, Fitting, Working, Undoing, Before,
         Switched, AfterLink, AfterRepo, AfterFiles, AfterLog
<1> QED
  BY <1>1, <1>2, <1>3, <1>4, <1>5, <1>6, <1>7, <1>8 DEF UpdateInv

\* The repository goes back.
LEMMA UndoRepoStep ==
  ASSUME UpdateInv, UndoRepo
  PROVE  UpdateInv'
<1> USE DEF UndoRepo, To, scriptOnly
<1>1. TypeOK'
  BY DEF UpdateInv, TypeOK, Scripts, Working, Undoing
<1>2. Calls'
  BY DEF UpdateInv, Calls
<1>3. Runs' /\ Known' /\ Flags'
  BY DEF UpdateInv, TypeOK, Scripts, Runs, Known, Flags, Working, Undoing, Before
<1>4. Done'
  BY DEF UpdateInv, TypeOK, Scripts, Runs, Flags, Done, Working, Undoing, Before, Switched,
         AfterLink, AfterRepo, AfterFiles, AfterLog
<1>5. Ended'
  BY DEF UpdateInv, TypeOK, Scripts, Runs, Ended, Beyond, InstalledAll, Working, Undoing
<1>6. Built'
  BY DEF UpdateInv, TypeOK, Scripts, Flags, Built, Working, Undoing, Before
<1>7. Owing'
  BY DEF UpdateInv, TypeOK, Scripts, Runs, Flags, Owing, OwedIsKept, OwedIsHere, Working,
         Undoing, Before, AfterLog
<1>8. Fits'
  BY DEF UpdateInv, TypeOK, Scripts, Flags, Done, Fits, Fitting, Working, Undoing, Before,
         Switched, AfterLink, AfterRepo, AfterFiles, AfterLog
<1> QED
  BY <1>1, <1>2, <1>3, <1>4, <1>5, <1>6, <1>7, <1>8 DEF UpdateInv

\* A file goes back.
LEMMA UndoFilesStep ==
  ASSUME UpdateInv, UndoFiles
  PROVE  UpdateInv'
<1> USE DEF UndoFiles, To, scriptOnly
<1>1. TypeOK'
  BY SavedThere DEF UpdateInv, TypeOK, Scripts, Working, Undoing
<1>2. Calls'
  BY DEF UpdateInv, Calls
<1>3. Runs' /\ Known' /\ Flags'
  BY DEF UpdateInv, TypeOK, Scripts, Runs, Known, Flags, Working, Undoing, Before
<1>4. Done'
  BY DEF UpdateInv, TypeOK, Scripts, Runs, Flags, Done, Working, Undoing, Before, Switched,
         AfterLink, AfterRepo, AfterFiles, AfterLog
<1>5. Ended'
  BY DEF UpdateInv, TypeOK, Scripts, Runs, Ended, Beyond, InstalledAll, Working, Undoing,
         Saved
<1>6. Built'
  BY DEF UpdateInv, TypeOK, Scripts, Flags, Built, Working, Undoing, Before
<1>7. Owing'
  BY DEF UpdateInv, TypeOK, Scripts, Runs, Flags, Owing, OwedIsKept, OwedIsHere, Working,
         Undoing, Before, AfterLog
<1>8. Fits'
  BY DEF UpdateInv, TypeOK, Scripts, Flags, Done, Fits, Fitting, Working, Undoing, Before,
         Switched, AfterLink, AfterRepo, AfterFiles, AfterLog
<1> QED
  BY <1>1, <1>2, <1>3, <1>4, <1>5, <1>6, <1>7, <1>8 DEF UpdateInv

\* The database goes back, beside the log of the newer one.
LEMMA UndoDataStep ==
  ASSUME UpdateInv, UndoData
  PROVE  UpdateInv'
<1> USE DEF UndoData, To, scriptOnly, disk
<1>1. TypeOK'
  BY SavedThere DEF UpdateInv, TypeOK, Scripts, Working, Undoing, Databases
<1>2. Calls'
  BY DEF UpdateInv, Calls
<1>3. Runs' /\ Known' /\ Flags'
  BY DEF UpdateInv, TypeOK, Scripts, Runs, Known, Flags, Working, Undoing, Before
<1>4. Done'
  BY DEF UpdateInv, TypeOK, Scripts, Runs, Flags, Done, Working, Undoing, Before, Switched,
         AfterLink, AfterRepo, AfterFiles, AfterLog
<1>5. Ended'
  BY DEF UpdateInv, TypeOK, Scripts, Runs, Ended, Beyond, InstalledAll, Working, Undoing
<1>6. Built'
  BY DEF UpdateInv, TypeOK, Scripts, Flags, Built, Working, Undoing, Before
<1>7. Owing'
  BY NoneAssumption DEF UpdateInv, TypeOK, Scripts, Runs, Flags, Owing, OwedIsKept,
         OwedIsHere, Working, Undoing, Before, AfterLog, Saved, Databases
<1>8. Fits'
  <2>1. CASE spoiled
    BY <2>1 DEF Fits
  <2>2. CASE ~spoiled
    <3>1. saved.db # None /\ saved.db \in Databases /\ saved.db.schema <= script.prev /\ script.ok
      BY <2>2, SavedThere DEF UpdateInv, Fits, Fitting, Working, Undoing
    <3>2. link = script.prev /\ service = None /\ service \in {None, link}
      BY <2>2, <3>1 DEF UpdateInv, Done, Fits, Fitting, AfterLink, AfterRepo, AfterFiles
    <3>3. db'.schema = saved.db.schema /\ script' = [script EXCEPT !.at = "undoLog"]
      BY <3>1 DEF Databases
    <3> QED
      BY <3>1, <3>2, <3>3 DEF UpdateInv, TypeOK, Scripts, Fits, Fitting, Working, Undoing, Before
  <2> QED
    BY <2>1, <2>2
<1> QED
  BY <1>1, <1>2, <1>3, <1>4, <1>5, <1>6, <1>7, <1>8 DEF UpdateInv

\* The log goes back.
LEMMA UndoLogStep ==
  ASSUME UpdateInv, UndoLog
  PROVE  UpdateInv'
<1> USE DEF UndoLog, To, scriptOnly, disk
<1>1. TypeOK'
  BY SavedThere DEF UpdateInv, TypeOK, Scripts, Working, Undoing, Databases
<1>2. Calls'
  BY DEF UpdateInv, Calls
<1>3. Runs' /\ Known' /\ Flags'
  BY DEF UpdateInv, TypeOK, Scripts, Runs, Known, Flags, Working, Undoing, Before
<1>4. Done'
  BY DEF UpdateInv, TypeOK, Scripts, Runs, Flags, Done, Working, Undoing, Before, Switched,
         AfterLink, AfterRepo, AfterFiles, AfterLog
<1>5. Ended'
  BY DEF UpdateInv, TypeOK, Scripts, Runs, Ended, Beyond, InstalledAll, Working, Undoing
<1>6. Built'
  BY DEF UpdateInv, TypeOK, Scripts, Flags, Built, Working, Undoing, Before
<1>7. Owing'
  BY NoneAssumption DEF UpdateInv, TypeOK, Scripts, Runs, Flags, Owing, OwedIsKept,
         OwedIsHere, Working, Undoing, Before, AfterLog, Saved, Databases
<1>8. Fits'
  BY DEF UpdateInv, TypeOK, Scripts, Flags, Done, Fits, Fitting, Working, Undoing, Before,
         Switched, AfterLink, AfterRepo, AfterFiles, AfterLog, Saved, Databases
<1> QED
  BY <1>1, <1>2, <1>3, <1>4, <1>5, <1>6, <1>7, <1>8 DEF UpdateInv

\* The service is started, unless it still runs.
LEMMA UndoStartStep ==
  ASSUME UpdateInv, UndoStart
  PROVE  UpdateInv'
<1> USE DEF UndoStart, To, scriptOnly, disk
<1>1. TypeOK'
  BY StartsService DEF UpdateInv, TypeOK, Scripts, Working, Undoing
<1>2. Calls'
  BY DEF UpdateInv, Calls
<1>3. Runs' /\ Known' /\ Flags'
  BY DEF UpdateInv, TypeOK, Scripts, Runs, Known, Flags, Working, Undoing, Before
<1>4. Done'
  BY DEF UpdateInv, TypeOK, Scripts, Runs, Flags, Done, Working, Undoing, Before, Switched,
         AfterLink, AfterRepo, AfterFiles, AfterLog
<1>5. Ended'
  BY DEF UpdateInv, TypeOK, Scripts, Runs, Ended, Beyond, InstalledAll, Working, Undoing
<1>6. Built'
  BY DEF UpdateInv, TypeOK, Scripts, Flags, Built, Working, Undoing, Before
<1>7. Owing'
  BY StartsService DEF UpdateInv, TypeOK, Scripts, Runs, Flags, Owing, OwedIsKept,
         OwedIsHere, Working, Undoing, Before, AfterLog
<1>8. Fits'
  BY StartsService DEF UpdateInv, TypeOK, Scripts, Flags, Done, Fits, Fitting, Working,
         Undoing, Before, Switched, AfterLink, AfterRepo, AfterFiles, AfterLog
<1> QED
  BY <1>1, <1>2, <1>3, <1>4, <1>5, <1>6, <1>7, <1>8 DEF UpdateInv

\* A step of the undoing fails.
LEMMA UndoFailsStep ==
  ASSUME UpdateInv, UndoFails
  PROVE  UpdateInv'
<1> USE DEF UndoFails, disk, talk, Mishap, NextUndo
<1>1. TypeOK'
  <2>1. script' \in Scripts
    BY DEF UpdateInv, TypeOK, Scripts, Working, Undoing
  <2>2. mishaps' \in 0..MaxMishaps
    BY UpdateAssumption DEF UpdateInv, TypeOK
  <2> QED
    BY <2>1, <2>2 DEF UpdateInv, TypeOK
<1>2. Calls'
  BY DEF UpdateInv, Calls
<1>3. Runs' /\ Known' /\ Flags'
  BY DEF UpdateInv, TypeOK, Scripts, Runs, Known, Flags, Working, Undoing, Before
<1>4. Done'
  BY DEF UpdateInv, TypeOK, Scripts, Runs, Flags, Done, Working, Undoing, Before, Switched,
         AfterLink, AfterRepo, AfterFiles, AfterLog
<1>5. Ended'
  BY DEF UpdateInv, TypeOK, Scripts, Runs, Ended, Beyond, InstalledAll, Working, Undoing
<1>6. Built'
  BY DEF UpdateInv, TypeOK, Scripts, Flags, Built, Working, Undoing, Before
<1>7. Owing'
  BY DEF UpdateInv, TypeOK, Scripts, Runs, Flags, Owing, OwedIsKept, OwedIsHere, Working,
         Undoing, Before, AfterLog
<1>8. Fits'
  BY DEF UpdateInv, TypeOK, Scripts, Flags, Done, Fits, Fitting, Working, Undoing, Before,
         Switched, AfterLink, AfterRepo, AfterFiles, AfterLog
<1> QED
  BY <1>1, <1>2, <1>3, <1>4, <1>5, <1>6, <1>7, <1>8 DEF UpdateInv

\* What was built in part cannot be removed.
LEMMA RemovalFailsStep ==
  ASSUME UpdateInv, RemovalFails
  PROVE  UpdateInv'
<1> USE DEF RemovalFails, disk, talk, Mishap
<1>1. TypeOK'
  <2>1. script' \in Scripts
    BY DEF UpdateInv, TypeOK, Scripts, Working, Undoing
  <2>2. mishaps' \in 0..MaxMishaps
    BY UpdateAssumption DEF UpdateInv, TypeOK
  <2> QED
    BY <2>1, <2>2 DEF UpdateInv, TypeOK
<1>2. Calls'
  BY DEF UpdateInv, Calls
<1>3. Runs' /\ Known' /\ Flags'
  BY DEF UpdateInv, TypeOK, Scripts, Runs, Known, Flags, Working, Undoing, Before
<1>4. Done'
  BY DEF UpdateInv, TypeOK, Scripts, Runs, Flags, Done, Working, Undoing, Before, Switched,
         AfterLink, AfterRepo, AfterFiles, AfterLog
<1>5. Ended'
  BY DEF UpdateInv, TypeOK, Scripts, Runs, Ended, Beyond, InstalledAll, Working, Undoing
<1>6. Built'
  BY DEF UpdateInv, TypeOK, Scripts, Flags, Built, Working, Undoing, Before
<1>7. Owing'
  BY DEF UpdateInv, TypeOK, Scripts, Runs, Flags, Owing, OwedIsKept, OwedIsHere, Working,
         Undoing, Before, AfterLog
<1>8. Fits'
  BY DEF UpdateInv, TypeOK, Scripts, Flags, Done, Fits, Fitting, Working, Undoing, Before,
         Switched, AfterLink, AfterRepo, AfterFiles, AfterLog
<1> QED
  BY <1>1, <1>2, <1>3, <1>4, <1>5, <1>6, <1>7, <1>8 DEF UpdateInv

\* The health of the old release is asked for, and a release not completed is removed.
LEMMA JudgeStep ==
  ASSUME UpdateInv, Judge
  PROVE  UpdateInv'
<1> USE DEF Judge, To, scriptOnly
<1>1. TypeOK'
  BY DEF UpdateInv, TypeOK, Scripts, Working, Undoing, ReleaseStates
<1>2. Calls'
  BY DEF UpdateInv, Calls
<1>3. Runs' /\ Known' /\ Flags'
  BY DEF UpdateInv, TypeOK, Scripts, Runs, Known, Flags, Working, Undoing, Before
<1>4. Done'
  BY DEF UpdateInv, TypeOK, Scripts, Runs, Flags, Done, Working, Undoing, Before, Switched,
         AfterLink, AfterRepo, AfterFiles, AfterLog, Healthy
<1>5. Ended'
  BY DEF UpdateInv, TypeOK, Scripts, Runs, Ended, Beyond, InstalledAll, Working, Undoing
<1>6. Built'
  BY DEF UpdateInv, TypeOK, Scripts, Flags, Built, Working, Undoing, Before
<1>7. Owing'
  BY DEF UpdateInv, TypeOK, Scripts, Runs, Flags, Owing, OwedIsKept, OwedIsHere, Working,
         Undoing, Before, AfterLog
<1>8. Fits'
  BY DEF UpdateInv, TypeOK, Scripts, Flags, Done, Fits, Fitting, Working, Undoing, Before,
         Switched, AfterLink, AfterRepo, AfterFiles, AfterLog
<1> QED
  BY <1>1, <1>2, <1>3, <1>4, <1>5, <1>6, <1>7, <1>8 DEF UpdateInv

\* The status tells how the undoing went.
LEMMA TellStep ==
  ASSUME UpdateInv, Tell
  PROVE  UpdateInv'
<1> USE DEF Tell, To, scriptOnly, disk
<1>1. TypeOK'
  BY DEF UpdateInv, TypeOK, Scripts, Working, Undoing, Reports, Report, States, Errors
<1>2. Calls'
  BY DEF UpdateInv, Calls
<1>3. Runs' /\ Known' /\ Flags'
  BY DEF UpdateInv, TypeOK, Scripts, Runs, Known, Flags, Working, Undoing, Before
<1>4. Done'
  BY DEF UpdateInv, TypeOK, Scripts, Runs, Flags, Done, Working, Undoing, Before, Switched,
         AfterLink, AfterRepo, AfterFiles, AfterLog
<1>5. Ended'
  BY DEF UpdateInv, TypeOK, Scripts, Runs, Ended, Beyond, InstalledAll, Working, Undoing
<1>6. Built'
  BY DEF UpdateInv, TypeOK, Scripts, Flags, Built, Working, Undoing, Before
<1>7. Owing'
  BY DEF UpdateInv, TypeOK, Scripts, Runs, Flags, Owing, OwedIsKept, OwedIsHere, Working,
         Undoing, Before, AfterLog
<1>8. Fits'
  BY DEF UpdateInv, TypeOK, Scripts, Flags, Done, Fits, Fitting, Working, Undoing, Before,
         Switched, AfterLink, AfterRepo, AfterFiles, AfterLog
<1> QED
  BY <1>1, <1>2, <1>3, <1>4, <1>5, <1>6, <1>7, <1>8 DEF UpdateInv

-----------------------------------------------------------------------------
(* systemd and the service                                                     *)

\* A user writes.
LEMMA UserWritesStep ==
  ASSUME UpdateInv, UserWrites
  PROVE  UpdateInv'
<1> USE DEF UserWrites, talk, disk, past, bounds
<1>1. TypeOK'
  <2>1. db' \in Databases
    BY UpdateAssumption DEF UpdateInv, TypeOK, Databases
  <2> QED
    BY <2>1 DEF UpdateInv, TypeOK
<1>2. Calls'
  BY DEF UpdateInv, Calls
<1>3. Runs' /\ Known' /\ Flags'
  BY DEF UpdateInv, TypeOK, Scripts, Runs, Known, Flags, Working, Undoing, Before
<1>4. Done'
  BY DEF UpdateInv, TypeOK, Scripts, Runs, Flags, Done, Working, Undoing, Before, Switched,
         AfterLink, AfterRepo, AfterFiles, AfterLog
<1>5. Ended'
  BY DEF UpdateInv, TypeOK, Scripts, Runs, Ended, Beyond, InstalledAll, Working, Undoing
<1>6. Built'
  BY DEF UpdateInv, TypeOK, Scripts, Flags, Built, Working, Undoing, Before
<1>7. Owing'
  BY DEF UpdateInv, TypeOK, Scripts, Runs, Flags, Owing, OwedIsKept, OwedIsHere, Working,
         Undoing, Before, AfterLog, Databases
<1>8. Fits'
  BY DEF UpdateInv, TypeOK, Scripts, Flags, Done, Fits, Fitting, Working, Undoing, Before,
         Switched, AfterLink, AfterRepo, AfterFiles, AfterLog, Databases
<1> QED
  BY <1>1, <1>2, <1>3, <1>4, <1>5, <1>6, <1>7, <1>8 DEF UpdateInv

\* The service ends and is started again.
LEMMA ServiceRestartsStep ==
  ASSUME UpdateInv, ServiceRestarts
  PROVE  UpdateInv'
<1> USE DEF ServiceRestarts, disk, past, Mishap
<1>1. TypeOK'
  BY IdleTypes, StartsService, UpdateAssumption DEF UpdateInv, TypeOK, Scripts, Working,
         Undoing
<1>2. Calls'
  BY DEF UpdateInv, Calls, NoCall
<1>3. Runs' /\ Known' /\ Flags'
  BY DEF UpdateInv, TypeOK, Scripts, Runs, Known, Flags, Working, Undoing, Before
<1>4. Done'
  BY StartsService DEF UpdateInv, TypeOK, Scripts, Runs, Flags, Done, Working, Undoing,
         Before, Switched, AfterLink, AfterRepo, AfterFiles, AfterLog, Fits, Fitting
<1>5. Ended'
  BY DEF UpdateInv, TypeOK, Scripts, Runs, Ended, Beyond, InstalledAll, Working, Undoing
<1>6. Built'
  BY DEF UpdateInv, TypeOK, Scripts, Flags, Built, Working, Undoing, Before
<1>7. Owing'
  BY StartsService DEF UpdateInv, TypeOK, Scripts, Runs, Flags, Owing, OwedIsKept,
         OwedIsHere, Working, Undoing, Before, AfterLog
<1>8. Fits'
  BY StartsService DEF UpdateInv, TypeOK, Scripts, Flags, Done, Fits, Fitting, Working,
         Undoing, Before, Switched, AfterLink, AfterRepo, AfterFiles, AfterLog
<1> QED
  BY <1>1, <1>2, <1>3, <1>4, <1>5, <1>6, <1>7, <1>8 DEF UpdateInv

\* The operator starts the service.
LEMMA OperatorStartsStep ==
  ASSUME UpdateInv, OperatorStarts
  PROVE  UpdateInv'
<1> USE DEF OperatorStarts, talk, disk, past, bounds
<1>1. TypeOK'
  BY StartsService DEF UpdateInv, TypeOK, Scripts, Working, Undoing
<1>2. Calls'
  BY DEF UpdateInv, Calls
<1>3. Runs' /\ Known' /\ Flags'
  BY DEF UpdateInv, TypeOK, Scripts, Runs, Known, Flags, Working, Undoing, Before
<1>4. Done'
  BY DEF UpdateInv, TypeOK, Scripts, Runs, Flags, Done, Working, Undoing, Before, Switched,
         AfterLink, AfterRepo, AfterFiles, AfterLog
<1>5. Ended'
  BY DEF UpdateInv, TypeOK, Scripts, Runs, Ended, Beyond, InstalledAll, Working, Undoing
<1>6. Built'
  BY DEF UpdateInv, TypeOK, Scripts, Flags, Built, Working, Undoing, Before
<1>7. Owing'
  BY StartsService DEF UpdateInv, TypeOK, Scripts, Runs, Flags, Owing, OwedIsKept,
         OwedIsHere, Working, Undoing, Before, AfterLog
<1>8. Fits'
  BY StartsService DEF UpdateInv, TypeOK, Scripts, Flags, Done, Fits, Fitting, Working,
         Undoing, Before, Switched, AfterLink, AfterRepo, AfterFiles, AfterLog
<1> QED
  BY <1>1, <1>2, <1>3, <1>4, <1>5, <1>6, <1>7, <1>8 DEF UpdateInv

\* A commit is pushed.
LEMMA PushStep ==
  ASSUME UpdateInv, Push
  PROVE  UpdateInv'
<1> USE DEF Push, talk, disk, past, bounds
<1>1. TypeOK'
  BY UpdateAssumption DEF UpdateInv, TypeOK, Scripts, Working, Undoing, Revisions
<1>2. Calls'
  BY DEF UpdateInv, Calls
<1>3. Runs' /\ Known' /\ Flags'
  BY UpdateAssumption DEF UpdateInv, TypeOK, Scripts, Runs, Known, Flags, Working, Undoing,
         Before, Revisions
<1>4. Done'
  BY DEF UpdateInv, TypeOK, Scripts, Runs, Flags, Done, Working, Undoing, Before, Switched,
         AfterLink, AfterRepo, AfterFiles, AfterLog
<1>5. Ended'
  BY UpdateAssumption DEF UpdateInv, TypeOK, Scripts, Runs, Ended, Beyond, InstalledAll,
         Working, Undoing, Revisions
<1>6. Built'
  BY DEF UpdateInv, TypeOK, Scripts, Flags, Built, Working, Undoing, Before
<1>7. Owing'
  BY DEF UpdateInv, TypeOK, Scripts, Runs, Flags, Owing, OwedIsKept, OwedIsHere, Working,
         Undoing, Before, AfterLog
<1>8. Fits'
  BY DEF UpdateInv, TypeOK, Scripts, Flags, Done, Fits, Fitting, Working, Undoing, Before,
         Switched, AfterLink, AfterRepo, AfterFiles, AfterLog
<1> QED
  BY <1>1, <1>2, <1>3, <1>4, <1>5, <1>6, <1>7, <1>8 DEF UpdateInv

\* The updater dies, and update.sh with it: what it had saved is kept.
LEMMA DeathStep ==
  ASSUME UpdateInv, Dies,
         UNCHANGED <<upstream, link, repo, installed, releases, owed, updates, status>>,
         request' \in Requests, api' \in {api, NoCall},
         \/ service' = service /\ db' = db
         \/ Starts
  PROVE  UpdateInv'
<1> USE DEF Dies, Mishap
<1>1. /\ service' \in Revisions \cup {None} /\ db' \in Databases
      /\ db'.writes = db.writes /\ db'.torn = db.torn
      /\ db.schema <= link => db'.schema <= link
      /\ service \in {None, link} => service' \in {None, link}
  BY StartsService DEF UpdateInv, TypeOK
<1>2. /\ NoScript.at = "idle" /\ ~NoScript.online /\ NoRunner.at = "idle"
      /\ NoScript.old = 0 /\ NoScript.prev = 0 /\ NoScript.target = 0
  BY DEF NoScript, NoRunner
<1>3. TypeOK'
  BY <1>1, <1>2, IdleTypes, UpdateAssumption DEF UpdateInv, TypeOK, Scripts, Working,
         Undoing
<1>4. Calls'
  BY <1>1, <1>2 DEF UpdateInv, Calls, NoCall
<1>5. Runs' /\ Known' /\ Flags'
  BY <1>1, <1>2, UpdateAssumption DEF UpdateInv, TypeOK, Scripts, Runs, Known, Flags,
         Working, Undoing, Before, Revisions
<1>6. Done'
  BY <1>1, <1>2 DEF UpdateInv, TypeOK, Scripts, Runs, Flags, Done, Working, Undoing, Before,
         Switched, AfterLink, AfterRepo, AfterFiles, AfterLog
<1>7. Ended'
  BY <1>1, <1>2 DEF UpdateInv, TypeOK, Scripts, Runs, Ended, Beyond, InstalledAll, Working,
         Undoing
<1>8. Built'
  BY <1>1, <1>2 DEF UpdateInv, TypeOK, Scripts, Flags, Built, Working, Undoing, Before
<1>9. Owing'
  BY <1>1, <1>2 DEF UpdateInv, TypeOK, Scripts, Runs, Flags, Owing, OwedIsKept, OwedIsHere,
         Working, Undoing, Before, AfterLog
<1>10. Fits'
  BY <1>1, <1>2 DEF UpdateInv, TypeOK, Scripts, Flags, Done, Fits, Fitting, Working,
         Undoing, Before, Switched, AfterLink, AfterRepo, AfterFiles, AfterLog
<1> QED
  BY <1>3, <1>4, <1>5, <1>6, <1>7, <1>8, <1>9, <1>10 DEF UpdateInv

-----------------------------------------------------------------------------
(* The invariant                                                               *)

\* At the start nothing is being updated.
LEMMA UpdateInit ==
  ASSUME Init
  PROVE  UpdateInv
<1> USE DEF Init
<1>1. 0 \in Revisions /\ 0 \in 0..MaxUpdates /\ 0 \in 0..MaxMishaps /\ 0 \in 0..MaxWrites
  BY UpdateAssumption DEF Revisions
<1>2. NoScript.at = "idle" /\ ~NoScript.online /\ NoScript.old = 0 /\ NoScript.prev = 0
      /\ NoScript.target = 0 /\ NoRunner.at = "idle" /\ NoCall.at = "idle" /\ NoCall.op = "none"
  BY DEF NoScript, NoRunner, NoCall
<1>3. db \in Databases /\ db.schema = 0 /\ ~db.torn /\ db.writes = 0
  BY <1>1 DEF Databases
<1>4. TypeOK
  BY <1>1, <1>3, IdleTypes DEF TypeOK, ReleaseStates
<1>5. Calls /\ Runs /\ Known /\ Flags /\ Done
  BY <1>2 DEF Calls, Runs, Known, Flags, Done, Working, Undoing, Before, Switched, AfterLink,
              AfterRepo, AfterFiles, AfterLog
<1>6. Ended /\ Built
  BY <1>2 DEF Ended, Built
<1>7. Owing /\ Fits
  BY <1>2, <1>3 DEF Owing, OwedIsKept, OwedIsHere, Fits, Fitting, Working, Undoing, Before, AfterLog
<1> QED
  BY <1>4, <1>5, <1>6, <1>7 DEF UpdateInv

\* Every step keeps the invariant.
LEMMA UpdateStep ==
  ASSUME UpdateInv, [Next]_vars
  PROVE  UpdateInv'
<1>1. CASE Backend
  BY <1>1, BackendStep
<1>2. CASE Runner
  BY <1>2, RunnerStep
<1>3. CASE RunOnline \/ RunByHand
  <2>1. mishaps' \in 0..MaxMishaps
    <3>1. mishaps \in 0..MaxMishaps
      BY DEF UpdateInv, TypeOK
    <3>2. mishaps' = mishaps \/ (mishaps < MaxMishaps /\ mishaps' = mishaps + 1)
      BY <1>3 DEF RunOnline, RunByHand, Mishap, bounds
    <3> QED
      BY <3>1, <3>2, UpdateAssumption
  <2>2. CASE RunOnline
    BY <2>1, <2>2, BeginsStep DEF RunOnline, bounds
  <2>3. CASE RunByHand
    BY <2>1, <2>3, BeginsStep DEF RunByHand
  <2> QED
    BY <1>3, <2>2, <2>3
<1>4. CASE Fetch
  BY <1>4, FetchStep
<1>5. CASE Build
  BY <1>5, BuildStep
<1>6. CASE Announce \/ Verify
  BY <1>6, SaysStep DEF Announce, Verify, Working
<1>7. CASE StopService \/ CopyDatabase \/ CheckCopy
  BY <1>7, StopServiceStep, CopyDatabaseStep, CheckCopyStep
<1>8. CASE Install \/ SwitchLink \/ StartNew
  BY <1>8, InstallStep, SwitchLinkStep, StartNewStep
<1>9. CASE CheckHealth \/ ResetRepo \/ Clear \/ Finish
  BY <1>9, CheckHealthStep, ResetRepoStep, ClearStep, FinishStep
<1>10. CASE Breaks \/ ClearBreaks \/ UndoFails \/ RemovalFails
  BY <1>10, BreaksStep, ClearBreaksStep, UndoFailsStep, RemovalFailsStep
<1>11. CASE UndoStop \/ UndoLink \/ UndoRepo \/ UndoFiles
  BY <1>11, UndoStopStep, UndoLinkStep, UndoRepoStep, UndoFilesStep
<1>12. CASE UndoData \/ UndoLog \/ UndoStart
  BY <1>12, UndoDataStep, UndoLogStep, UndoStartStep
<1>13. CASE Judge \/ Tell \/ Leave
  BY <1>13, JudgeStep, TellStep, LeaveStep
<1>14. CASE UserWrites \/ ServiceRestarts \/ OperatorStarts \/ Push
  BY <1>14, UserWritesStep, ServiceRestartsStep, OperatorStartsStep, PushStep
<1>15. CASE Killed \/ Reboot
  <2>1. request' \in Requests /\ api' \in {api, NoCall}
    BY <1>15, IdleTypes DEF Killed, Reboot, talk, UpdateInv, TypeOK
  <2> QED
    BY <1>15, <2>1, DeathStep DEF Killed, Reboot, talk
<1>16. CASE UNCHANGED vars
  BY <1>16 DEF vars, talk, disk, past, bounds, UpdateInv, TypeOK, Calls, Runs, Known, Flags, Done,
               Ended, Beyond, InstalledAll, Built, Owing, OwedIsKept, OwedIsHere, Fits, Fitting
<1> QED
  BY <1>1, <1>2, <1>3, <1>4, <1>5, <1>6, <1>7, <1>8, <1>9, <1>10, <1>11, <1>12, <1>13, <1>14,
     <1>15, <1>16 DEF Next, Update, Undo

\* Whatever fails, is killed or is undone, and whoever runs update.sh in
\* between, it, the updater, the disk and the database agree as UpdateInv says.
THEOREM UpdateInvAlways == Spec => []UpdateInv
<1>1. Init => UpdateInv
  BY UpdateInit
<1>2. UpdateInv /\ [Next]_vars => UpdateInv'
  BY UpdateStep
<1> QED
  BY <1>1, <1>2, PTL DEF Spec

-----------------------------------------------------------------------------
(* What it is for                                                              *)

\* Every variable keeps its type, and an update that failed leaves nothing
\* half-built (release_created, remove_created_release).
THEOREM OrderlyAlways == Spec => []Orderly
<1>1. UpdateInv => Orderly
  BY DEF UpdateInv, Built, Orderly, NothingHalfBuilt
<1> QED
  BY <1>1, UpdateInvAlways, PTL

\* What users had when update.sh stopped the service is in the database or lies
\* whole in a rollback directory, wherever the update, or its undoing, ends.
LEMMA UpdateInvUserDataKept ==
  ASSUME UpdateInv
  PROVE  UserDataKept
<1>1. CASE OwedIsKept
  BY <1>1 DEF OwedIsKept, UserDataKept
<1>2. CASE OwedIsHere
  BY <1>2 DEF OwedIsHere, UserDataKept
<1> QED
  BY <1>1, <1>2 DEF UpdateInv, Owing

\* ... in every reachable state.
THEOREM UserDataKeptAlways == Spec => []UserDataKept
<1>1. UpdateInv => UserDataKept
  BY UpdateInvUserDataKept
<1> QED
  BY <1>1, UpdateInvAlways, PTL

\* Until an update is killed or cannot be undone, no release serves a database
\* that a newer one has converted, nor one beside the wrong log.
LEMMA UpdateInvDataFitsCode ==
  ASSUME UpdateInv
  PROVE  DataFitsCode
<1>1. SUFFICES ASSUME service # None, ~spoiled
               PROVE  db.schema <= service /\ ~db.torn
  BY DEF DataFitsCode
<1>2. Fitting /\ script \in Scripts
  BY <1>1 DEF UpdateInv, Fits, TypeOK
<1>3. service = link /\ script.at \notin {"undoRepo", "undoFiles", "undoData", "undoLog"}
  BY <1>1, <1>2 DEF Fitting
<1> QED
  BY <1>2, <1>3 DEF Fitting

\* ... in every reachable state.
THEOREM DataFitsCodeAlways == Spec => []DataFitsCode
<1>1. UpdateInv => DataFitsCode
  BY UpdateInvDataFitsCode
<1> QED
  BY <1>1, UpdateInvAlways, PTL

\* A step that says "completed", or "rolled back", says what is the case.
LEMMA StepReportsAreTrue ==
  ASSUME UpdateInv, [Next]_vars
  PROVE  /\ status'.error = "rolled_back" /\ status.error # "rolled_back" => BackAtOld
         /\ status'.state = "completed" /\ status.state # "completed" =>
              InstalledAll(status'.candidate)
<1>1. CASE status' = status
  BY <1>1
<1>2. CASE Backend
  <2>1. CASE Answer
    <3>1. status' = api.seen /\ api.at = "answer"
      BY <2>1 DEF Answer
    <3> QED
      BY <3>1 DEF UpdateInv, Calls
  <2>2. CASE Expire \/ TriggerFails \/ StartCheck \/ Queue
    <3>1. status'.state \in {"failed", "checking", "queued"} /\ status'.error \in {"none", "other"}
      BY <2>2 DEF Expire, TriggerFails, StartCheck, Queue, Report
    <3> QED
      BY <3>1
  <2>3. ASSUME \/ \E op \in {"get", "check", "queue"} : Read(op)
               \/ InTime \/ Overdue \/ RemoveTrigger \/ Return \/ Ask \/ WriteTrigger
        PROVE  status' = status
    BY <2>3 DEF Read, InTime, Overdue, Reconcile, RemoveTrigger, Return, Ask, WriteTrigger
  <2> QED
    BY <1>1, <1>2, <2>1, <2>2, <2>3 DEF Backend
<1>3. CASE Complete
  <2>1. status'.state = "completed" /\ status'.error = "none"
        /\ status'.candidate = runner.candidate /\ runner.at = "ended"
    BY <1>3 DEF Complete, Report
  <2> QED
    BY <2>1 DEF UpdateInv, Ended, Beyond
<1>4. CASE Runner /\ ~Complete
  <2>1. \/ status' = status
        \/ /\ status'.state \in {"updating", "failed"}
           /\ status'.error \in {"none", "other", status.error}
    BY <1>4 DEF Runner, StartUpdater, TakeRequest, FindNothing, Reject, BeginJob, FindLocked,
                CompleteFails, ReportFailure, Report
  <2> QED
    BY <1>1, <2>1
<1>5. CASE Tell
  <2>1. \/ status' = status
        \/ status'.state = "failed" /\ (status'.error = "rolled_back" => script.ok)
    BY <1>5 DEF Tell, Report
  <2>2. script.at = "tell"
    BY <1>5 DEF Tell
  <2>3. script.ok => BackAtOld
    BY <2>2 DEF UpdateInv, Done, BackAtOld, AfterLink, AfterRepo, AfterFiles, AfterLog
  <2> QED
    BY <1>1, <2>1, <2>3
<1>6. CASE Announce \/ Verify
  <2>1. \/ status' = status
        \/ status'.state \in {"restarting", "verifying"} /\ status'.error = "none"
    BY <1>6 DEF Announce, Verify, Says, Report
  <2> QED
    BY <1>1, <2>1
<1>7. CASE Finish
  BY <1>1, <1>7 DEF Finish, Blank, Report
<1>8. ASSUME \/ RunOnline \/ RunByHand \/ Fetch \/ Build \/ StopService \/ CopyDatabase \/ CheckCopy
             \/ Install \/ SwitchLink \/ StartNew \/ CheckHealth \/ ResetRepo \/ Clear
             \/ UndoStop \/ UndoLink \/ UndoRepo \/ UndoFiles \/ UndoData \/ UndoLog \/ UndoStart
             \/ Judge \/ Leave \/ Breaks \/ ClearBreaks \/ UndoFails \/ RemovalFails
             \/ UserWrites \/ ServiceRestarts \/ OperatorStarts \/ Killed \/ Reboot \/ Push
             \/ UNCHANGED vars
      PROVE  status' = status
  BY <1>8 DEF RunOnline, RunByHand, Begins, Fetch, Build, StopService, CopyDatabase, CheckCopy,
              Install, SwitchLink, StartNew, CheckHealth, ResetRepo, Clear, UndoStop, UndoLink,
              UndoRepo, UndoFiles, UndoData, UndoLog, UndoStart, Judge, Leave, Breaks, ClearBreaks,
              UndoFails, RemovalFails, UserWrites, ServiceRestarts, OperatorStarts, Killed, Reboot, Push, vars,
              talk
<1> QED
  BY <1>1, <1>2, <1>3, <1>4, <1>5, <1>6, <1>7, <1>8 DEF Next, Update, Undo

\* An administrator is told that an update is completed, or rolled back, only
\* when it is, however often it was tried before and whoever ran it by hand.
THEOREM ReportsAreTrueAlways == Spec => ReportsAreTrue
<1>1. UpdateInv /\ [Next]_vars =>
        [ /\ (status'.error = "rolled_back" /\ status.error # "rolled_back" => BackAtOld)
          /\ (status'.state = "completed" /\ status.state # "completed" =>
                InstalledAll(status'.candidate)) ]_vars
  BY StepReportsAreTrue
<1> QED
  BY <1>1, UpdateInvAlways, PTL DEF Spec, ReportsAreTrue
=============================================================================
