---------------------------- MODULE BackendUpdate ----------------------------
(***************************************************************************)
(* The on-line update of the backend.  Three parties share two files: the  *)
(* backend (backend_update.py) answers administrators and asks for a run   *)
(* by writing a request; a path unit of systemd starts the updater when    *)
(* the request exists; the updater (qingjuan-update-runner.sh) takes it,   *)
(* runs update.sh and reports in the status file.  update.sh builds the    *)
(* release beside the running one, stops the service, copies the database, *)
(* replaces the installed files, points "current" at the release, starts   *)
(* the service on it and asks for its health; whatever fails is undone by  *)
(* its exit trap.  An operator may run update.sh as well.                  *)
(*                                                                         *)
(* A step is one read, write or rename of a shared file or one command;    *)
(* the backend's three calls exclude each other (_UPDATE_LOCK), the        *)
(* updater is another process.  Revisions are numbered along upstream,     *)
(* which only grows.  A revision also stands for its version.              *)
(***************************************************************************)
EXTENDS Integers, FiniteSets

CONSTANTS
  Artifacts,    \* what is installed outside of the release: configuration, units, commands
  None,
  Bad,          \* the revisions that start but are not healthy
  MaxRevision,  \* bound: commits upstream
  MaxUpdates,   \* bound: updates the backend accepts
  MaxMishaps,   \* bound: failing steps, deaths of the updater or the machine, ends of the service, runs by hand
  MaxWrites     \* bound: writes of users

Revisions == 0..MaxRevision

ASSUME UpdateAssumption ==
  /\ None \notin Revisions
  /\ Bad \subseteq Revisions \ {0}
  /\ MaxRevision \in Nat /\ MaxUpdates \in Nat /\ MaxMishaps \in Nat /\ MaxWrites \in Nat

VARIABLES
  upstream,   \* the commit the fixed branch points to
  status,     \* backend-update.json
  request,    \* update-request.json
  api,        \* the backend's call in progress, and what it has read
  runner,     \* the updater
  script,     \* update.sh, which holds the maintenance lock while it runs
  saved,      \* its rollback directory
  kept,       \* the rollback directories of runs that broke off or could not undo
  link, repo, installed, releases,   \* "current", the managed repository, the files, the releases
  service,    \* the release the backend runs from, or None
  db,         \* the database
  owed,       \* history: the data users left when the service was last stopped
  spoiled,    \* history: an update was killed, or its undoing failed in a step
  killed,     \* history: the updater was killed, or the machine went down
  updates, mishaps

talk   == <<status, request, api>>
disk   == <<saved, kept, link, repo, installed, releases>>
past   == <<owed, spoiled, killed>>
bounds == <<updates, mishaps>>
vars   == <<upstream, talk, runner, script, disk, service, db, past, bounds>>

-----------------------------------------------------------------------------
(* The data *)

Active == {"checking", "queued", "updating", "restarting", "verifying"}

States == Active \cup {"idle", "up_to_date", "available", "completed", "failed"}

Errors == {"none", "other", "rolled_back", "rollback_failed"}

Report(state, job, candidate, error) ==
  [state |-> state, job |-> job, candidate |-> candidate, error |-> error]

\* No status file.
Blank == Report("idle", 0, None, "none")

NoRequest == [job |-> 0, candidate |-> None]

NoCall == [op |-> "none", at |-> "idle", seen |-> Blank]

NoRunner == [at |-> "idle", job |-> 0, candidate |-> None]

\* old, prev: the repository and "current" as update.sh found them.  built: it
\* created the release of the target.  ok: no step of its undoing failed.
NoScript == [at |-> "idle", online |-> FALSE, old |-> 0, prev |-> 0, target |-> 0,
             built |-> FALSE, stopped |-> FALSE, cutover |-> FALSE, ok |-> TRUE]

\* A directory whose REVISION and interpreter are there, and one whose
\* requirements and permissions are too.
ReleaseStates == {"absent", "partial", "unpacked", "ready"}

\* torn: the database and its log do not belong together.
Databases == [schema : Revisions, writes : 0..MaxWrites, torn : BOOLEAN]

\* A copy of the database that is not complete.
Partial == [schema |-> 0, writes |-> 0, torn |-> TRUE]

Saved == [installed : [Artifacts -> Revisions \cup {None}], db : Databases \cup {None}]

\* What is not there is unlike all that could be.
ASSUME NoneAssumption == None \notin Databases /\ None \notin Saved

Larger(m, n) == IF m >= n THEN m ELSE n

Matches(r, s) == r # NoRequest /\ r.job = s.job /\ r.candidate = s.candidate

Init ==
  /\ upstream = 0 /\ status = Blank /\ request = NoRequest /\ api = NoCall
  /\ runner = NoRunner /\ script = NoScript /\ saved = None /\ kept = {}
  /\ link = 0 /\ repo = 0 /\ installed = [a \in Artifacts |-> 0]
  /\ releases = [r \in Revisions |-> IF r = 0 THEN "ready" ELSE "absent"]
  /\ service = 0 /\ db = [schema |-> 0, writes |-> 0, torn |-> FALSE]
  /\ owed = db /\ spoiled = FALSE /\ killed = FALSE
  /\ updates = 0 /\ mishaps = 0

Mishap == mishaps < MaxMishaps /\ mishaps' = mishaps + 1

-----------------------------------------------------------------------------
(* The backend: get_backend_update_status, check_for_backend_update and        *)
(* queue_backend_update, each under _UPDATE_LOCK                               *)

backendOnly == <<upstream, runner, script, disk, service, db, past>>

\* Every call begins by reading the status file.  One that would only tell what
\* it reads, or be refused for it, is left out.
Read(op) ==
  /\ service # None /\ api.at = "idle"
  /\ \/ status.state = "queued" /\ op \in {"get", "check"}
     \/ status.state \notin Active \ {"checking"} /\ op = "check"
     \/ status.state = "available" /\ op = "queue" /\ updates < MaxUpdates
  /\ api' = [op |-> op, at |-> IF status.state = "queued" THEN "reconcile" ELSE "decide", seen |-> status]
  /\ UNCHANGED <<backendOnly, status, request, bounds>>

\* _reconcile_queued_status: the job is younger than thirty seconds, or its
\* request is there and it is younger than five minutes.
Reconcile(next) ==
  /\ api.at = "reconcile"
  /\ api' = [api EXCEPT !.at = next]
  /\ UNCHANGED <<backendOnly, status, request, bounds>>

InTime == Reconcile("decide")

\* For mutation: a request that is not there is taken to be on its way.
OverdueIfThere == Reconcile(IF Matches(request, api.seen) THEN "remove" ELSE "decide")

\* The request has not come, or it is still there after five minutes.
Overdue == Reconcile(IF Matches(request, api.seen) THEN "remove" ELSE "expire")

\* _remove_matching_queued_trigger, which reads the request again.
RemoveTrigger ==
  /\ api.at = "remove"
  /\ request' = IF Matches(request, api.seen) THEN NoRequest ELSE request
  /\ api' = [api EXCEPT !.at = "expire"]
  /\ UNCHANGED <<backendOnly, status, bounds>>

\* _fail_queued_status: from what was read, whatever the file says by now.
Expire ==
  /\ api.at = "expire"
  /\ LET failed == Report("failed", api.seen.job, api.seen.candidate, "other")
     IN  status' = failed /\ api' = [api EXCEPT !.at = "decide", !.seen = failed]
  /\ UNCHANGED <<backendOnly, request, bounds>>

\* The answer to a reader; a check that is refused.
Return ==
  /\ api.at = "decide"
  /\ \/ api.op = "get"
     \/ api.op = "check" /\ api.seen.state = "queued"
  /\ api' = NoCall
  /\ UNCHANGED <<backendOnly, status, request, bounds>>

StartCheck ==
  /\ api.at = "decide" /\ api.op = "check" /\ api.seen.state # "queued"
  /\ status' = Report("checking", 0, None, "none")
  /\ api' = [api EXCEPT !.at = "asking", !.seen = Blank]
  /\ UNCHANGED <<backendOnly, request, bounds>>

\* git tells the two revisions, or an error.
Ask ==
  /\ api.at = "asking"
  /\ \E found \in {Report(IF upstream = repo THEN "up_to_date" ELSE "available", 0, upstream, "none"),
                   Report("failed", 0, None, "other")} :
       api' = [api EXCEPT !.at = "answer", !.seen = found]
  /\ UNCHANGED <<backendOnly, status, request, bounds>>

Answer ==
  /\ api.at = "answer"
  /\ status' = api.seen /\ api' = NoCall
  /\ UNCHANGED <<backendOnly, request, bounds>>

\* The candidate confirmed is the one the status shows; a job begins.
Queue ==
  /\ api.at = "decide" /\ api.op = "queue"
  /\ LET queued == Report("queued", updates + 1, api.seen.candidate, "none")
     IN  status' = queued /\ api' = [api EXCEPT !.at = "trigger", !.seen = queued]
  /\ updates' = updates + 1
  /\ UNCHANGED <<backendOnly, request, mishaps>>

WriteTrigger ==
  /\ api.at = "trigger"
  /\ request' = [job |-> api.seen.job, candidate |-> api.seen.candidate]
  /\ api' = NoCall
  /\ UNCHANGED <<backendOnly, status, bounds>>

\* The request cannot be written: UPDATE_TRIGGER_FAILED.
TriggerFails ==
  /\ api.at = "trigger" /\ Mishap
  /\ status' = Report("failed", api.seen.job, api.seen.candidate, "other")
  /\ api' = NoCall
  /\ UNCHANGED <<backendOnly, request, updates>>

Backend ==
  \/ \E op \in {"get", "check", "queue"} : Read(op)
  \/ InTime \/ Overdue \/ RemoveTrigger \/ Expire \/ Return
  \/ StartCheck \/ Ask \/ Answer
  \/ Queue \/ WriteTrigger \/ TriggerFails

-----------------------------------------------------------------------------
(* systemd and the service *)

\* The service ends with the call in progress, and with it its runtime
\* directory, in which the request is.
Stops == service' = None /\ request' = NoRequest /\ api' = NoCall

\* The service runs what "current" points to and brings the schema up to date,
\* when the release can be imported at all.
Starts ==
  IF \E a \in Artifacts : installed[a] = None
  THEN service' = None /\ UNCHANGED db
  ELSE /\ service' = link
       /\ db' = [db EXCEPT !.schema = IF releases[link] = "ready" THEN Larger(@, link) ELSE @]

Healthy(r) == service = r /\ releases[r] = "ready" /\ r \notin Bad

\* A write of a user.
UserWrites ==
  /\ service # None /\ releases[service] = "ready" /\ db.writes < MaxWrites
  /\ db' = [db EXCEPT !.writes = @ + 1]
  /\ UNCHANGED <<upstream, talk, runner, script, disk, service, past, bounds>>

\* Restart=on-failure.
ServiceRestarts ==
  /\ service # None /\ Mishap
  /\ request' = NoRequest /\ api' = NoCall /\ Starts
  /\ UNCHANGED <<upstream, status, runner, script, disk, past, updates>>

\* The operator starts a service that an update has left stopped.
OperatorStarts ==
  /\ service = None /\ script.at = "idle" /\ runner.at = "idle"
  /\ Starts
  /\ UNCHANGED <<upstream, talk, runner, script, disk, past, bounds>>

\* The updater is killed, by hand or for want of memory; its directory stays.
Dies ==
  /\ Mishap
  /\ runner' = NoRunner /\ script' = NoScript
  /\ spoiled' = (spoiled \/ script.at # "idle") /\ killed' = TRUE
  /\ kept' = IF saved = None THEN kept ELSE kept \cup {saved}
  /\ saved' = None

Killed ==
  /\ (runner.at # "idle" \/ script.at # "idle")
  /\ Dies
  /\ UNCHANGED <<upstream, talk, link, repo, installed, releases, service, db, owed, updates>>

\* The machine goes down and comes up again: /run is empty, the service starts.
Reboot ==
  /\ Dies /\ Starts
  /\ request' = NoRequest /\ api' = NoCall
  /\ UNCHANGED <<upstream, status, link, repo, installed, releases, owed, updates>>

\* A commit is pushed.
Push ==
  /\ upstream < MaxRevision /\ upstream' = upstream + 1
  /\ UNCHANGED <<talk, runner, script, disk, service, db, past, bounds>>

-----------------------------------------------------------------------------
(* The updater: qingjuan-update-runner.sh                                      *)

runnerOnly == <<upstream, api, disk, service, db, past, updates>>

\* PathExists in qingjuan-updater.path.
StartUpdater ==
  /\ runner.at = "idle" /\ request # NoRequest
  /\ runner' = [runner EXCEPT !.at = "started"]
  /\ UNCHANGED <<runnerOnly, status, request, script, mishaps>>

TakeRequest ==
  /\ runner.at = "started" /\ request # NoRequest
  /\ runner' = [at |-> "taken", job |-> request.job, candidate |-> request.candidate]
  /\ request' = NoRequest
  /\ UNCHANGED <<runnerOnly, status, script, mishaps>>

\* The request is gone when the updater looks for it, or when it opens it.
FindNothing ==
  /\ runner.at = "started" /\ request = NoRequest
  /\ runner' = NoRunner
  /\ UNCHANGED <<runnerOnly, status, request, script, mishaps>>

Reject ==
  /\ runner.at = "started" /\ request = NoRequest
  /\ runner' = NoRunner
  /\ status' = IF status.state = "queued" THEN Report("failed", status.job, status.candidate, "other") ELSE status
  /\ UNCHANGED <<runnerOnly, request, script, mishaps>>

\* write_status "updating".
BeginJob ==
  /\ runner.at = "taken"
  /\ status' = Report("updating", runner.job, runner.candidate, "none")
  /\ runner' = [runner EXCEPT !.at = "ready"]
  /\ UNCHANGED <<runnerOnly, request, script, mishaps>>

\* update.sh finds the maintenance lock taken.
FindLocked ==
  /\ runner.at = "ready" /\ script.at # "idle"
  /\ runner' = [runner EXCEPT !.at = "failed"]
  /\ UNCHANGED <<runnerOnly, status, request, script, mishaps>>

\* write_status "completed".
Complete ==
  /\ runner.at = "ended"
  /\ status' = Report("completed", runner.job, runner.candidate, "none")
  /\ runner' = NoRunner
  /\ UNCHANGED <<runnerOnly, request, script, mishaps>>

CompleteFails ==
  /\ runner.at = "ended" /\ Mishap
  /\ runner' = [runner EXCEPT !.at = "failed"]
  /\ UNCHANGED <<runnerOnly, status, request, script>>

\* on_exit: what update.sh said of its undoing is left as it is.
ReportFailure ==
  /\ runner.at = "failed"
  /\ LET told == status.job = runner.job /\ status.state = "failed"
                 /\ status.error \in {"rolled_back", "rollback_failed"}
     IN  status' = Report("failed", runner.job, runner.candidate, IF told THEN status.error ELSE "other")
  /\ runner' = NoRunner
  /\ UNCHANGED <<runnerOnly, request, script, mishaps>>

Runner ==
  \/ StartUpdater \/ TakeRequest \/ FindNothing \/ Reject \/ BeginJob
  \/ FindLocked \/ Complete \/ CompleteFails \/ ReportFailure

-----------------------------------------------------------------------------
(* update.sh                                                                   *)

scriptOnly == <<upstream, runner, spoiled, killed, updates>>

Working == {"fetch", "build", "announce", "stop", "copy", "check", "install", "switch",
            "start", "verify", "health", "reset", "clear"}

\* rollback_update, in its order.
Undoing == {"undoStop", "undoLink", "undoRepo", "undoFiles", "undoData", "undoLog", "undoStart"}

NextUndo ==
  [at \in Undoing |->
     CASE at = "undoStop"  -> "undoLink"
       [] at = "undoLink"  -> "undoRepo"
       [] at = "undoRepo"  -> "undoFiles"
       [] at = "undoFiles" -> "undoData"
       [] at = "undoData"  -> "undoLog"
       [] at = "undoLog"   -> "undoStart"
       [] at = "undoStart" -> "judge"]

To(at) == script' = [script EXCEPT !.at = at]

\* For mutation: before the cutover there is nothing to undo.
BrokenEarly(s) == [s EXCEPT !.at = IF s.cutover THEN "undoStop" ELSE "judge"]

\* The exit trap: what was not begun need not be undone.
Broken(s) == [s EXCEPT !.at = IF s.cutover THEN "undoStop" ELSE IF s.stopped THEN "undoStart" ELSE "judge"]

\* It takes the lock, remembers where it is and copies the installed files.
Begins(online) ==
  /\ script.at = "idle"
  /\ script' = [NoScript EXCEPT !.at = "fetch", !.online = online, !.old = repo, !.prev = link]
  /\ saved' = [installed |-> installed, db |-> None]
  /\ UNCHANGED <<upstream, talk, kept, link, repo, installed, releases, service, db, past>>

RunOnline ==
  /\ runner.at = "ready" /\ runner' = [runner EXCEPT !.at = "running"]
  /\ Begins(TRUE) /\ UNCHANGED bounds

RunByHand ==
  /\ Mishap
  /\ Begins(FALSE) /\ UNCHANGED <<runner, updates>>

\* For mutation: an online update installs what there is.
FetchNewest ==
  /\ script.at = "fetch"
  /\ LET s == [script EXCEPT !.target = upstream]
     IN  script' = IF releases[upstream] = "partial"
                   THEN Broken(s)
                   ELSE [s EXCEPT !.at = IF releases[upstream] = "absent" THEN "build" ELSE "announce",
                                  !.built = (releases[upstream] = "absent")]
  /\ UNCHANGED <<scriptOnly, status, request, api, disk, service, db, owed, mishaps>>

\* An online update installs the candidate or nothing; a release that is there
\* is used when its REVISION and interpreter are.
Fetch ==
  /\ script.at = "fetch"
  /\ LET s == [script EXCEPT !.target = upstream]
     IN  script' = IF (script.online /\ upstream # runner.candidate) \/ releases[upstream] = "partial"
                   THEN Broken(s)
                   ELSE [s EXCEPT !.at = IF releases[upstream] = "absent" THEN "build" ELSE "announce",
                                  !.built = (releases[upstream] = "absent")]
  /\ UNCHANGED <<scriptOnly, status, request, api, disk, service, db, owed, mishaps>>

\* git archive, REVISION and venv; then pip install, permissions, import test.
Build ==
  /\ script.at = "build"
  /\ LET r == releases[script.target]
     IN  /\ releases' = [releases EXCEPT ![script.target] =
                           IF r = "absent" THEN "partial" ELSE IF r = "partial" THEN "unpacked" ELSE "ready"]
         /\ To(IF r = "unpacked" THEN "announce" ELSE "build")
  /\ UNCHANGED <<scriptOnly, status, request, api, saved, kept, link, repo, installed, service, db, owed, mishaps>>

\* write_online_state, which refuses the status of another job.
Says(state, next) ==
  /\ IF script.online
     THEN IF status.job = runner.job
          THEN status' = Report(state, status.job, status.candidate, "none") /\ To(next)
          ELSE script' = Broken(script) /\ UNCHANGED status
     ELSE To(next) /\ UNCHANGED status
  /\ UNCHANGED <<scriptOnly, request, api, disk, service, db, owed, mishaps>>

Announce == script.at = "announce" /\ Says("restarting", "stop")

StopService ==
  /\ script.at = "stop"
  /\ script' = [script EXCEPT !.at = "copy", !.stopped = TRUE]
  /\ Stops
  /\ owed' = IF db.torn THEN owed ELSE db
  /\ UNCHANGED <<scriptOnly, status, disk, db, mishaps>>

\* For mutation: the cutover begins before the copy is whole.
CopyDatabaseReady ==
  /\ script.at = "copy"
  /\ saved' = [saved EXCEPT !.db = Partial]
  /\ script' = [script EXCEPT !.at = "check", !.cutover = TRUE]
  /\ UNCHANGED <<scriptOnly, status, request, api, kept, link, repo, installed, releases, service, db, owed, mishaps>>

CopyDatabase ==
  /\ script.at = "copy"
  /\ saved' = [saved EXCEPT !.db = Partial] /\ To("check")
  /\ UNCHANGED <<scriptOnly, status, request, api, kept, link, repo, installed, releases, service, db, owed, mishaps>>

\* The log is copied too and the copy passes quick_check: from here on
\* (database_backup_ready, cutover_started) a failure restores everything.
CheckCopy ==
  /\ script.at = "check"
  /\ saved' = [saved EXCEPT !.db = db]
  /\ script' = [script EXCEPT !.at = "install", !.cutover = TRUE]
  /\ UNCHANGED <<scriptOnly, status, request, api, kept, link, repo, installed, releases, service, db, owed, mishaps>>

Install ==
  /\ script.at = "install"
  /\ IF \A a \in Artifacts : installed[a] = script.target
     THEN To("switch") /\ UNCHANGED installed
     ELSE /\ \E a \in Artifacts : /\ installed[a] # script.target
                                  /\ installed' = [installed EXCEPT ![a] = script.target]
          /\ UNCHANGED script
  /\ UNCHANGED <<scriptOnly, status, request, api, saved, kept, link, repo, releases, service, db, owed, mishaps>>

SwitchLink ==
  /\ script.at = "switch"
  /\ link' = script.target /\ To("start")
  /\ UNCHANGED <<scriptOnly, status, request, api, saved, kept, repo, installed, releases, service, db, owed, mishaps>>

StartNew ==
  /\ script.at = "start"
  /\ Starts /\ To("verify")
  /\ UNCHANGED <<scriptOnly, status, request, api, disk, owed, mishaps>>

Verify == script.at = "verify" /\ Says("verifying", "health")

\* wait_for_health with the revision of the target.
CheckHealth ==
  /\ script.at = "health"
  /\ script' = IF Healthy(script.target) THEN [script EXCEPT !.at = "reset"] ELSE Broken(script)
  /\ UNCHANGED <<scriptOnly, status, request, api, disk, service, db, owed, mishaps>>

ResetRepo ==
  /\ script.at = "reset"
  /\ repo' = script.target /\ To("clear")
  /\ UNCHANGED <<scriptOnly, status, request, api, saved, kept, link, installed, releases, service, db, owed, mishaps>>

\* remove_rollback_tree; update_succeeded is set after it.
Clear ==
  /\ script.at = "clear"
  /\ saved' = None /\ To("finish")
  /\ UNCHANGED <<scriptOnly, status, request, api, kept, link, repo, installed, releases, service, db, owed, mishaps>>

\* A run by hand ends by removing the status file.
Finish ==
  /\ script.at = "finish"
  /\ script' = NoScript
  /\ IF script.online THEN runner' = [runner EXCEPT !.at = "ended"] /\ UNCHANGED status
                      ELSE status' = Blank /\ UNCHANGED runner
  /\ UNCHANGED <<upstream, request, api, disk, service, db, past, bounds>>

\* A command fails, or the health check by chance; at "clear" one of those
\* between the reset of the repository and the removal.
Breaks ==
  /\ script.at \in Working /\ Mishap
  /\ script' = Broken([script EXCEPT !.stopped = @ \/ script.at = "stop"])
  /\ UNCHANGED <<scriptOnly, status, request, api, disk, service, db, owed>>

\* The rollback directory cannot be removed as a whole.  Its shell variables
\* still say that the cutover has begun.
ClearBreaks ==
  /\ script.at = "clear" /\ Mishap
  /\ \E left \in {[saved EXCEPT !.db = None],
                  [saved EXCEPT !.installed = [a \in Artifacts |-> None]]} :
       saved' = left
  /\ script' = Broken(script) /\ spoiled' = TRUE
  /\ UNCHANGED <<upstream, talk, runner, kept, link, repo, installed, releases, service, db, owed, killed, updates>>

\* For mutation: the undoing goes on under the service.
UndoStopLate ==
  /\ script.at = "undoStop"
  /\ To("undoLink")
  /\ UNCHANGED <<scriptOnly, status, request, api, disk, service, db, owed, mishaps>>

UndoStop ==
  /\ script.at = "undoStop"
  /\ Stops /\ To("undoLink")
  /\ UNCHANGED <<scriptOnly, status, disk, db, owed, mishaps>>

UndoLink ==
  /\ script.at = "undoLink"
  /\ link' = script.prev /\ To("undoRepo")
  /\ UNCHANGED <<scriptOnly, status, request, api, saved, kept, repo, installed, releases, service, db, owed, mishaps>>

UndoRepo ==
  /\ script.at = "undoRepo"
  /\ repo' = script.old /\ To("undoFiles")
  /\ UNCHANGED <<scriptOnly, status, request, api, saved, kept, link, installed, releases, service, db, owed, mishaps>>

\* restore_artifact: a file without a copy is taken for one that was not there.
UndoFiles ==
  /\ script.at = "undoFiles"
  /\ IF installed = saved.installed
     THEN To("undoData") /\ UNCHANGED installed
     ELSE /\ \E a \in Artifacts : /\ installed[a] # saved.installed[a]
                                  /\ installed' = [installed EXCEPT ![a] = saved.installed[a]]
          /\ UNCHANGED script
  /\ UNCHANGED <<scriptOnly, status, request, api, saved, kept, link, repo, releases, service, db, owed, mishaps>>

\* restore_database: the database is replaced, then its log; a copy that is not
\* there is no failure.
UndoData ==
  /\ script.at = "undoData"
  /\ IF saved.db = None THEN UNCHANGED db ELSE db' = [saved.db EXCEPT !.torn = TRUE]
  /\ To("undoLog")
  /\ UNCHANGED <<scriptOnly, status, request, api, disk, service, owed, mishaps>>

UndoLog ==
  /\ script.at = "undoLog"
  /\ IF saved.db = None THEN UNCHANGED db ELSE db' = [db EXCEPT !.torn = saved.db.torn]
  /\ To("undoStart")
  /\ UNCHANGED <<scriptOnly, status, request, api, disk, service, owed, mishaps>>

UndoStart ==
  /\ script.at = "undoStart"
  /\ IF service = None THEN Starts ELSE UNCHANGED <<service, db>>
  /\ To("judge")
  /\ UNCHANGED <<scriptOnly, status, request, api, disk, owed, mishaps>>

\* A step of the undoing fails; the next ones are taken all the same.
UndoFails ==
  /\ script.at \in Undoing /\ Mishap
  /\ script' = [script EXCEPT !.at = NextUndo[script.at], !.ok = FALSE]
  /\ spoiled' = TRUE
  /\ UNCHANGED <<upstream, talk, runner, disk, service, db, owed, killed, updates>>

\* For mutation: the release that was not completed stays.
JudgeKeeping ==
  /\ script.at = "judge"
  /\ script' = [script EXCEPT !.at = "tell", !.ok = @ /\ Healthy(script.old)]
  /\ UNCHANGED <<scriptOnly, status, request, api, disk, service, db, owed, mishaps>>

\* wait_for_health with the version of the old revision; then the release that
\* was not completed is removed.
Judge ==
  /\ script.at = "judge"
  /\ script' = [script EXCEPT !.at = "tell", !.ok = @ /\ Healthy(script.old)]
  /\ releases' = IF script.built /\ releases[script.target] # "ready"
                 THEN [releases EXCEPT ![script.target] = "absent"] ELSE releases
  /\ UNCHANGED <<scriptOnly, status, request, api, saved, kept, link, repo, installed, service, db, owed, mishaps>>

\* remove_created_release fails: what was built in part stays.
RemovalFails ==
  /\ script.at = "judge" /\ Mishap
  /\ script.built /\ releases[script.target] # "ready"
  /\ script' = [script EXCEPT !.at = "tell", !.ok = FALSE]
  /\ spoiled' = TRUE
  /\ UNCHANGED <<upstream, talk, runner, disk, service, db, owed, killed, updates>>

Tell ==
  /\ script.at = "tell"
  /\ status' = IF script.online /\ status.job = runner.job
               THEN Report("failed", status.job, status.candidate,
                           IF script.ok THEN "rolled_back" ELSE "rollback_failed")
               ELSE status
  /\ To("leave")
  /\ UNCHANGED <<scriptOnly, request, api, disk, service, db, owed, mishaps>>

\* The rollback directory is removed when everything is as before, and kept otherwise.
Leave ==
  /\ script.at = "leave"
  /\ saved' = None
  /\ kept' = IF script.ok THEN kept ELSE kept \cup {saved}
  /\ script' = NoScript
  /\ runner' = IF script.online THEN [runner EXCEPT !.at = "failed"] ELSE runner
  /\ UNCHANGED <<upstream, talk, link, repo, installed, releases, service, db, past, bounds>>

Update ==
  \/ RunOnline
  \/ Fetch \/ Build \/ Announce \/ StopService \/ CopyDatabase \/ CheckCopy \/ Install \/ SwitchLink
  \/ StartNew \/ Verify \/ CheckHealth \/ ResetRepo \/ Clear \/ Finish

Undo ==
  \/ UndoStop \/ UndoLink \/ UndoRepo \/ UndoFiles \/ UndoData \/ UndoLog \/ UndoStart
  \/ Judge \/ Tell \/ Leave

Next ==
  \/ Backend \/ Runner \/ Update \/ Undo
  \/ RunByHand \/ Breaks \/ ClearBreaks \/ UndoFails \/ RemovalFails
  \/ UserWrites \/ ServiceRestarts \/ OperatorStarts \/ Killed \/ Reboot \/ Push

Spec == Init /\ [][Next]_vars

\* The updater goes on from command to command, each with a time-out; the
\* backend's call goes on; time passes; the page of an administrator asks for
\* the state again and again (BackendUpgradePage.tsx).
FairSpec ==
  /\ Spec
  /\ WF_vars(Runner) /\ WF_vars(Update \/ Undo)
  /\ WF_vars(Backend) /\ SF_vars(Overdue)

-----------------------------------------------------------------------------
(* Properties                                                                  *)

Reports == [state : States, job : 0..MaxUpdates, candidate : Revisions \cup {None}, error : Errors]

Requests == [job : 0..MaxUpdates, candidate : Revisions \cup {None}]

ApiCalls == [op : {"none", "get", "check", "queue"}, seen : Reports,
             at : {"idle", "reconcile", "remove", "expire", "decide", "asking", "answer", "trigger"}]

Updaters == [at : {"idle", "started", "taken", "ready", "running", "ended", "failed"},
             job : 0..MaxUpdates, candidate : Revisions \cup {None}]

Scripts == [at : Working \cup Undoing \cup {"idle", "finish", "judge", "tell", "leave"},
            online : BOOLEAN, old : Revisions, prev : Revisions, target : Revisions,
            built : BOOLEAN, stopped : BOOLEAN, cutover : BOOLEAN, ok : BOOLEAN]

TypeOK ==
  /\ upstream \in Revisions /\ link \in Revisions /\ repo \in Revisions
  /\ status \in Reports
  /\ request \in Requests /\ api \in ApiCalls /\ runner \in Updaters
  /\ script \in Scripts
  /\ saved \in Saved \cup {None} /\ kept \subseteq Saved
  /\ installed \in [Artifacts -> Revisions \cup {None}]
  /\ releases \in [Revisions -> ReleaseStates]
  /\ service \in Revisions \cup {None}
  /\ db \in Databases /\ owed \in Databases /\ spoiled \in BOOLEAN /\ killed \in BOOLEAN
  /\ updates \in 0..MaxUpdates /\ mishaps \in 0..MaxMishaps

\* Wherever update.sh fails, is killed or fails to undo, what users had when it
\* stopped the service is in the database, or a whole copy of it lies in a
\* rollback directory (the snapshot, restore_database, remove_rollback_tree).
UserDataKept ==
  \/ ~db.torn /\ db.writes >= owed.writes
  \/ \E s \in kept \cup ({saved} \ {None}) : s.db = owed

\* Unless the updater was killed or could not undo its work, no release serves
\* a database that a newer release has converted, nor one beside the wrong log
\* (rollback_update stops, restores and only then starts).
DataFitsCode == service # None /\ ~spoiled => db.schema <= service /\ ~db.torn

\* "completed" means that the candidate is installed everywhere, and
\* "rolled back" that release, repository and files are those update.sh found
\* and serve again (write_status, write_online_state), unless what it found did
\* not go together and the service has ended since its health was asked for.
BackAtOld ==
  /\ link = script.prev /\ repo = script.old /\ installed = saved.installed
  /\ \/ service = script.old
     \/ script.prev # script.old \/ \E a \in Artifacts : installed[a] = None

InstalledAll(r) ==
  /\ link >= r /\ repo >= r /\ releases[r] = "ready"
  /\ \A a \in Artifacts : installed[a] = None \/ installed[a] >= r

ReportsAreTrue ==
  [][ /\ (status'.error = "rolled_back" /\ status.error # "rolled_back" => BackAtOld)
      /\ (status'.state = "completed" /\ status.state # "completed" => InstalledAll(status'.candidate)) ]_vars

\* An update that failed leaves nothing half-built, which the next one would
\* refuse or take for a release (release_created, remove_created_release).
NothingHalfBuilt ==
  script.at = "idle" /\ ~spoiled => \A r \in Revisions : releases[r] \in {"absent", "ready"}

\* ... and all state has its type.
Orderly == TypeOK /\ NothingHalfBuilt

\* The service an update stopped runs again, on the new release or the old one.
ServiceReturns == service = None /\ script.at # "idle" ~> service # None \/ spoiled

\* A job that was accepted comes to an end in the status, whether its request
\* is taken, is lost with the service or is never answered, unless the updater
\* is killed or leaves no service that could tell (_reconcile_queued_status,
\* write_status, on_exit).
JobEnds ==
  \A j \in 1..MaxUpdates :
    status.job = j /\ status.state \in Active ~>
      ~(status.job = j /\ status.state \in Active) \/ killed \/ (spoiled /\ service = None)
=============================================================================
