----------------------------- MODULE RestoreSwap -----------------------------
(***************************************************************************)
(* The restore of a backup (backup_service.py, backup_restore_state.py):   *)
(* with the backend quiesced, the entries of the data directory are moved  *)
(* one by one into a rollback directory that holds a journal, the staged   *)
(* ones are moved into their place, the application is started on them,    *)
(* and the journal is committed; anything that goes wrong before is undone *)
(* from the journal, at once or by the next start of the process.  Every   *)
(* step may fail, those of the commit and of the undoing too.              *)
(*                                                                         *)
(* Every rename is an action, and the process may die between any two.     *)
(* The content of an entry is its generation: 0 is what was there first, n *)
(* what the n-th restore brings.  The entry "wal" stands for the two files *)
(* SQLite keeps beside a database, -wal and -shm, which the code treats    *)
(* alike; they belong to the database they were written for.               *)
(***************************************************************************)
EXTENDS Integers

CONSTANTS
  MaxRestores,  \* bound: restores that get as far as the swap
  MaxFaults,    \* bound: steps an I/O error or a cancellation interrupts
  MaxCrashes    \* bound: times the process dies

ASSUME RestoreAssumption ==
  MaxRestores \in Nat /\ MaxFaults \in Nat /\ MaxCrashes \in Nat

Restores == 1..MaxRestores

\* SWAPPED_NAMES, in its order.
Entries == {"database", "wal", "library"}
Rank == [e \in Entries |-> IF e = "database" THEN 1 ELSE IF e = "wal" THEN 2 ELSE 3]

Absent == -1
Fresh == -2       \* what a start creates where nothing is
Torn == -3        \* a database into which another one's -wal was merged
Contents == Nat \cup {Absent, Fresh, Torn}

VARIABLES
  root,       \* the entries of the data directory
  stage,      \* the entries unpacked for the restore in progress
  saved,      \* saved[n]: the entries in the n-th rollback directory
  journal,    \* journal[n]: its journal.json
  present,    \* present[n]: the entries the journal says there were
  aside,      \* aside[n]: its rollback has set a library aside
  phase,      \* of the process and the restore in it: see Phases
  current,    \* the restore whose swap is done or undone
  answer,     \* of the last restore to its client
  served,     \* the generation users were last served from
  restores, faults, crashes

\* History, for the properties.
VARIABLES
  before,     \* what users were served when the last restore began
  spoiled     \* a rollback failed half-way, or a restore began over an open journal

files   == <<root, stage, saved, journal, present, aside>>
bounds  == <<restores, faults, crashes>>
history == <<before, spoiled>>
vars    == <<files, phase, current, answer, served, bounds, history>>

\* Serving; install, rename by rename; the start on the new entries; commit;
\* rollback and the start on the old ones, tried again once; out of service
\* until restarted.  The start of the process: down, recovering, and refusing.
Phases == {"serving", "prepared", "journalling", "saving", "placing", "reloading",
           "committing", "cleaning", "undoing", "returning", "retrying", "stuck",
           "down", "recovering", "refused"}

Journals == {"none", "partial", "open", "committed"}

TypeOK ==
  /\ root \in [Entries -> Contents] /\ stage \in [Entries -> Contents]
  /\ saved \in [Restores -> [Entries -> Contents]]
  /\ journal \in [Restores -> Journals]
  /\ present \in [Restores -> SUBSET Entries] /\ aside \in [Restores -> BOOLEAN]
  /\ phase \in Phases /\ current \in Restores \cup {0}
  /\ answer \in {"none", "pending", "done", "failed"}
  /\ served \in Contents
  /\ restores \in 0..MaxRestores /\ faults \in 0..MaxFaults /\ crashes \in 0..MaxCrashes
  /\ before \in Contents /\ spoiled \in BOOLEAN

Directory(database, wal, library) ==
  [e \in Entries |-> IF e = "database" THEN database ELSE IF e = "wal" THEN wal ELSE library]

Nothing == Directory(Absent, Absent, Absent)

There(directory) == {e \in Entries : directory[e] # Absent}

First(S) == CHOOSE e \in S : \A f \in S : Rank[e] <= Rank[f]

Move(e, from, to) == [to EXCEPT ![e] = from[e]]

Without(e, directory) == [directory EXCEPT ![e] = Absent]

-----------------------------------------------------------------------------
Init ==
  /\ root = Directory(0, 0, 0)
  /\ stage = Nothing
  /\ saved = [n \in Restores |-> Nothing]
  /\ journal = [n \in Restores |-> "none"]
  /\ present = [n \in Restores |-> {}] /\ aside = [n \in Restores |-> FALSE]
  /\ phase = "serving" /\ current = 0 /\ answer = "none" /\ served = 0
  /\ restores = 0 /\ faults = 0 /\ crashes = 0
  /\ before = 0 /\ spoiled = FALSE

\* An entry that is kept, or made where it is missing.
Kept(e, new) == IF root[e] = Absent THEN new ELSE root[e]

\* _run_startup opens the database and makes the library directory, creating
\* what is missing; SQLite keeps or makes a -wal, or merges it into the database,
\* also one that is not its own.  It drops the -wal of an empty database.
Open ==
  LET foreign == There(root) \cap {"database", "wal"} = {"database", "wal"}
                   /\ root["wal"] # root["database"]
      database == IF foreign THEN Torn ELSE Kept("database", Fresh)
  IN  \E wal \in {Absent, database} :
        root' = Directory(database, wal, Kept("library", Fresh))

\* The gate opens on what the application has opened.
Serve(reply) ==
  /\ phase' = "serving" /\ current' = 0 /\ answer' = reply
  /\ served' = root'["database"]

\* Requests open and close the database.
Use ==
  /\ phase = "serving"
  /\ Open
  /\ UNCHANGED <<stage, saved, journal, present, aside, phase, current, answer, served, bounds, history>>

-----------------------------------------------------------------------------
(* RestoreSwap.install *)

\* restore, up to the swap: the archive is unpacked and checked, the backend
\* quiesced, which closes the database.
BeginRestore ==
  /\ phase = "serving" /\ restores < MaxRestores
  /\ restores' = restores + 1
  /\ stage' = Directory(restores', Absent, restores')
  /\ root' \in {root, Without("wal", root)}
  /\ phase' = "prepared" /\ current' = restores' /\ answer' = "pending"
  /\ before' = served /\ spoiled' = (spoiled \/ \E n \in Restores : journal[n] = "open")
  /\ UNCHANGED <<saved, journal, present, aside, served, faults, crashes>>

\* write_private_json: the file is there before its text is.
OpenJournal ==
  /\ phase = "prepared"
  /\ journal' = [journal EXCEPT ![current] = "partial"]
  /\ phase' = "journalling"
  /\ UNCHANGED <<root, stage, saved, present, aside, current, answer, served, bounds, history>>

WriteJournal ==
  /\ phase = "journalling"
  /\ journal' = [journal EXCEPT ![current] = "open"]
  /\ present' = [present EXCEPT ![current] = There(root)]
  /\ phase' = "saving"
  /\ UNCHANGED <<root, stage, saved, aside, current, answer, served, bounds, history>>

\* For mutation: the -wal of the database stays where it is.
SaveEntryWithoutLog ==
  LET left == {e \in present[current] \ {"wal"} : saved[current][e] = Absent}
      e == First(left)
  IN  /\ phase = "saving"
      /\ saved' = [saved EXCEPT ![current] = Move(e, root, saved[current])]
      /\ root' = Without(e, root)
      /\ phase' = IF left = {e} THEN "placing" ELSE "saving"
      /\ UNCHANGED <<stage, journal, present, aside, current, answer, served, bounds, history>>

\* The entries that are there move into the rollback directory, ...
SaveEntry ==
  LET left == {e \in present[current] : saved[current][e] = Absent}
      e == First(left)
  IN  /\ phase = "saving"
      /\ saved' = [saved EXCEPT ![current] = Move(e, root, saved[current])]
      /\ root' = Without(e, root)
      /\ phase' = IF left = {e} THEN "placing" ELSE "saving"
      /\ UNCHANGED <<stage, journal, present, aside, current, answer, served, bounds, history>>

\* ... and the staged ones into their place.
PlaceEntry ==
  LET left == There(stage)
      e == First(left)
  IN  /\ phase = "placing"
      /\ root' = Move(e, stage, root)
      /\ stage' = Without(e, stage)
      /\ phase' = IF left = {e} THEN "reloading" ELSE "placing"
      /\ UNCHANGED <<saved, journal, present, aside, current, answer, served, bounds, history>>

Fails == faults < MaxFaults /\ faults' = faults + 1

\* except BaseException: rollback.
InstallFails ==
  /\ phase \in {"prepared", "journalling", "saving", "placing"}
  /\ Fails
  /\ phase' = "undoing"
  /\ UNCHANGED <<files, current, answer, served, restores, crashes, history>>

-----------------------------------------------------------------------------
(* The start on the new entries, and commit *)

Reload ==
  /\ phase = "reloading"
  /\ Open
  /\ phase' = "committing"
  /\ UNCHANGED <<stage, saved, journal, present, aside, current, answer, served, bounds, history>>

\* A start that fails may have opened the database before.
ReloadFails ==
  /\ phase = "reloading"
  /\ Fails
  /\ root' = root \/ Open
  /\ phase' = "undoing"
  /\ UNCHANGED <<stage, saved, journal, present, aside, current, answer, served, restores, crashes,
                 history>>

\* commit: the journal is replaced atomically, then the directory removed.
Commit ==
  /\ phase = "committing"
  /\ journal' = [journal EXCEPT ![current] = "committed"]
  /\ phase' = "cleaning"
  /\ UNCHANGED <<root, stage, saved, present, aside, current, answer, served, bounds, history>>

\* It stands outside the try: one that fails is not undone.  The application is
\* up, so the gate opens on the new entries, beside a journal still open.
CommitFails ==
  /\ phase = "committing"
  /\ Fails
  /\ UNCHANGED <<files, restores, crashes, history>>
  /\ Serve("failed")

\* _remove.  Whether the journal goes first or last makes no difference: its
\* directory holds nothing that is still needed.
Remove(n) ==
  /\ journal' = [journal EXCEPT ![n] = "none"]
  /\ saved' = [saved EXCEPT ![n] = Nothing]
  /\ UNCHANGED <<stage, present, aside>>

Clean ==
  /\ phase = "cleaning"
  /\ Remove(current)
  /\ UNCHANGED root
  /\ Serve("done")
  /\ UNCHANGED <<bounds, history>>

\* The removal fails, or the count of what was restored after it.
CleanFails ==
  /\ phase = "cleaning"
  /\ Fails
  /\ Remove(current) \/ UNCHANGED <<saved, journal, stage, present, aside>>
  /\ UNCHANGED root
  /\ Serve("failed")
  /\ UNCHANGED <<restores, crashes, history>>

-----------------------------------------------------------------------------
(* RestoreSwap.rollback *)

\* The entries rollback has not put right.
ToUndo(n) == There(saved[n]) \cup (There(root) \ present[n])

Undoing == phase \in {"undoing", "recovering"} /\ current # 0 /\ journal[current] = "open"

\* One rename: what is in the place of an entry is set aside, for good, and
\* then what was saved goes back.
UndoEntry ==
  LET e == First(ToUndo(current))
  IN  /\ Undoing /\ ToUndo(current) # {}
      /\ IF root[e] # Absent
         THEN /\ root' = Without(e, root)
              /\ aside' = [aside EXCEPT ![current] = @ \/ e = "library"]
              /\ UNCHANGED saved
         ELSE /\ root' = Move(e, saved[current], root)
              /\ saved' = [saved EXCEPT ![current] = Without(e, saved[current])]
              /\ UNCHANGED aside
      /\ UNCHANGED <<stage, journal, present, phase, current, answer, served, bounds, history>>

\* Within a call, a rename that fails, or the removal, leaves the rest undone:
\* the error passes restore and quiesce_backend reloads on what there is.
UndoFails ==
  /\ phase = "undoing" /\ Undoing
  /\ Fails
  /\ phase' = "retrying" /\ spoiled' = TRUE
  /\ UNCHANGED <<files, current, answer, served, restores, crashes, before>>

\* After that, a recovery may find a second library to set aside: it cannot
\* replace the first, unless that is empty.
UndoBlocked ==
  LET e == First(ToUndo(current))
  IN  /\ phase = "recovering" /\ Undoing /\ ToUndo(current) # {}
      /\ e = "library" /\ root[e] # Absent /\ aside[current]
      /\ phase' = "refused" /\ current' = 0
      /\ UNCHANGED <<files, answer, served, bounds, history>>

\* For mutation: the rollback directory stays.
UndoDoneKeeping ==
  /\ Undoing /\ ToUndo(current) = {}
  /\ IF phase = "undoing"
     THEN phase' = "returning" /\ UNCHANGED <<stage, current>>
     ELSE stage' = Nothing /\ current' = 0 /\ UNCHANGED phase
  /\ UNCHANGED <<root, saved, journal, present, aside, answer, served, bounds, history>>

\* The directory is removed; the restore call then reloads, a starting process
\* also removes the stage and goes on with the next directory.
UndoDone ==
  /\ Undoing /\ ToUndo(current) = {}
  /\ journal' = [journal EXCEPT ![current] = "none"]
  /\ IF phase = "undoing"
     THEN phase' = "returning" /\ UNCHANGED <<stage, current>>
     ELSE stage' = Nothing /\ current' = 0 /\ UNCHANGED phase
  /\ UNCHANGED <<root, saved, present, aside, answer, served, bounds, history>>

\* No journal was written: nothing to undo.  One that cannot be read raises,
\* and leaves it to quiesce_backend to reload.
NothingUndone ==
  /\ phase = "undoing" /\ journal[current] \in {"none", "partial"}
  /\ phase' = IF journal[current] = "none" THEN "returning" ELSE "retrying"
  /\ UNCHANGED <<files, current, answer, served, bounds, history>>

\* The start on the old entries, and the end of the call.
Return ==
  /\ phase \in {"returning", "retrying"}
  /\ Open
  /\ Serve("failed")
  /\ stage' = Nothing
  /\ UNCHANGED <<saved, journal, present, aside, bounds, history>>

\* That start fails too: quiesce_backend tries once more, and then the gate
\* stays closed until the process is restarted.
ReturnFails ==
  /\ Fails
  /\ root' = root \/ Open
  /\ \/ phase = "returning" /\ phase' = "retrying" /\ UNCHANGED <<stage, answer>>
     \/ phase = "retrying" /\ phase' = "stuck" /\ stage' = Nothing /\ answer' = "failed"
  /\ UNCHANGED <<saved, journal, present, aside, current, served, restores, crashes, history>>

-----------------------------------------------------------------------------
(* recover_interrupted_restore, before anything opens the database *)

Die == phase' = "down" /\ current' = 0 /\ answer' = IF answer = "pending" THEN "none" ELSE answer

Crash ==
  /\ phase # "down" /\ crashes < MaxCrashes
  /\ crashes' = crashes + 1
  /\ Die
  /\ UNCHANGED <<files, served, restores, faults, history>>

\* An administrator restarts a process that is out of service.
Restart ==
  /\ phase = "stuck"
  /\ Die
  /\ UNCHANGED <<files, served, bounds, history>>

Boot ==
  /\ phase \in {"down", "refused"}
  /\ phase' = "recovering"
  /\ UNCHANGED <<files, current, answer, served, bounds, history>>

\* For mutation: a journal is undone whether it was committed or not.
RecoverUncommitted(n) ==
  /\ phase = "recovering" /\ current = 0
  /\ \/ /\ journal[n] = "partial"
        /\ phase' = "refused"
        /\ UNCHANGED <<journal, current>>
     \/ /\ journal[n] \in {"open", "committed"}
        /\ journal' = [journal EXCEPT ![n] = "open"]
        /\ current' = n
        /\ UNCHANGED phase
  /\ UNCHANGED <<root, stage, saved, present, aside, answer, served, bounds, history>>

\* The next rollback directory with a journal, in any order.
Recover(n) ==
  /\ phase = "recovering" /\ current = 0
  /\ \/ /\ journal[n] = "partial"
        /\ phase' = "refused"
        /\ UNCHANGED <<files, current>>
     \/ /\ journal[n] = "open"
        /\ current' = n
        /\ UNCHANGED <<files, phase>>
     \/ /\ journal[n] = "committed"
        /\ Remove(n)
        /\ UNCHANGED <<root, phase, current>>
  /\ UNCHANGED <<answer, served, bounds, history>>

\* For mutation: the database is opened before the recovery has run.
StartEarly ==
  /\ phase = "recovering" /\ current = 0
  /\ Open
  /\ Serve(answer)
  /\ UNCHANGED <<stage, saved, journal, present, aside, bounds, history>>

Start ==
  /\ phase = "recovering" /\ current = 0
  /\ \A n \in Restores : journal[n] = "none"
  /\ Open
  /\ Serve(answer)
  /\ UNCHANGED <<stage, saved, journal, present, aside, bounds, history>>

\* A recovery or a start that raises ends the process.
StartFails ==
  /\ phase = "recovering"
  /\ Fails
  /\ \/ UNCHANGED root
     \/ (\A n \in Restores : journal[n] = "none") /\ Open
  /\ Die
  /\ UNCHANGED <<stage, saved, journal, present, aside, served, restores, crashes, history>>

-----------------------------------------------------------------------------
Install == BeginRestore \/ OpenJournal \/ WriteJournal \/ SaveEntry \/ PlaceEntry

Rollback == UndoEntry \/ UndoBlocked \/ UndoDone \/ NothingUndone \/ Return

Failure ==
  InstallFails \/ ReloadFails \/ CommitFails \/ CleanFails \/ UndoFails \/ ReturnFails \/ StartFails

StartUp == Boot \/ Start \/ \E n \in Restores : Recover(n)

Next == Use \/ Install \/ Reload \/ Commit \/ Clean \/ Rollback \/ Failure \/ StartUp \/ Crash \/ Restart

Spec == Init /\ [][Next]_vars

\* A thread that renames goes on, and a service manager starts a process that
\* ended.  Nobody has to begin a restore, to fail or to crash.
Fairness ==
  /\ WF_vars(OpenJournal \/ WriteJournal \/ SaveEntry \/ PlaceEntry \/ Reload \/ Commit \/ Clean)
  /\ WF_vars(Rollback)
  /\ WF_vars(StartUp)

FairSpec == Spec /\ Fairness

-----------------------------------------------------------------------------
\* What rollback makes of the data directory, if nothing more happens to it.
AfterRollback(n) ==
  [e \in Entries |->
     IF saved[n][e] # Absent THEN saved[n][e]
     ELSE IF e \in present[n] THEN root[e] ELSE Absent]

\* All entries are of one generation, the -wal being one of that database.
Whole(directory, generation) ==
  /\ directory["database"] = generation /\ directory["library"] = generation
  /\ directory["wal"] \in {Absent, generation}

\* Wherever a swap is interrupted, also in the middle of its own rollback or by
\* a commit that fails, the journal and the two directories still determine all
\* that users had when the restore began: every entry the journal names, with the
\* transactions that are only in the -wal, and no entry that was not there.
\* Excused from the moment a rollback fails within a call, or a restore begins
\* on data whose own commit has failed.
Recoverable ==
  ~spoiled =>
    \A n \in Restores : journal[n] = "open" =>
      /\ {"database", "library"} \subseteq present[n]
      /\ AfterRollback(n) = [e \in Entries |-> IF e \in present[n] THEN before ELSE Absent]

\* Users are never served from a database and a library of two restores, nor
\* from a database with another one's -wal, nor from an empty one, also after a
\* failing commit and the start that undoes it; excused as Recoverable is.
NeverMixed == phase = "serving" /\ ~spoiled => Whole(root, served)

\* A restore that fails before its commit rolls back: when its client is told,
\* users see what they saw before, all of it; excused as Recoverable is.
FailureRollsBack ==
  [][answer = "pending" /\ answer' = "failed" /\ phase \notin {"committing", "cleaning"} /\ ~spoiled' =>
       served' = served /\ (phase' = "serving" => Whole(root', served'))]_vars

\* What a start of the process would find.
Effective ==
  IF \E n \in Restores : journal[n] = "open"
  THEN LET n == CHOOSE m \in Restores : journal[m] = "open" IN AfterRollback(n)["database"]
  ELSE root["database"]

\* Restores are atomic and durable under crashes and failures: the data changes
\* only as a whole, and never back; a client that is told of success sees the new
\* data and keeps it, and only one that is told of a failure may see data that
\* the next start takes back.  Excused as Recoverable is.
Atomic == INSTANCE AtomicRestore WITH data <- Effective
ImplementsAtomicRestore == Atomic!Spec

\* After any crash or failing start the process serves again, unless it refuses
\* a journal.
StartsAgain == phase = "down" ~> phase \in {"serving", "refused"}
=============================================================================
