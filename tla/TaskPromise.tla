----------------------------- MODULE TaskPromise -----------------------------
(***************************************************************************)
(* What the task page of a client may rely on, whatever the worker, the    *)
(* queue, restarts and maintenance do: how the status of a task may move   *)
(* and what its chapter checkpoints mean                                   *)
(* (docs/development/04-backend-and-android.md, the task control section). *)
(***************************************************************************)
CONSTANTS Tasks,     \* task identifiers
          Chapters,  \* chapter numbers
          Work       \* Work[t]: the chapters a completed task t must have finished

VARIABLES status,    \* status[t], "absent" while no such task is stored
          done       \* done[t]: the chapters with a checkpoint

vars == <<status, done>>

PendingStops == {"pause_requested", "cancel_requested"}

InFlight == {"running"} \cup PendingStops

Init ==
  /\ status = [t \in Tasks |-> "absent"]
  /\ done = [t \in Tasks |-> {}]

Move(t, from, to) ==
  /\ status[t] \in from
  /\ status' = [status EXCEPT ![t] = to]
  /\ UNCHANGED done

Submit(t) == Move(t, {"absent"}, "queued")

\* A task leaves the queue for a run, or a run is put back by a restart.
Start(t)   == Move(t, {"queued"}, "running")
Requeue(t) == Move(t, {"running"}, "queued")

\* Only a run that was not asked to stop ends by itself, and it is complete
\* only when every chapter it was to handle is.
Complete(t) == Work[t] \subseteq done[t] /\ Move(t, {"queued", "running"}, "completed")
Fail(t)     == Move(t, {"queued", "running"}, "failed")

\* A chapter is checkpointed while a run holds the task, also after the user
\* asked it to stop: the work unit in progress is kept.
Checkpoint(t, c) ==
  /\ status[t] \in InFlight
  /\ done' = [done EXCEPT ![t] = @ \cup {c}]
  /\ UNCHANGED status

\* The last work unit of a run that was asked to stop settles the stop too.
CheckpointAndSettle(t, c) ==
  /\ done' = [done EXCEPT ![t] = @ \cup {c}]
  /\ \/ status[t] = "pause_requested" /\ status' = [status EXCEPT ![t] = "paused"]
     \/ status[t] = "cancel_requested" /\ status' = [status EXCEPT ![t] = "cancelled"]

\* So does the last work unit of a run that is not: it ends the run.
CheckpointAndEnd(t, c) ==
  /\ status[t] = "running"
  /\ done' = [done EXCEPT ![t] = @ \cup {c}]
  /\ \/ Work[t] \subseteq done'[t] /\ status' = [status EXCEPT ![t] = "completed"]
     \/ status' = [status EXCEPT ![t] = "failed"]

\* A user's stop takes effect at once on a task that waits, and otherwise
\* stays requested until the run settles it; a pause may become a cancel.
RequestPause(t)  == Move(t, {"running"}, "pause_requested")
RequestCancel(t) == Move(t, {"running", "pause_requested"}, "cancel_requested")
Pause(t)         == Move(t, {"queued", "pause_requested"}, "paused")
Cancel(t)        == Move(t, {"queued", "paused", "failed", "cancel_requested"}, "cancelled")

\* Nothing else brings a task back: completed and cancelled tasks stay so.
Resume(t) == Move(t, {"paused", "failed"}, "queued")

\* Deleting a book removes its tasks with their checkpoints.
Remove(S) ==
  /\ status' = [t \in Tasks |-> IF t \in S THEN "absent" ELSE status[t]]
  /\ done' = [t \in Tasks |-> IF t \in S THEN {} ELSE done[t]]

Next ==
  \/ \E t \in Tasks :
       \/ Submit(t) \/ Start(t) \/ Requeue(t) \/ Complete(t) \/ Fail(t)
       \/ RequestPause(t) \/ RequestCancel(t) \/ Pause(t) \/ Cancel(t) \/ Resume(t)
       \/ \E c \in Chapters : Checkpoint(t, c) \/ CheckpointAndSettle(t, c) \/ CheckpointAndEnd(t, c)
  \/ \E S \in SUBSET Tasks : Remove(S)

Spec == Init /\ [][Next]_vars
=============================================================================
