---------------------------- MODULE FairTaskQueue ----------------------------
(***************************************************************************)
(* The queue of app/fair_task_queue.py under any sequence of puts and gets *)
(* of any users.  create_task_queue looks the owner of a task up when the  *)
(* task is put; the module puts an item for a user directly.               *)
(***************************************************************************)
EXTENDS FairQueue

CONSTANTS Items,      \* task identifiers
          NoItem,     \* no task has been handed out yet
          MaxItems    \* bound: entries in the queue

ASSUME FairTaskQueueAssumption == NoItem \notin Items /\ MaxItems \in Nat \ {0}

VARIABLES fairQueue,  \* the FairTaskQueue object
          out,        \* the task the last get returned
          bypassed    \* history: bypassed[o][p] is how often p was served since o began to wait

queueVars == <<fairQueue, out, bypassed>>

QueueInit ==
  /\ fairQueue = EmptyQueue
  /\ out = NoItem
  /\ bypassed = [o \in Owners |-> [p \in Owners |-> 0]]

put_nowait(o, item) ==
  /\ fairQueue.count < MaxItems
  /\ fairQueue' = Put(fairQueue, o, item)
  /\ UNCHANGED <<out, bypassed>>

get ==
  /\ ~IsEmpty(fairQueue)
  /\ fairQueue' = Get(fairQueue)
  /\ out' = NextItem(fairQueue)
  /\ LET o == NextOwner(fairQueue)
     IN  bypassed' = [w \in Owners |->
           IF w \in Waiting(fairQueue) /\ w # o
           THEN [bypassed[w] EXCEPT ![o] = @ + 1]
           ELSE [p \in Owners |-> 0]]

QueueNext == get \/ \E o \in Owners, item \in Items : put_nowait(o, item)

QueueSpec == QueueInit /\ [][QueueNext]_queueVars

-----------------------------------------------------------------------------

QueueTypeOK ==
  /\ fairQueue \in Queues(Items)
  /\ out \in Items \cup {NoItem}
  /\ bypassed \in [Owners -> [Owners -> Nat]]

(***************************************************************************)
(* The fields of the object agree.  If they ever disagreed, get would pop  *)
(* an empty deque, or block while a task waits: asyncio asks _count alone. *)
(***************************************************************************)
QueueIsCoherent == Coherent(fairQueue)

(***************************************************************************)
(* Fairness between users (the purpose of the class, and what              *)
(* tests/test_fair_task_queue.py samples): while a user waits, every other *)
(* user is served at most once, however many tasks that user queued and    *)
(* whenever they arrived.                                                  *)
(***************************************************************************)
BoundedBypass ==
  \A o \in Waiting(fairQueue), p \in Owners : bypassed[o][p] <= 1

(***************************************************************************)
(* No user is served twice in a row while somebody else waits: the comment *)
(* in _get claims it also for a user whose deque became empty while their  *)
(* task was running and who comes back before the others arrive.           *)
(***************************************************************************)
NeverTwiceInARow ==
  [][fairQueue'.count < fairQueue.count /\ fairQueue'.last = fairQueue.last
       => Waiting(fairQueue) = {fairQueue.last}]_queueVars

\* Within one user the queue is first in, first out, and loses nothing:
\* it implements OwnerFifo, the deques being the lines of the users.
Fifo == INSTANCE OwnerFifo WITH line <- fairQueue.by, served <- out

\* See Fifo: the tasks of one user are served in the order they were put.
ImplementsOwnerFifo == Fifo!Spec
=============================================================================
