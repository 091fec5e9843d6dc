------------------------------ MODULE FairQueue ------------------------------
(***************************************************************************)
(* The data structure behind the task queue of the backend: one deque per  *)
(* user and a rotation of the users that have something queued             *)
(* (app/fair_task_queue.py).  The operators are pure: a module that owns a *)
(* queue keeps its value in a variable of its own.                         *)
(*                                                                         *)
(* A user without an entry in the code's dictionary is a user whose deque  *)
(* is the empty sequence here; the code deletes the entry with the last    *)
(* item of the deque.                                                      *)
(***************************************************************************)
EXTENDS Naturals, Sequences, FiniteSets

CONSTANTS Owners,     \* the users
          NoOwner     \* the value of _last_owner before the first get

ASSUME NoOwnerAssumption == NoOwner \notin Owners

EmptyQueue ==
  [by |-> [o \in Owners |-> <<>>], owners |-> <<>>, last |-> NoOwner, count |-> 0]

Queues(Items) ==
  [by: [Owners -> Seq(Items)], owners: Seq(Owners), last: Owners \cup {NoOwner}, count: Nat]

\* A slip in _put: every put adds its user to the rotation once more.
PutAlwaysJoining(q, o, item) ==
  [by |-> [q.by EXCEPT ![o] = Append(@, item)], owners |-> Append(q.owners, o),
   last |-> q.last, count |-> q.count + 1]

\* FairTaskQueue._put: a user that was not waiting joins the end of the rotation.
Put(q, o, item) ==
  [by     |-> [q.by EXCEPT ![o] = Append(@, item)],
   owners |-> IF q.by[o] = <<>> THEN Append(q.owners, o) ELSE q.owners,
   last   |-> q.last,
   count  |-> q.count + 1]

\* The rotation as the next get sees it: the user served last steps back
\* behind the others, also when that user joined an empty rotation.
Rotation(q) ==
  IF Len(q.owners) > 1 /\ Head(q.owners) = q.last
  THEN Append(Tail(q.owners), Head(q.owners))
  ELSE q.owners

NextOwner(q) == Head(Rotation(q))

\* A slip in _get: the newest item of the deque leaves (pop for popleft).
NewestItem(q) == LET mine == q.by[NextOwner(q)] IN mine[Len(mine)]

NextItem(q) == Head(q.by[NextOwner(q)])

\* Slips in _get: the user keeps its place in front.
GetKeepingPlace(q) ==
  LET o == NextOwner(q)
  IN  [by     |-> [q.by EXCEPT ![o] = Tail(@)],
       owners |-> IF Len(q.by[o]) = 1 THEN Tail(Rotation(q)) ELSE Rotation(q),
       last   |-> NoOwner,
       count  |-> q.count - 1]

\* FairTaskQueue._get: the queue left behind; NextItem is what the call returns.
Get(q) ==
  LET o    == NextOwner(q)
      rest == Tail(q.by[o])
      turn == Tail(Rotation(q))
  IN  [by     |-> [q.by EXCEPT ![o] = rest],
       owners |-> IF rest = <<>> THEN turn ELSE Append(turn, o),
       last   |-> o,
       count  |-> q.count - 1]

\* What asyncio.Queue.get blocks on.
IsEmpty(q) == q.count = 0

\* The item stands somewhere in the queue.
Queued(q, item) == \E o \in Owners : \E i \in 1..Len(q.by[o]) : q.by[o][i] = item

Waiting(q) == {o \in Owners : q.by[o] # <<>>}

\* The places of the deques that hold an item.
Places(q) == UNION {{o} \X (1..Len(q.by[o])) : o \in Owners}

\* The fields of the object describe one queue: the rotation holds exactly the
\* users with a non-empty deque, each once, and _count counts the items.
Coherent(q) ==
  /\ {q.owners[i] : i \in 1..Len(q.owners)} = Waiting(q)
  /\ \A i, j \in 1..Len(q.owners) : q.owners[i] = q.owners[j] => i = j
  /\ IsFiniteSet(Places(q))
  /\ q.count = Cardinality(Places(q))
=============================================================================
