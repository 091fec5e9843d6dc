------------------------------ MODULE LinkPromise ------------------------------
(***************************************************************************)
(* What the backend promises of link jobs, to a client that repeats its    *)
(* requests and sees the service restart: one job for an operation, one    *)
(* book for a job, and an outcome that stays.                              *)
(***************************************************************************)
EXTENDS Naturals, Sequences

CONSTANTS
  Keys,         \* the operations of clients, by Idempotency-Key
  NoKey         \* in place of a key: a request that has none

VARIABLES
  work,         \* the jobs, in the order of their creation
  books         \* the books they have made

Modes == {"preview", "import"}

Records == [key : Keys \cup {NoKey}, mode : Modes, state : {"open", "completed", "failed"}]

TypeOK ==
  /\ work \in Seq(Records)
  /\ books \subseteq 1..Len(work)

Init == work = <<>> /\ books = {}

Submit(key, mode) ==
  /\ key = NoKey \/ \A j \in 1..Len(work) : work[j].key # key
  /\ work' = Append(work, [key |-> key, mode |-> mode, state |-> "open"])
  /\ UNCHANGED books

\* The book of a job is made once.
Make(j) ==
  /\ work[j].state = "open" /\ work[j].mode = "import" /\ j \notin books
  /\ books' = books \cup {j}
  /\ UNCHANGED work

Becomes(j, state) == work' = [work EXCEPT ![j].state = state] /\ UNCHANGED books

\* A job that says it has imported a book has one.
Complete(j) ==
  work[j].state = "open" /\ (work[j].mode = "import" => j \in books) /\ Becomes(j, "completed")

Fail(j) == work[j].state = "open" /\ Becomes(j, "failed")

Retry(j) == work[j].state = "failed" /\ Becomes(j, "open")

Next ==
  \/ \E key \in Keys \cup {NoKey}, mode \in Modes : Submit(key, mode)
  \/ \E j \in 1..Len(work) : Make(j) \/ Complete(j) \/ Fail(j) \/ Retry(j)

Spec == Init /\ [][Next]_<<work, books>>
=============================================================================
