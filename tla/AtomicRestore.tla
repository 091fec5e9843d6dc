---------------------------- MODULE AtomicRestore ----------------------------
(***************************************************************************)
(* What restoring a backup promises, whatever fails and whenever the       *)
(* process dies: the data directory holds one generation of data, a        *)
(* restore replaces it as a whole by a newer one, and what its client is   *)
(* told agrees with what users see.  Generation 0 is what was there first, *)
(* n what the n-th restore brings.                                         *)
(***************************************************************************)
EXTENDS Integers

VARIABLES
  data,     \* the generation a start of the process would find
  served,   \* the generation users were last served from
  answer,   \* of the last restore to its client
  spoiled   \* what happened is beyond the promise

vars == <<data, served, answer, spoiled>>

Init == data = 0 /\ served = 0 /\ answer = "none" /\ spoiled = FALSE

\* The client asks for a restore.
Ask == answer # "pending" /\ answer' = "pending" /\ UNCHANGED <<data, served>>

\* It takes effect: from now on nothing takes the new data back.
Replace ==
  /\ answer = "pending"
  /\ data' \in Nat /\ data' > data
  /\ UNCHANGED <<served, answer>>

\* Success is only told of new data that is in effect and in use.
Succeed ==
  /\ answer = "pending" /\ answer' = "done"
  /\ data > served /\ served' = data
  /\ UNCHANGED data

\* After a failure users see the data in effect, or newer data that the next
\* start takes back; never older data.
Fail ==
  /\ answer = "pending" /\ answer' = "failed"
  /\ served' \in Nat /\ served' >= data
  /\ UNCHANGED data

\* The process ends before it can tell.
Die == answer = "pending" /\ answer' = "none" /\ UNCHANGED <<data, served>>

\* A process starts.
Serve == answer # "pending" /\ served' = data /\ UNCHANGED <<data, answer>>

Next ==
  \/ ~spoiled' /\ ~spoiled /\ (Ask \/ Replace \/ Succeed \/ Fail \/ Die \/ Serve)
  \/ spoiled' = TRUE

Spec == Init /\ [][Next]_vars
=============================================================================
