------------------------------ MODULE OwnerFifo ------------------------------
(***************************************************************************)
(* What a user may rely on: the tasks of one user leave the queue in the   *)
(* order in which that user put them there, none is lost, none is served   *)
(* twice.  Nothing is promised here about the order between users.         *)
(***************************************************************************)
EXTENDS Sequences

CONSTANTS Owners, Items, NoItem

VARIABLES line,     \* line[o]: the tasks of user o that wait, oldest first
          served    \* the task handed out last

vars == <<line, served>>

Init == line = [o \in Owners |-> <<>>] /\ served = NoItem

Join(o, item) ==
  /\ line' = [line EXCEPT ![o] = Append(@, item)]
  /\ UNCHANGED served

Serve(o) ==
  /\ line[o] # <<>>
  /\ served' = Head(line[o])
  /\ line' = [line EXCEPT ![o] = Tail(@)]

Next == \E o \in Owners : Serve(o) \/ \E item \in Items : Join(o, item)

Spec == Init /\ [][Next]_vars
=============================================================================
