---------------------------- MODULE ChapterOrder ----------------------------
(***************************************************************************)
(* What sequential caching promises of the chapters it was asked to fetch: *)
(* each book's chapters are attempted one after the other, in the order    *)
(* they were asked for, a chapter asked for twice is attempted once, and   *)
(* none is dropped: a chapter leaves the line only from its head, when a   *)
(* download of it has ended.  A download a reader pushed aside is not one: *)
(* its chapter stays at the head.  A book that is deleted loses its line,  *)
(* and from then on owes nothing; the other books notice nothing of it.    *)
(***************************************************************************)
EXTENDS FiniteSets, Integers, SequencesExt

CONSTANTS
  Books,
  ChaptersOf,   \* the chapters of each book's table of contents
  Managed       \* the books whose whole contents the server caches by itself

VARIABLES
  line,     \* each book's chapters still to be attempted, in order
  cached,   \* the chapters whose text is stored, by book
  gone      \* the books being deleted, or deleted

vars == <<line, cached, gone>>

InOrder(chapters) ==
  [i \in 1 .. Cardinality(chapters) |->
     CHOOSE c \in chapters : Cardinality({d \in chapters : d < c}) = i - 1]

\* What a server that starts with some chapters stored has to fetch.
Unfetched(stored, deleted) ==
  [b \in Books |-> IF b \in Managed \ deleted
                   THEN InOrder({c \in ChaptersOf[b] : <<b, c>> \notin stored})
                   ELSE <<>>]

Init == cached = {} /\ gone = {} /\ line = Unfetched({}, {})

Ask(b) ==
  /\ \E chapters \in SUBSET ChaptersOf[b] :
       line' = [line EXCEPT ![b] = @ \o InOrder(chapters \ Range(@))]
  /\ UNCHANGED <<cached, gone>>

Store(b) ==
  /\ \E c \in ChaptersOf[b] : cached' = cached \cup {<<b, c>>}
  /\ UNCHANGED <<line, gone>>

Attempted(b) ==
  /\ line[b] # <<>>
  /\ line' = [line EXCEPT ![b] = Tail(@)]
  /\ UNCHANGED <<cached, gone>>

Delete(b) ==
  /\ gone' = gone \cup {b}
  /\ line' = [line EXCEPT ![b] = <<>>]
  /\ UNCHANGED cached

\* What still happens to a book being deleted shows nowhere else.
Unwind(b) ==
  /\ b \in gone
  /\ \A a \in Books \ {b} : line'[a] = line[a]
  /\ {k \in cached' : k[1] # b} = {k \in cached : k[1] # b}
  /\ UNCHANGED gone

\* A start; a deletion that was under way may have to be asked for again.
Start ==
  /\ cached \subseteq cached'
  /\ gone' \subseteq gone
  /\ line' = Unfetched(cached', gone')

Next ==
  \/ Start
  \/ \E b \in Books : Ask(b) \/ Store(b) \/ Attempted(b) \/ Delete(b) \/ Unwind(b)

Spec == Init /\ [][Next]_vars
=============================================================================
