--------------------------- MODULE ReadingProgress ---------------------------
(***************************************************************************)
(* The reading position of one book on the server                          *)
(* (reading_progress_repository.py): one row, replaced by compare and set  *)
(* on its revision, and a receipt for each operation that replaced it, so  *)
(* that a repeated request gets its first answer.  Every function is one   *)
(* SQLite transaction (BEGIN IMMEDIATE), so one action.                    *)
(*                                                                         *)
(* The row is the last entry of "log", its revision the length of "log";   *)
(* the code does not keep the earlier entries: they are there for answers  *)
(* that arrive late and for the properties.                                *)
(***************************************************************************)
EXTENDS Integers, Sequences, FiniteSets

CONSTANT
  MaxReceipts   \* the receipts that are kept (256 in the code)

ASSUME ReceiptsAssumption == MaxReceipts \in Nat \ {0}

VARIABLES
  log,          \* the positions the row has held, with who wrote them
  protected,    \* the row's versioned flag
  receipts      \* reading_progress_receipts

serverVars == <<log, protected, receipts>>

\* What stands for an operation where a client that knows no revisions writes,
\* or the server itself; the positions they write are not told apart.
ByLegacy  == 0
ByServer  == -1
Elsewhere == 0

Requests == [op : Nat \ {0}, expected : Nat, position : Nat \ {Elsewhere}]
Entries  == [op : Nat \cup {ByServer}, expected : Nat, position : Nat]

Revision == Len(log)

ReceiptsOf(op) == {receipt \in receipts : receipt.request.op = op}

\* A repeated request: same operation, same content.
Replayed(request) == \E receipt \in ReceiptsOf(request.op) : receipt.request = request

\* For mutation: what the client knows of is not compared.
AcceptsBlindly(request) == ReceiptsOf(request.op) = {}

\* The write goes through: no receipt of the operation, nobody wrote meanwhile.
Accepts(request) == ReceiptsOf(request.op) = {} /\ request.expected = Revision

\* What the client is told: the revision its write made, also when it repeats
\* a request, or the revision that is there (409).
Answer(request) ==
  IF Replayed(request)
    THEN [saved |-> TRUE,
          revision |-> (CHOOSE receipt \in ReceiptsOf(request.op) : TRUE).revision]
    ELSE IF Accepts(request) THEN [saved |-> TRUE, revision |-> Revision + 1]
    ELSE [saved |-> FALSE, revision |-> Revision]

\* The newest receipts.
Newest(rs) ==
  {receipt \in rs :
     Cardinality({other \in rs : other.revision > receipt.revision}) < MaxReceipts}

ServerInit == log = <<>> /\ protected = FALSE /\ receipts = {}

\* save_progress with a revision and an operation identifier.
SaveVersioned(request) ==
  IF Accepts(request)
    THEN /\ log' = Append(log, request)
         /\ protected' = TRUE
         /\ receipts' = Newest(receipts \cup {[request |-> request, revision |-> Revision + 1]})
    ELSE UNCHANGED serverVars

\* save_progress of a client that knows no revisions: refused once one that
\* does has written.
SaveLegacy ==
  /\ ~protected
  /\ log' = Append(log, [op |-> ByLegacy, expected |-> Revision, position |-> Elsewhere])
  /\ protected' = FALSE
  /\ UNCHANGED receipts

\* save_progress_internal: the server moves a position that lies behind the
\* last chapter.
SaveInternal ==
  /\ log' = Append(log, [op |-> ByServer, expected |-> Revision, position |-> Elsewhere])
  /\ UNCHANGED <<protected, receipts>>
=============================================================================
