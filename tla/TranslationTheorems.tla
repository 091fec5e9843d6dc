-------------------------- MODULE TranslationTheorems --------------------------
(***************************************************************************)
(* Proofs about TranslationJournal, for any number of clients, texts,      *)
(* edits, crashes and faults, and any number of entries kept.              *)
(***************************************************************************)
EXTENDS TranslationJournal, FiniteSetTheorems, TLAPS

\* Where the save under way has come to.
Progress ==
  /\ pc \in {"read", "journaled", "written"} =>
       save.seen.revision = row.revision /\ view[save.client].text = save.seen.text
  /\ pc = "read" => journal = NoJournal /\ text = save.seen.text
  /\ pc \in {"journaled", "written"} =>
       journal = [revision |-> NewRevision(save.seen), old |-> save.seen.text, new |-> save.new]
  /\ pc = "journaled" => text = journal.old
  /\ pc \in {"written", "committed"} => text = journal.new
  /\ pc = "committed" => Committed
  /\ pc \in {"committed", "failed"} => journal # NoJournal

\* A journal is ahead of the rows, or they are its rows and the text is there.
Ahead ==
  journal # NoJournal =>
    /\ text \in {journal.old, journal.new}
    /\ \/ journal.revision > row.revision
       \/ Committed /\ text = journal.new

\* The newest entry is the one of the row.
Ledger ==
  /\ row.revision = 0 => row = NoRow
  /\ row = NoRow => history = {}
  /\ row # NoRow => \E entry \in history : entry.revision = row.revision /\ entry.text = row.text
  /\ \A entry \in history : entry.revision <= row.revision

Ind == TypeOK /\ Progress /\ Ahead /\ Ledger /\ OneEntryEach

USE DEF Steps, Versions, Snapshots, Entries, NoRow, NoJournal

-----------------------------------------------------------------------------
(* The history *)

LEMMA NewestIsKept ==
  ASSUME NEW S, NEW entry \in S, \A other \in S : ~(other.revision > entry.revision)
  PROVE  entry \in Newest(S)
<1>1. {other \in S : other.revision > entry.revision} = {}
  OBVIOUS
<1>2. Cardinality({other \in S : other.revision > entry.revision}) = 0
  BY <1>1, FS_EmptySet
<1> QED
  BY <1>2, JournalAssumption DEF Newest

LEMMA SecondIsKept ==
  ASSUME NEW S, NEW entry \in S, NEW top, \A other \in S : other.revision > entry.revision => other = top
  PROVE  entry \in Newest(S)
<1> DEFINE above == {other \in S : other.revision > entry.revision}
<1>1. above = {} \/ above = {top}
  OBVIOUS
<1>2. Cardinality(above) \in {0, 1}
  BY <1>1, FS_EmptySet, FS_Singleton
<1> QED
  BY <1>2, JournalAssumption DEF Newest

\* What a commit adds to the history.
LEMMA Numbers ==
  ASSUME Ind, pc = "written"
  PROVE  /\ NewRevision(save.seen) \in Nat
         /\ NewRevision(save.seen) > row.revision
         /\ \A entry \in history : entry.revision \in Nat /\ entry.revision < NewRevision(save.seen)
         /\ \A entry \in Before(save.seen) :
              /\ entry \in Entries /\ entry.text = save.seen.text
              /\ entry.revision < NewRevision(save.seen)
              /\ \A other \in history : other.revision < entry.revision
<1>1. /\ save.seen \in Snapshots /\ save.seen.revision = row.revision /\ row.revision \in Nat
      /\ \A entry \in history : entry \in Entries /\ entry.revision <= row.revision
      /\ row = NoRow => history = {}
  BY DEF Ind, TypeOK, Progress, Ledger
<1>2. NewRevision(save.seen) \in {row.revision + 1, row.revision + 2}
      /\ (External(save.seen) => NewRevision(save.seen) = row.revision + 2)
  BY <1>1 DEF NewRevision
<1>3. \A entry \in Before(save.seen) :
        /\ entry \in Entries /\ entry.text = save.seen.text
        /\ entry.revision < NewRevision(save.seen)
        /\ \A other \in history : other.revision < entry.revision
  <2>1. CASE row = NoRow
    BY <1>1, <1>2, <2>1 DEF Before
  <2>2. CASE row # NoRow
    BY <1>1, <1>2, <2>2 DEF Before
  <2> QED
    BY <2>1, <2>2
<1> QED
  BY <1>1, <1>2, <1>3

\* The new text is the newest entry, the replaced one is kept, and no number is
\* given twice.
LEMMA Recorded ==
  ASSUME Ind, Commit
  PROVE  /\ \E entry \in history' : entry.revision = row'.revision /\ entry.text = save.new
         /\ \A entry \in history' : entry.revision <= row'.revision
         /\ save.seen.text # NoText => \E entry \in history' : entry.text = save.seen.text
         /\ history' \subseteq Entries
         /\ OneEntryEach'
<1> DEFINE all  == history \cup Before(save.seen) \cup Added(save.seen, save.new)
           last == [revision |-> NewRevision(save.seen), source |-> save.seen.source, text |-> save.new]
<1>1. pc = "written" /\ history' = Newest(all) /\ row' = last /\ Added(save.seen, save.new) = {last}
  BY DEF Commit, Added
<1>2. /\ NewRevision(save.seen) \in Nat
      /\ NewRevision(save.seen) > row.revision
      /\ \A entry \in history : entry.revision \in Nat /\ entry.revision < last.revision
      /\ \A entry \in Before(save.seen) :
           /\ entry \in Entries /\ entry.text = save.seen.text
           /\ entry.revision < last.revision
           /\ \A other \in history : other.revision < entry.revision
  BY <1>1, Numbers
<1>3. history' \subseteq all
  BY <1>1 DEF Newest
<1>4. last \in Entries /\ \A entry \in history : entry \in Entries
  BY <1>2 DEF Ind, TypeOK
<1>5. last \in history'
  <2>1. \A other \in all : ~(other.revision > last.revision)
    BY <1>1, <1>2
  <2> QED
    BY <1>1, <2>1, NewestIsKept
<1>6. \A entry \in history' : entry.revision <= row'.revision
  BY <1>1, <1>2, <1>3
<1>7. OneEntryEach'
  <2>1. \A a, b \in Before(save.seen) : a = b
    BY DEF Before
  <2>2. \A a, b \in all : a.revision = b.revision => a = b
    BY <1>1, <1>2, <2>1 DEF Ind, OneEntryEach
  <2> QED
    BY <1>3, <2>2 DEF OneEntryEach
<1>8. ASSUME save.seen.text # NoText
      PROVE  \E entry \in history' : entry.text = save.seen.text
  <2>1. CASE Before(save.seen) # {}
    <3>1. PICK entry \in Before(save.seen) : TRUE
      BY <2>1
    <3>2. \A other \in all : other.revision > entry.revision => other = last
      <4>1. \A a, b \in Before(save.seen) : a = b
        BY DEF Before
      <4> QED
        BY <1>1, <1>2, <1>4, <3>1, <4>1
    <3>3. entry \in history'
      BY <1>1, <3>1, <3>2, SecondIsKept
    <3> QED
      BY <1>2, <3>1, <3>3
  <2>2. CASE Before(save.seen) = {}
    <3>1. row # NoRow /\ row.text = save.seen.text
      BY <1>8, <2>2 DEF Before, External
    <3>2. PICK entry \in history : entry.revision = row.revision /\ entry.text = row.text
      BY <3>1 DEF Ind, Ledger
    <3>3. \A other \in all : other.revision > entry.revision => other = last
      BY <1>1, <1>2, <2>2, <3>2 DEF Ind, Ledger, TypeOK
    <3>4. entry \in history'
      BY <1>1, <3>2, <3>3, SecondIsKept
    <3> QED
      BY <3>1, <3>2, <3>4
  <2> QED
    BY <2>1, <2>2
<1>9. history' \subseteq Entries
  BY <1>1, <1>2, <1>3, <1>4
<1>10. \E entry \in history' : entry.revision = row'.revision /\ entry.text = save.new
  BY <1>1, <1>5
<1> QED
  BY <1>6, <1>7, <1>8, <1>9, <1>10

-----------------------------------------------------------------------------
(* The invariant *)

LEMMA InitEstablishes == Init => Ind
<1> SUFFICES ASSUME Init PROVE Ind
  OBVIOUS
<1>1. TypeOK
  BY JournalAssumption DEF Init, TypeOK, Snapshot
<1>2. Progress /\ Ahead /\ Ledger /\ OneEntryEach
  BY DEF Init, Progress, Ahead, Ledger, OneEntryEach
<1> QED
  BY <1>1, <1>2 DEF Ind

\* A recovery leaves one of the two texts, and no journal only when the text is
\* the one that goes with the rows.
LEMMA RecoverKeeps ==
  ASSUME Ind, RecoverOrFail, UNCHANGED <<source, rows, save, view, edits, outside, fetches, crashes>>,
         pc \in {"idle", "failed", "down"}, pc' \in {"idle", "down"}
  PROVE  Ind'
<1>1. TypeOK'
  BY JournalAssumption DEF Ind, TypeOK, RecoverOrFail, Restored, Fault, rows
<1>2. Progress'
  BY DEF Progress
<1>3. Ahead'
  BY DEF Ind, Ahead, RecoverOrFail, Restored, Committed, rows
<1>4. Ledger' /\ OneEntryEach'
  BY DEF Ind, Ledger, OneEntryEach, rows
<1> QED
  BY <1>1, <1>2, <1>3, <1>4 DEF Ind

LEMMA LoadKeeps ==
  ASSUME Ind, NEW c \in Clients, Load(c)
  PROVE  Ind'
<1>1. TypeOK'
  BY DEF Ind, TypeOK, Load, Snapshot, files, rows, bounds
<1>2. Progress' /\ Ahead' /\ Ledger' /\ OneEntryEach'
  BY DEF Ind, Progress, Ahead, Ledger, OneEntryEach, Committed, Load, files, rows
<1> QED
  BY <1>1, <1>2 DEF Ind

LEMMA ReadKeeps ==
  ASSUME Ind, NEW c \in Clients, NEW new \in Texts, Read(c, new)
  PROVE  Ind'
<1>1. TypeOK'
  BY JournalAssumption DEF Ind, TypeOK, Read, Snapshot, files, rows
<1>2. Progress'
  BY DEF Ind, Progress, Read, Unchanged, Snapshot, files, rows
<1>3. Ahead' /\ Ledger' /\ OneEntryEach'
  BY DEF Ind, Ahead, Ledger, OneEntryEach, Committed, Read, files, rows
<1> QED
  BY <1>1, <1>2, <1>3 DEF Ind

\* The journal is ahead of the rows.
LEMMA PrepareKeeps ==
  ASSUME Ind, Prepare
  PROVE  Ind'
<1>1. /\ row.revision \in Nat /\ save.seen.revision = row.revision
      /\ save.seen.text = text /\ save.seen \in Snapshots /\ save.new \in Texts
  BY DEF Ind, TypeOK, Progress, Prepare
<1>2. NewRevision(save.seen) \in {row.revision + 1, row.revision + 2}
  BY <1>1 DEF NewRevision
<1>3. NewRevision(save.seen)' = NewRevision(save.seen)
  BY DEF Prepare, NewRevision, External, rows
<1>4. TypeOK'
  BY <1>1, <1>2 DEF Ind, TypeOK, Prepare, rows, bounds
<1>5. Progress'
  BY <1>1, <1>3 DEF Ind, Progress, Prepare, rows
<1>6. Ahead'
  BY <1>1, <1>2 DEF Ahead, Prepare, rows
<1>7. Ledger' /\ OneEntryEach'
  BY DEF Ind, Ledger, OneEntryEach, Prepare, rows
<1> QED
  BY <1>4, <1>5, <1>6, <1>7 DEF Ind

LEMMA WriteTextKeeps ==
  ASSUME Ind, WriteText
  PROVE  Ind'
<1>1. NewRevision(save.seen)' = NewRevision(save.seen)
  BY DEF WriteText, NewRevision, External, rows
<1>2. TypeOK'
  BY DEF Ind, TypeOK, WriteText, rows, bounds
<1>3. Progress'
  BY <1>1 DEF Ind, Progress, WriteText, rows
<1>4. Ahead'
  BY DEF Ind, Ahead, Progress, Committed, WriteText, rows
<1>5. Ledger' /\ OneEntryEach'
  BY DEF Ind, Ledger, OneEntryEach, WriteText, rows
<1> QED
  BY <1>2, <1>3, <1>4, <1>5 DEF Ind

LEMMA CommitKeeps ==
  ASSUME Ind, Commit
  PROVE  Ind'
<1>1. /\ pc = "written" /\ pc' = "committed"
      /\ row' = [revision |-> NewRevision(save.seen), source |-> save.seen.source, text |-> save.new]
      /\ UNCHANGED <<text, journal, source, save, view, edits, outside, fetches, crashes, faults>>
  BY DEF Commit, files, bounds
<1>2. NewRevision(save.seen) \in Nat /\ NewRevision(save.seen) > row.revision /\ row.revision \in Nat
  BY <1>1, Numbers DEF Ind, TypeOK
<1>3. /\ \E entry \in history' : entry.revision = row'.revision /\ entry.text = save.new
      /\ \A entry \in history' : entry.revision <= row'.revision
      /\ history' \subseteq Entries
      /\ OneEntryEach'
  BY Recorded
<1>4. TypeOK'
  BY <1>1, <1>2, <1>3 DEF Ind, TypeOK
<1>5. /\ journal = [revision |-> NewRevision(save.seen), old |-> save.seen.text, new |-> save.new]
      /\ text = journal.new
  BY <1>1 DEF Ind, Progress
<1>6. Progress'
  BY <1>1, <1>2, <1>5 DEF Progress, Committed
<1>7. Ahead'
  BY <1>1, <1>5 DEF Ahead, Committed
<1>8. Ledger'
  BY <1>1, <1>2, <1>3 DEF Ledger
<1> QED
  BY <1>3, <1>4, <1>6, <1>7, <1>8 DEF Ind

LEMMA FinishKeeps ==
  ASSUME Ind, Finish
  PROVE  Ind'
<1>1. TypeOK'
  <2>1. TypeOK /\ NoJournal' = NoJournal
    BY DEF Ind, NoJournal
  <2>2. view' \in [Clients -> Snapshots]
    <3>1. Snapshot \in Snapshots
      BY <2>1 DEF TypeOK, Snapshot, Snapshots
    <3> QED
      BY <2>1, <3>1 DEF TypeOK, Finish
  <2>3. NoJournal \in [revision : Nat, old : Versions, new : Versions] /\ "idle" \in Steps
    BY DEF NoJournal, Versions, Steps
  <2> QED
    BY <2>1, <2>2, <2>3 DEF TypeOK, Finish, rows, bounds
<1>2. Progress' /\ Ahead'
  BY DEF Progress, Ahead, Finish
<1>3. Ledger' /\ OneEntryEach'
  BY DEF Ind, Ledger, OneEntryEach, Finish, rows
<1> QED
  BY <1>1, <1>2, <1>3 DEF Ind

LEMMA FailsKeeps ==
  ASSUME Ind, Fails
  PROVE  Ind'
<1>1. TypeOK'
  BY JournalAssumption DEF Ind, TypeOK, Fails, Fault, files, rows
<1>2. Progress' /\ Ahead' /\ Ledger' /\ OneEntryEach'
  BY DEF Ind, Progress, Ahead, Ledger, OneEntryEach, Committed, Fails, files, rows
<1> QED
  BY <1>1, <1>2 DEF Ind

LEMMA OthersKeep ==
  ASSUME Ind,
         \/ \E new \in Texts : Outside(new)
         \/ \E original \in Sources : Refetch(original)
         \/ Crash
  PROVE  Ind'
<1>1. CASE \E new \in Texts : Outside(new)
  <2>1. PICK new \in Texts : Outside(new)
    BY <1>1
  <2>2. TypeOK'
    BY <2>1, JournalAssumption DEF Ind, TypeOK, Outside, rows
  <2>3. Progress' /\ Ahead' /\ Ledger' /\ OneEntryEach'
    BY <2>1 DEF Ind, Progress, Ahead, Ledger, OneEntryEach, Outside, rows
  <2> QED
    BY <2>2, <2>3 DEF Ind
<1>2. CASE \E original \in Sources : Refetch(original)
  <2>1. PICK original \in Sources : Refetch(original)
    BY <1>2
  <2>2. TypeOK'
    BY <2>1, JournalAssumption DEF Ind, TypeOK, Refetch, files, rows
  <2>3. NewRevision(save.seen)' = NewRevision(save.seen) /\ (Committed' <=> Committed)
    BY <2>1 DEF Refetch, NewRevision, External, Committed, files, rows
  <2>4. Progress' /\ Ahead' /\ Ledger' /\ OneEntryEach'
    BY <2>1, <2>3 DEF Ind, Progress, Ahead, Ledger, OneEntryEach, Refetch, files, rows
  <2> QED
    BY <2>2, <2>4 DEF Ind
<1>3. CASE Crash
  <2>1. TypeOK'
    BY <1>3, JournalAssumption DEF Ind, TypeOK, Crash, files, rows
  <2>2. Progress' /\ Ahead' /\ Ledger' /\ OneEntryEach'
    BY <1>3 DEF Ind, Progress, Ahead, Ledger, OneEntryEach, Committed, Crash, files, rows
  <2> QED
    BY <2>1, <2>2 DEF Ind
<1> QED
  BY <1>1, <1>2, <1>3

LEMMA StutterKeeps ==
  ASSUME Ind, UNCHANGED vars
  PROVE  Ind'
<1>1. TypeOK'
  BY DEF Ind, TypeOK, vars, files, rows, bounds
<1>2. NewRevision(save.seen)' = NewRevision(save.seen) /\ (Committed' <=> Committed)
  BY DEF vars, NewRevision, External, Committed, files, rows
<1>3. Progress' /\ Ahead' /\ Ledger' /\ OneEntryEach'
  BY <1>2 DEF Ind, Progress, Ahead, Ledger, OneEntryEach, vars, files, rows
<1> QED
  BY <1>1, <1>3 DEF Ind

LEMMA StepKeeps ==
  ASSUME Ind, [Next]_vars
  PROVE  Ind'
<1>1. CASE Recover \/ Undo
  BY <1>1, RecoverKeeps DEF Recover, Undo
<1>2. CASE Start
  <2>1. CASE journal = NoJournal
    <3>1. pc' = "idle" /\ UNCHANGED <<text, journal, source, row, history, save, view, bounds>>
      BY <1>2, <2>1 DEF Start, files, rows, bounds
    <3>2. TypeOK'
      BY <3>1 DEF Ind, TypeOK, bounds
    <3>3. Progress' /\ Ahead' /\ Ledger' /\ OneEntryEach'
      BY <2>1, <3>1 DEF Ind, Progress, Ahead, Ledger, OneEntryEach
    <3> QED
      BY <3>2, <3>3 DEF Ind
  <2>2. CASE journal # NoJournal
    BY <1>2, <2>2, RecoverKeeps DEF Start
  <2> QED
    BY <2>1, <2>2
<1>3. CASE \E c \in Clients : Load(c) \/ \E new \in Texts : Read(c, new)
  BY <1>3, LoadKeeps, ReadKeeps
<1>4. CASE Prepare \/ WriteText \/ Commit \/ Finish \/ Fails
  BY <1>4, PrepareKeeps, WriteTextKeeps, CommitKeeps, FinishKeeps, FailsKeeps
<1>5. CASE \/ \E new \in Texts : Outside(new)
           \/ \E original \in Sources : Refetch(original)
           \/ Crash
  BY <1>5, OthersKeep
<1>6. CASE UNCHANGED vars
  BY <1>6, StutterKeeps
<1> QED
  BY <1>1, <1>2, <1>3, <1>4, <1>5, <1>6 DEF Next

-----------------------------------------------------------------------------
(* The theorems *)

\* The inductive invariant: how far a save has come, on which side of the rows
\* its journal is, and that the row is the newest entry of the history.
THEOREM JournalInvariant == Spec => []Ind
<1>1. Init => Ind
  BY InitEstablishes
<1>2. Ind /\ [Next]_vars => Ind'
  BY StepKeeps
<1> QED
  BY <1>1, <1>2, PTL DEF Spec

\* A recovery finds what it expects, wherever the save or an earlier recovery
\* stopped.
THEOREM RecoveryNeverRefuses == Spec => []NeverRefuses
<1>1. Ind => NeverRefuses
  BY DEF Ind, TypeOK, Ahead, NeverRefuses, Refuses, Committed
<1> QED
  BY <1>1, JournalInvariant, PTL

\* No revision is given to two texts.
THEOREM EntriesHaveTheirNumber == Spec => []OneEntryEach
<1>1. Ind => OneEntryEach
  BY DEF Ind
<1> QED
  BY <1>1, JournalInvariant, PTL

\* No chapter is stuck, whatever happens to a save or to a recovery.
THEOREM ChaptersNeverStick == Spec => []NeverStuck
  BY RecoveryNeverRefuses, EntriesHaveTheirNumber, PTL DEF NeverStuck

\* Only a commit changes the row, and what it replaces is what its client had.
THEOREM EditsAreNotBlind == Spec => NoLostUpdate
<1>1. Ind /\ [Next]_vars => [row' # row => view[save.client].text = journal.old]_vars
  BY DEF Ind, Progress, Next, vars, rows, files, Recover, Load, Read, Prepare, WriteText, Commit,
         Finish, Fails, Undo, Outside, Refetch, Crash, Start
<1> QED
  BY <1>1, JournalInvariant, PTL DEF Spec, NoLostUpdate

\* What a reader finds after a recovery.
Text == IF journal = NoJournal \/ Committed THEN text ELSE journal.old

\* A recovery, complete or not, does not change what a recovery leaves.
LEMMA RecoveryIsSilent ==
  ASSUME Ind, RecoverOrFail, UNCHANGED <<row, history, outside>>
  PROVE  UNCHANGED <<Text, row.revision, history, outside>>
<1>1. Text' = Text
  BY DEF Ind, Ahead, TypeOK, Text, RecoverOrFail, Restored, Committed
<1> QED
  BY <1>1

LEMMA CommitIsAnEdit ==
  ASSUME Ind, Commit
  PROVE  Revised!Edit(save.new)
<1>1. /\ pc = "written"
      /\ row' = [revision |-> NewRevision(save.seen), source |-> save.seen.source, text |-> save.new]
      /\ UNCHANGED <<text, journal, outside>>
  BY DEF Commit, files, bounds
<1>2. NewRevision(save.seen) > row.revision
  BY <1>1, Numbers
<1>3. /\ journal = [revision |-> NewRevision(save.seen), old |-> save.seen.text, new |-> save.new]
      /\ text = journal.new /\ row.revision \in Nat
  BY <1>1 DEF Ind, Progress, TypeOK
<1>4. Text = save.seen.text /\ Text' = save.new
  BY <1>1, <1>2, <1>3 DEF Text, Committed, Ind, TypeOK
<1>5. /\ \E entry \in history' : entry.revision = row'.revision /\ entry.text = save.new
      /\ \A entry \in history' : entry.revision <= row'.revision
      /\ save.seen.text # NoText => \E entry \in history' : entry.text = save.seen.text
  BY Recorded
<1> QED
  BY <1>1, <1>2, <1>4, <1>5 DEF Revised!Edit, Text

\* The journal, the text and the rows together implement a text that is edited
\* at once or not at all, and whose replaced versions are kept.
THEOREM JournalIsAtomic == Spec => EditsAtOnce
<1> DEFINE same == UNCHANGED <<Text, row.revision, history, outside>>
<1>1. Init => Revised!Init
  BY DEF Init, Revised!Init
<1>2. ASSUME Ind, [Next]_vars
      PROVE  [Revised!Next]_<<Text, row.revision, history, outside>>
  <2>1. CASE Recover \/ Undo
    BY <1>2, <2>1, RecoveryIsSilent DEF Recover, Undo, rows
  <2>2. CASE Start
    <3>1. CASE journal = NoJournal
      BY <2>2, <3>1 DEF Start, Text, Committed, files, rows
    <3>2. CASE journal # NoJournal
      BY <1>2, <2>2, <3>2, RecoveryIsSilent DEF Start, rows
    <3> QED
      BY <3>1, <3>2
  <2>3. CASE \E c \in Clients : Load(c) \/ \E new \in Texts : Read(c, new)
    BY <2>3 DEF Load, Read, Text, Committed, files, rows, bounds
  <2>4. CASE Prepare
    <3>1. /\ save.seen.revision = row.revision /\ save.seen.text = text
          /\ journal = NoJournal /\ row.revision \in Nat
      BY <1>2, <2>4 DEF Ind, Progress, TypeOK, Prepare
    <3>2. NewRevision(save.seen) > row.revision
      BY <3>1 DEF NewRevision
    <3> QED
      BY <2>4, <3>1, <3>2 DEF Prepare, Text, Committed, rows, bounds
  <2>5. CASE WriteText
    <3>1. /\ save.seen.revision = row.revision /\ row.revision \in Nat
          /\ journal = [revision |-> NewRevision(save.seen), old |-> save.seen.text, new |-> save.new]
          /\ text = journal.old
      BY <1>2, <2>5 DEF Ind, Progress, TypeOK, WriteText
    <3>2. NewRevision(save.seen) > row.revision
      BY <3>1 DEF NewRevision
    <3> QED
      BY <2>5, <3>1, <3>2 DEF WriteText, Text, Committed, rows, bounds
  <2>6. CASE Commit
    <3>1. save.new \in Texts
      BY <1>2 DEF Ind, TypeOK
    <3> QED
      BY <1>2, <2>6, <3>1, CommitIsAnEdit DEF Revised!Next
  <2>7. CASE Finish
    BY <1>2, <2>7 DEF Ind, Progress, Finish, Text, Committed, rows, bounds
  <2>8. CASE Fails
    BY <2>8 DEF Fails, Text, Committed, files, rows
  <2>9. CASE \E new \in Texts : Outside(new)
    BY <2>9 DEF Outside, Revised!Next, Revised!Replace, Text, rows
  <2>10. CASE \E original \in Sources : Refetch(original)
    BY <2>10 DEF Refetch, Text, Committed, files, rows
  <2>11. CASE Crash
    BY <2>11 DEF Crash, Text, Committed, files, rows
  <2>12. CASE UNCHANGED vars
    BY <2>12 DEF vars, Text, Committed, files, rows, bounds
  <2> QED
    BY <1>2, <2>1, <2>2, <2>3, <2>4, <2>5, <2>6, <2>7, <2>8, <2>9, <2>10, <2>11, <2>12 DEF Next
<1> QED
  BY <1>1, <1>2, JournalInvariant, PTL DEF Spec, EditsAtOnce, Revised!Spec, Text
===============================================================================
