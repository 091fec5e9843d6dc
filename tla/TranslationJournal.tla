-------------------------- MODULE TranslationJournal --------------------------
(***************************************************************************)
(* Publication of the edited translation of one chapter                    *)
(* (translation_quality_service.py, translation_quality_files.py,          *)
(* translation_quality_hooks.py).  The text is a file, its revision and    *)
(* history are rows of SQLite: a journal beside the file, written first    *)
(* and removed last, lets a recovery take the text back when the rows were *)
(* not committed.                                                          *)
(*                                                                         *)
(* A save holds WRITE_LOCK, so one is under way at a time; its actions end *)
(* where the process may stop.  A digest is equal where the texts are, so  *)
(* it is not told apart from its text.                                     *)
(***************************************************************************)
EXTENDS Integers, FiniteSets

CONSTANTS
  Clients,      \* editors and translation tasks
  Texts,        \* translations of the chapter
  NoText,       \* no file
  Sources,      \* originals of the chapter
  MaxHistory,   \* the entries that are kept (100 in the code)
  MaxEdits,     \* bound: saves
  MaxOutside,   \* bound: translations that do not pass through a save
  MaxFetches,   \* bound: changes of the original
  MaxCrashes,   \* bound: crashes
  MaxFaults     \* bound: calls of the file system or of SQLite that fail

ASSUME JournalAssumption ==
  /\ NoText \notin Texts
  /\ MaxHistory \in Nat \ {0, 1}
  /\ MaxEdits \in Nat /\ MaxOutside \in Nat /\ MaxFetches \in Nat
  /\ MaxCrashes \in Nat /\ MaxFaults \in Nat

VARIABLES
  text, source, \* the files of the chapter
  row,          \* translation_quality_state
  history,      \* translation_quality_history
  journal,      \* .translation-quality-<index>.json
  pc,           \* of the save under way, or of the process
  save,         \* what the save under way has read and is to write
  view,         \* view[c]: the chapter as client c has it
  edits, outside, fetches, crashes, faults

files  == <<text, journal>>
rows   == <<row, history>>
bounds == <<edits, outside, fetches, crashes, faults>>
vars   == <<files, source, rows, pc, save, view, bounds>>

NoRow     == [revision |-> 0, source |-> NoText, text |-> NoText]
NoJournal == [revision |-> 0, old |-> NoText, new |-> NoText]

Versions  == Texts \cup {NoText}
Snapshots == [revision : Nat, source : Sources, text : Versions]
Entries   == [revision : Nat, source : Sources, text : Versions]

Steps == {"idle", "read", "journaled", "written", "committed", "failed", "down"}

TypeOK ==
  /\ text \in Versions /\ source \in Sources
  /\ row \in [revision : Nat, source : Sources \cup {NoText}, text : Versions]
  /\ history \subseteq Entries
  /\ journal \in [revision : Nat, old : Versions, new : Versions]
  /\ pc \in Steps
  /\ save \in [client : Clients, seen : Snapshots, new : Texts]
  /\ view \in [Clients -> Snapshots]
  /\ edits \in 0..MaxEdits /\ outside \in 0..MaxOutside /\ fetches \in 0..MaxFetches
  /\ crashes \in 0..MaxCrashes /\ faults \in 0..MaxFaults

\* The chapter as get_chapter gives it.
Snapshot == [revision |-> row.revision, source |-> source, text |-> text]

Init ==
  /\ text \in Versions /\ source \in Sources
  /\ row = NoRow /\ history = {} /\ journal = NoJournal
  /\ pc = "idle"
  /\ view = [c \in Clients |-> Snapshot]
  /\ save \in [client : Clients, seen : {Snapshot}, new : Texts]
  /\ edits = 0 /\ outside = 0 /\ fetches = 0 /\ crashes = 0 /\ faults = 0

Fault == faults < MaxFaults /\ faults' = faults + 1

-----------------------------------------------------------------------------
(* recover_journal *)

\* The rows that the journal was written for are there.
Committed == row.revision = journal.revision /\ row.text = journal.new

\* Neither of the two texts is there, or not the one that was committed.
Refuses ==
  \/ text \notin {journal.old, journal.new}
  \/ Committed /\ text # journal.new

\* For mutation: the journal is dropped and the text is left.
NotRestored == UNCHANGED text

Restored == text' = IF Committed THEN text ELSE journal.old

\* It may fail when the text is restored and before.
RecoverOrFail ==
  /\ journal # NoJournal /\ ~Refuses
  /\ \/ Restored /\ journal' = NoJournal /\ UNCHANGED faults
     \/ Fault /\ UNCHANGED journal /\ (Restored \/ UNCHANGED text)

-----------------------------------------------------------------------------
(* get_chapter and save_chapter *)

\* chapter_files: a journal that was left behind comes first.
Recover ==
  /\ pc = "idle"
  /\ RecoverOrFail
  /\ UNCHANGED <<source, rows, pc, save, view, edits, outside, fetches, crashes>>

\* get_chapter
Load(c) ==
  /\ pc = "idle" /\ journal = NoJournal
  /\ view[c] # Snapshot
  /\ view' = [view EXCEPT ![c] = Snapshot]
  /\ UNCHANGED <<files, source, rows, pc, save, bounds>>

\* For mutation: the revision alone is compared.
UnchangedRevision(seen) == seen.revision = row.revision

\* verify_cas
Unchanged(seen) == seen = Snapshot

\* save_chapter, up to the journal: an edit, a text of the history, or what a
\* task has translated, on the chapter as the client has it.
Read(c, new) ==
  /\ pc = "idle" /\ journal = NoJournal
  /\ edits < MaxEdits /\ edits' = edits + 1
  /\ Unchanged(view[c])
  /\ new # text
  /\ pc' = "read"
  /\ save' = [client |-> c, seen |-> Snapshot, new |-> new]
  /\ UNCHANGED <<files, source, rows, view, outside, fetches, crashes, faults>>

\* The text was changed by something other than a save, or its original was.
External(seen) == row # NoRow /\ (row.text # seen.text \/ row.source # seen.source)

NewRevision(seen) == seen.revision + (IF External(seen) THEN 2 ELSE 1)

\* prepare_journal
Prepare ==
  /\ pc = "read"
  /\ journal' = [revision |-> NewRevision(save.seen), old |-> text, new |-> save.new]
  /\ pc' = "journaled"
  /\ UNCHANGED <<text, source, rows, save, view, bounds>>

\* atomic_write
WriteText ==
  /\ pc = "journaled"
  /\ text' = save.new
  /\ pc' = "written"
  /\ UNCHANGED <<journal, source, rows, save, view, bounds>>

\* What insert_history adds: the text before, unless it is there already, and
\* the new one.
Before(seen) ==
  IF row = NoRow
    THEN IF seen.text = NoText THEN {} ELSE {seen}
    ELSE IF External(seen) THEN {[seen EXCEPT !.revision = @ + 1]} ELSE {}
Added(seen, new) == {[revision |-> NewRevision(seen), source |-> seen.source, text |-> new]}

\* The newest entries.
Newest(entries) ==
  {entry \in entries :
     Cardinality({other \in entries : other.revision > entry.revision}) < MaxHistory}

\* For mutation: the rows are committed before the text is written.
CommitEarly ==
  /\ pc = "journaled"
  /\ row' = [revision |-> NewRevision(save.seen), source |-> save.seen.source, text |-> save.new]
  /\ history' = Newest(history \cup Before(save.seen) \cup Added(save.seen, save.new))
  /\ pc' = "committed"
  /\ UNCHANGED <<files, source, save, view, bounds>>

Commit ==
  /\ pc = "written"
  /\ row' = [revision |-> NewRevision(save.seen), source |-> save.seen.source, text |-> save.new]
  /\ history' = Newest(history \cup Before(save.seen) \cup Added(save.seen, save.new))
  /\ pc' = "committed"
  /\ UNCHANGED <<files, source, save, view, bounds>>

\* The journal is removed, and the client gets the chapter, or no answer.
Finish ==
  /\ pc = "committed"
  /\ journal' = NoJournal
  /\ UNCHANGED view \/ view' = [view EXCEPT ![save.client] = Snapshot]
  /\ pc' = "idle"
  /\ UNCHANGED <<text, source, rows, save, bounds>>

\* A step fails, the transaction is rolled back unless it was committed ...
Fails ==
  /\ pc \in {"read", "journaled", "written", "committed"}
  /\ Fault
  /\ pc' = IF journal = NoJournal THEN "idle" ELSE "failed"
  /\ UNCHANGED <<files, source, rows, save, view, edits, outside, fetches, crashes>>

\* ... and the text is recovered, or left for the next who asks for it.
Undo ==
  /\ pc = "failed"
  /\ RecoverOrFail
  /\ pc' = "idle"
  /\ UNCHANGED <<source, rows, save, view, edits, outside, fetches, crashes>>

-----------------------------------------------------------------------------
(* Others *)

\* publish_novel_translation of a chapter that is too long for proofreading.
Outside(new) ==
  /\ pc = "idle" /\ journal = NoJournal
  /\ outside < MaxOutside /\ outside' = outside + 1
  /\ text' = new
  /\ UNCHANGED <<journal, source, rows, pc, save, view, edits, fetches, crashes, faults>>

\* The original is fetched again, at any time.
Refetch(original) ==
  /\ pc # "down"
  /\ fetches < MaxFetches /\ fetches' = fetches + 1
  /\ source' = original
  /\ UNCHANGED <<files, rows, pc, save, view, edits, outside, crashes, faults>>

Crash ==
  /\ pc # "down"
  /\ crashes < MaxCrashes /\ crashes' = crashes + 1
  /\ pc' = "down"
  /\ UNCHANGED <<files, source, rows, save, view, edits, outside, fetches, faults>>

\* recover_translation_quality_writes: the process does not start unless it
\* succeeds.
Start ==
  /\ pc = "down"
  /\ IF journal = NoJournal THEN pc' = "idle" /\ UNCHANGED <<files, faults>>
     ELSE /\ RecoverOrFail
          /\ pc' = IF journal' = NoJournal THEN "idle" ELSE "down"
  /\ UNCHANGED <<source, rows, save, view, edits, outside, fetches, crashes>>

Next ==
  \/ Recover
  \/ \E c \in Clients : Load(c) \/ \E new \in Texts : Read(c, new)
  \/ Prepare \/ WriteText \/ Commit \/ Finish
  \/ Fails \/ Undo
  \/ \E new \in Texts : Outside(new)
  \/ \E original \in Sources : Refetch(original)
  \/ Crash \/ Start

Spec == Init /\ [][Next]_vars

-----------------------------------------------------------------------------
(* Properties *)

\* A recovery finds one of the two texts of its journal and the rows on the
\* right side, at whichever step the save stopped or the recovery before it: the
\* process starts, and the chapter can be read.
NeverRefuses == journal # NoJournal => ~Refuses

\* UNIQUE(book_id, chapter_index, revision): no edit fails because a text that
\* was changed from outside took its number.
OneEntryEach == \A a, b \in history : a.revision = b.revision => a = b

\* A chapter is never stuck: it can be read, and the next edit finds a number.
NeverStuck == NeverRefuses /\ OneEntryEach

\* The client of an edit had the text that its edit replaces.
NoLostUpdate == [][row' # row => view[save.client].text = journal.old]_vars

\* The text a reader finds once a recovery has taken place, its revision and
\* its history change together.
Revised == INSTANCE RevisedText WITH
  text     <- IF journal = NoJournal \/ Committed THEN text ELSE journal.old,
  revision <- row.revision,
  replaced <- outside

EditsAtOnce == Revised!Spec
=============================================================================
