------------------------------ MODULE RevisedText ------------------------------
(***************************************************************************)
(* What proofreading promises of the translation of a chapter: an edit     *)
(* takes place at once or not at all, under a new revision, and leaves the *)
(* text it replaces in the history.                                        *)
(***************************************************************************)
EXTENDS Naturals

CONSTANTS Texts, NoText

VARIABLES
  text,         \* the translation of the chapter
  revision,     \* the number of its last edit
  history,      \* entries, each with the revision and the text it had
  replaced      \* how often something else than an edit has changed the text

Init == text \in Texts \cup {NoText} /\ revision = 0 /\ history = {} /\ replaced = 0

\* The new text is the newest entry, and the replaced one is an entry as well.
Edit(new) ==
  /\ text' = new
  /\ revision' > revision
  /\ \E entry \in history' : entry.revision = revision' /\ entry.text = new
  /\ \A entry \in history' : entry.revision <= revision'
  /\ text # NoText => \E entry \in history' : entry.text = text
  /\ UNCHANGED replaced

\* A translation that does not pass through proofreading.
Replace(new) == text' = new /\ replaced' = replaced + 1 /\ UNCHANGED <<revision, history>>

Next == \E new \in Texts : Edit(new) \/ Replace(new)

Spec == Init /\ [][Next]_<<text, revision, history, replaced>>
=============================================================================
