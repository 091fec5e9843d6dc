------------------------ MODULE ManifestPublication ------------------------
(***************************************************************************)
(* One book's manifest.json and those who write it while others do: reader *)
(* and background caching, the download and the translation run, the check *)
(* for new chapters, a client that sends a translated manga chapter.  Each *)
(* works from what it read before an await, and replaces the whole file.   *)
(*                                                                         *)
(* A manifest is a set of facts: a chapter is listed, what its source gave *)
(* (file, illustrations, origin) is recorded, its translation is recorded. *)
(* Every section under a manifest lock, and every publication, reads,      *)
(* merges and replaces the file without an await, so it is one action and  *)
(* the lock is never contended; the file is replaced atomically.  The run  *)
(* of the book is one at a time: there is one worker.                      *)
(***************************************************************************)
EXTENDS Integers

CONSTANTS
  Chapters,
  Imported    \* the chapters listed when the book was imported

ASSUME ManifestAssumption == Chapters \subseteq Nat /\ Imported \subseteq Chapters

Facts == Chapters \X {"listed", "fetched", "translated"}

VARIABLES
  kind,        \* the book is a "novel" or a "manga"
  manifest,    \* manifest.json
  published,   \* every fact a writer has published: history
  caching,     \* the chapters caching has downloads of
  run,         \* the run on the book: its task and chapters left, and, as of its
               \* last look, the manifest and the chapters whose file was there
  checking     \* a check for new chapters awaits the source

vars == <<kind, manifest, published, caching, run, checking>>

NoRun == [task |-> "none", left |-> {}, base |-> {}, sources |-> {}]

TypeOK ==
  /\ kind \in {"novel", "manga"}
  /\ manifest \subseteq Facts
  /\ published \subseteq Facts
  /\ caching \subseteq Chapters
  /\ run \in [task : {"none", "download", "translate"},
              left : SUBSET Chapters, base : SUBSET Facts, sources : SUBSET Chapters]
  /\ checking \in BOOLEAN

Has(facts, what) == {c \in Chapters : <<c, what>> \in facts}
-----------------------------------------------------------------------------
Init ==
  /\ kind \in {"novel", "manga"}
  /\ manifest = Imported \X {"listed"}
  /\ published = manifest
  /\ caching = {}
  /\ run = NoRun
  /\ checking = FALSE

\* save_manifest: the facts of base and the writer's own.
Save(base, facts) ==
  /\ manifest' = base \cup facts
  /\ published' = published \cup facts

\* For mutation: the manifest of the run's start is published.
MergeIntoSnapshot(facts) == Save(run.base, facts)

\* _manifest_for_publication, and the commits under the lock: read again, merge.
Merge(facts) == Save(manifest, facts)

\* A chapter is cached while its file is missing.
CacheStarts(c) ==
  /\ c \in Has(manifest, "listed") \ Has(published, "fetched")
  /\ caching' = caching \cup {c}
  /\ UNCHANGED <<kind, manifest, published, run, checking>>

CacheCommits(c) ==
  /\ c \in caching
  /\ caching' = caching \ {c}
  /\ Merge({<<c, "fetched">>})
  /\ UNCHANGED <<kind, run, checking>>

CacheFails(c) ==
  /\ c \in caching
  /\ caching' = caching \ {c}
  /\ UNCHANGED <<kind, manifest, published, run, checking>>

\* The worker begins a task: its row is running, then the manifest is loaded.
RunStarts ==
  /\ run = NoRun
  /\ \E task \in {"download", "translate"} :
       \E selected \in SUBSET Has(manifest, "listed") \ {{}} :
         run' = [task |-> task, left |-> selected, base |-> manifest,
                sources |-> Has(published, "fetched")]
  /\ UNCHANGED <<kind, manifest, published, caching, checking>>

RunEnds ==
  /\ run # NoRun
  /\ run' = NoRun
  /\ UNCHANGED <<kind, manifest, published, caching, checking>>

\* download_selected_chapters: the downloads end in any order, also of
\* chapters that have been fetched before.
DownloadPublishes(c) ==
  /\ run.task = "download" /\ c \in run.left
  /\ Merge({<<c, "fetched">>})
  /\ run' = [run EXCEPT !.left = @ \ {c}, !.base = manifest']
  /\ UNCHANGED <<kind, caching, checking>>

\* translate_selected_chapters for one chapter, the lowest left, whose file was
\* there when it began: a manga's is merged, a novel's is put into the manifest
\* loaded before the model was asked.
TranslationPublishes(c) ==
  /\ run.task = "translate" /\ c \in run.left
  /\ \A d \in run.left : c <= d
  /\ c \in run.sources
  /\ IF kind = "manga" THEN Merge({<<c, "translated">>})
                       ELSE Save(run.base, {<<c, "translated">>})
  /\ run' = [run EXCEPT !.left = @ \ {c}, !.base = manifest',
                        !.sources = Has(published, "fetched")]
  /\ UNCHANGED <<kind, caching, checking>>

\* _check_once: refused while a run writes the book, before the source is
\* asked and again before the merge.
CheckStarts ==
  /\ ~checking /\ run = NoRun
  /\ checking' = TRUE
  /\ UNCHANGED <<kind, manifest, published, caching, run>>

\* For mutation: whether a run writes the book is asked once.
CheckMergesUnguarded ==
  /\ checking
  /\ checking' = FALSE
  /\ \E fresh \in SUBSET (Chapters \ Has(manifest, "listed")) : Merge(fresh \X {"listed"})
  /\ UNCHANGED <<kind, caching, run>>

CheckMerges ==
  /\ checking /\ run = NoRun
  /\ checking' = FALSE
  /\ \E fresh \in SUBSET (Chapters \ Has(manifest, "listed")) : Merge(fresh \X {"listed"})
  /\ UNCHANGED <<kind, caching, run>>

CheckFails ==
  /\ checking
  /\ checking' = FALSE
  /\ UNCHANGED <<kind, manifest, published, caching, run>>

\* _commit_manga_chapter_translation: a client translated the chapter.
ClientTranslation(c) ==
  /\ kind = "manga"
  /\ c \in Has(published, "fetched") \cap Has(manifest, "listed")
  /\ Merge({<<c, "translated">>})
  /\ UNCHANGED <<kind, caching, run, checking>>

\* The process goes down: what was under way is lost, the file is not.
Crash ==
  /\ caching' = {}
  /\ run' = NoRun
  /\ checking' = FALSE
  /\ UNCHANGED <<kind, manifest, published>>

Next ==
  \/ \E c \in Chapters :
       \/ CacheStarts(c) \/ CacheCommits(c) \/ CacheFails(c)
       \/ DownloadPublishes(c) \/ TranslationPublishes(c) \/ ClientTranslation(c)
  \/ RunStarts \/ RunEnds
  \/ CheckStarts \/ CheckMerges \/ CheckFails
  \/ Crash

Spec == Init /\ [][Next]_vars
-----------------------------------------------------------------------------
\* Nothing a writer published disappears from a manga's manifest, whoever
\* else published between its reading and its writing.
MangaKeepsAll == kind = "manga" => published \subseteq manifest

\* A novel's run does overwrite what caching recorded; but no new chapter and
\* no translation is lost with it, because a check for new chapters gives way
\* to a run and nobody else translates.
DirectoryKept ==
  \A c \in Chapters : \A what \in {"listed", "translated"} :
    <<c, what>> \in published => <<c, what>> \in manifest

\* "Reload, merge and save": no publication drops another one.
NothingLost == published \subseteq manifest
=============================================================================
