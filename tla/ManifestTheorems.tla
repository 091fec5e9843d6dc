-------------------------- MODULE ManifestTheorems --------------------------
(***************************************************************************)
(* What no interleaving of a book's writers can lose, for any number of    *)
(* chapters.  MangaKeepsAll is inductive.  DirectoryKept is not: it needs  *)
(* that the manifest a novel's translation will publish is no poorer in    *)
(* chapters and translations than what has been published since it was     *)
(* read, which holds because nobody else publishes such facts meanwhile.   *)
(***************************************************************************)
EXTENDS ManifestPublication, TLAPS

\* The manifest a novel's translation works from has every chapter and every
\* translation published so far.
SnapshotCurrent ==
  kind = "novel" /\ run.task = "translate" =>
    \A c \in Chapters : \A what \in {"listed", "translated"} :
      <<c, what>> \in published => <<c, what>> \in run.base

ManifestInv == TypeOK /\ MangaKeepsAll /\ DirectoryKept /\ SnapshotCurrent

-----------------------------------------------------------------------------
\* A merge keeps what the manifest had and what had been published, and adds
\* the same facts to both.
LEMMA MergeKeeps ==
  ASSUME NEW facts \in SUBSET Facts, TypeOK, Merge(facts)
  PROVE  /\ manifest' = manifest \cup facts
         /\ published' = published \cup facts
         /\ manifest' \subseteq Facts /\ published' \subseteq Facts
         /\ (published \subseteq manifest) => (published' \subseteq manifest')
         /\ DirectoryKept => DirectoryKept'
  BY DEF Merge, Save, TypeOK, DirectoryKept

\* A state where none of the facts, the run and the kind of book has changed
\* keeps what is said of them.
LEMMA Untouched ==
  ASSUME ManifestInv, UNCHANGED <<kind, manifest, published, run>>
  PROVE  (MangaKeepsAll /\ DirectoryKept /\ SnapshotCurrent)'
  BY DEF ManifestInv, MangaKeepsAll, DirectoryKept, SnapshotCurrent

\* The invariant holds of a book just imported.
LEMMA ManifestInit == Init => ManifestInv
<1> SUFFICES ASSUME Init PROVE ManifestInv
  OBVIOUS
<1>1. manifest \subseteq Facts /\ published \subseteq Facts
  BY ManifestAssumption DEF Init, Facts
<1>2. run = [task |-> "none", left |-> {}, base |-> {}, sources |-> {}]
  BY DEF Init, NoRun
<1>3. TypeOK
  <2>1. run \in [task : {"none", "download", "translate"}, left : SUBSET Chapters,
                 base : SUBSET Facts, sources : SUBSET Chapters]
    BY <1>2
  <2>2. kind \in {"novel", "manga"} /\ caching \subseteq Chapters /\ checking \in BOOLEAN
    BY DEF Init
  <2> QED BY <1>1, <2>1, <2>2 DEF TypeOK
<1>4. MangaKeepsAll /\ DirectoryKept
  BY DEF Init, MangaKeepsAll, DirectoryKept
<1>5. SnapshotCurrent
  BY <1>2 DEF SnapshotCurrent
<1> QED BY <1>3, <1>4, <1>5 DEF ManifestInv

\* Every writer preserves the invariant.
LEMMA ManifestStep == ManifestInv /\ [Next]_vars => ManifestInv'
<1> SUFFICES ASSUME ManifestInv, [Next]_vars PROVE ManifestInv'
  OBVIOUS
<1> USE DEF ManifestInv
<1>1. ASSUME NEW c \in Chapters, CacheStarts(c) PROVE ManifestInv'
  BY <1>1, Untouched DEF CacheStarts, TypeOK
<1>2. ASSUME NEW c \in Chapters, CacheCommits(c) PROVE ManifestInv'
  <2> {<<c, "fetched">>} \in SUBSET Facts
    BY DEF Facts
  <2>1. TypeOK' /\ MangaKeepsAll' /\ DirectoryKept'
    BY <1>2, MergeKeeps DEF CacheCommits, TypeOK, MangaKeepsAll
  <2>2. SnapshotCurrent'
    BY <1>2, MergeKeeps DEF CacheCommits, SnapshotCurrent
  <2> QED BY <2>1, <2>2
<1>3. ASSUME NEW c \in Chapters, CacheFails(c) PROVE ManifestInv'
  BY <1>3, Untouched DEF CacheFails, TypeOK
<1>4. ASSUME NEW c \in Chapters, DownloadPublishes(c) PROVE ManifestInv'
  <2> {<<c, "fetched">>} \in SUBSET Facts
    BY DEF Facts
  <2>1. TypeOK' /\ MangaKeepsAll' /\ DirectoryKept'
    BY <1>4, MergeKeeps DEF DownloadPublishes, TypeOK, MangaKeepsAll
  <2>2. SnapshotCurrent'
    BY <1>4 DEF DownloadPublishes, SnapshotCurrent, TypeOK
  <2> QED BY <2>1, <2>2
<1>5. ASSUME NEW c \in Chapters, TranslationPublishes(c) PROVE ManifestInv'
  <2> DEFINE fact == {<<c, "translated">>}
  <2>1. fact \in SUBSET Facts
    BY DEF Facts
  <2>2. run' = [run EXCEPT !.left = @ \ {c}, !.base = manifest',
                           !.sources = Has(published, "fetched")]
        /\ UNCHANGED <<kind, caching, checking>> /\ run.task = "translate"
    BY <1>5 DEF TranslationPublishes
  <2>3. CASE kind = "manga"
    <3>1. Merge(fact)
      BY <1>5, <2>3 DEF TranslationPublishes
    <3>2. manifest' \subseteq Facts /\ published' \subseteq Facts
          /\ MangaKeepsAll' /\ DirectoryKept'
      BY <2>1, <2>3, <3>1, MergeKeeps DEF MangaKeepsAll
    <3>3. TypeOK'
      BY <2>2, <3>2 DEF TypeOK, Has
    <3>4. SnapshotCurrent'
      BY <2>2, <2>3 DEF SnapshotCurrent
    <3> QED BY <3>2, <3>3, <3>4
  <2>4. CASE kind = "novel"
    <3>1. Save(run.base, fact)
      BY <1>5, <2>4 DEF TranslationPublishes
    <3>2. manifest' = run.base \cup fact /\ published' = published \cup fact
      BY <3>1 DEF Save
    <3>3. run.base \subseteq Facts
      BY DEF TypeOK
    <3>4. TypeOK'
      BY <2>1, <2>2, <3>2, <3>3 DEF TypeOK, Has
    <3>5. DirectoryKept'
      BY <2>2, <2>4, <3>2 DEF DirectoryKept, SnapshotCurrent
    <3>6. SnapshotCurrent'
      <4>1. run'.base = manifest'
        BY <2>2 DEF TypeOK
      <4> QED BY <3>5, <4>1 DEF SnapshotCurrent, DirectoryKept
    <3>7. MangaKeepsAll'
      BY <2>2, <2>4 DEF MangaKeepsAll
    <3> QED BY <3>4, <3>5, <3>6, <3>7
  <2> QED BY <2>3, <2>4 DEF TypeOK
<1>6. ASSUME NEW c \in Chapters, ClientTranslation(c) PROVE ManifestInv'
  <2> {<<c, "translated">>} \in SUBSET Facts
    BY DEF Facts
  <2>1. TypeOK' /\ MangaKeepsAll' /\ DirectoryKept'
    BY <1>6, MergeKeeps DEF ClientTranslation, TypeOK, MangaKeepsAll
  <2>2. SnapshotCurrent'
    BY <1>6 DEF ClientTranslation, SnapshotCurrent
  <2> QED BY <2>1, <2>2
<1>7. CASE RunStarts
  <2>1. PICK task \in {"download", "translate"}, selected \in SUBSET Has(manifest, "listed") :
          run' = [task |-> task, left |-> selected, base |-> manifest,
                  sources |-> Has(published, "fetched")]
    BY <1>7 DEF RunStarts
  <2>2. UNCHANGED <<kind, manifest, published, caching, checking>>
    BY <1>7 DEF RunStarts
  <2>3. TypeOK'
    BY <2>1, <2>2 DEF TypeOK, Has
  <2>4. MangaKeepsAll' /\ DirectoryKept'
    BY <2>2 DEF MangaKeepsAll, DirectoryKept
  <2>5. SnapshotCurrent'
    BY <2>1, <2>2 DEF SnapshotCurrent, DirectoryKept
  <2> QED BY <2>3, <2>4, <2>5
<1>8. CASE RunEnds
  BY <1>8 DEF RunEnds, TypeOK, NoRun, MangaKeepsAll, DirectoryKept, SnapshotCurrent
<1>9. CASE CheckStarts
  BY <1>9, Untouched DEF CheckStarts, TypeOK
<1>10. CASE CheckMerges
  <2>1. PICK fresh \in SUBSET (Chapters \ Has(manifest, "listed")) : Merge(fresh \X {"listed"})
    BY <1>10 DEF CheckMerges
  <2>2. fresh \X {"listed"} \in SUBSET Facts
    BY DEF Facts, Has
  <2>3. TypeOK' /\ MangaKeepsAll' /\ DirectoryKept'
    BY <1>10, <2>1, <2>2, MergeKeeps DEF CheckMerges, TypeOK, MangaKeepsAll
  <2>4. SnapshotCurrent'
    BY <1>10 DEF CheckMerges, SnapshotCurrent, NoRun
  <2> QED BY <2>3, <2>4
<1>11. CASE CheckFails
  BY <1>11, Untouched DEF CheckFails, TypeOK
<1>12. CASE Crash
  BY <1>12 DEF Crash, TypeOK, NoRun, MangaKeepsAll, DirectoryKept, SnapshotCurrent
<1>13. CASE UNCHANGED vars
  BY <1>13, Untouched DEF vars, TypeOK
<1> QED
  BY <1>1, <1>2, <1>3, <1>4, <1>5, <1>6, <1>7, <1>8, <1>9, <1>10, <1>11, <1>12, <1>13 DEF Next

-----------------------------------------------------------------------------
\* The invariant holds in every state of every behaviour.
THEOREM ManifestInvariant == Spec => []ManifestInv
  BY ManifestInit, ManifestStep, PTL DEF Spec

\* The state of a book's manifest and of its writers has its types.
THEOREM ManifestTypes == Spec => []TypeOK
<1>1. ManifestInv => TypeOK
  BY DEF ManifestInv
<1> QED BY ManifestInvariant, <1>1, PTL

\* Whatever is published into a manga's manifest stays, whoever writes it
\* between the reading and the writing of another.
THEOREM MangaLosesNothing == Spec => []MangaKeepsAll
<1>1. ManifestInv => MangaKeepsAll
  BY DEF ManifestInv
<1> QED BY ManifestInvariant, <1>1, PTL

\* No listed chapter and no recorded translation of any book is lost.
THEOREM DirectoryIsKept == Spec => []DirectoryKept
<1>1. ManifestInv => DirectoryKept
  BY DEF ManifestInv
<1> QED BY ManifestInvariant, <1>1, PTL
=============================================================================
