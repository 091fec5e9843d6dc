--------------------------- MODULE RestoreTheorems ---------------------------
(***************************************************************************)
(* A restore is atomic and durable for any number of restores, failing     *)
(* steps and crashes, until a rollback fails half-way.                     *)
(***************************************************************************)
EXTENDS RestoreSwap, TLAPS

\* A restore that has begun and not ended in this process.
InRestore == {"prepared", "journalling", "saving", "placing", "reloading",
              "committing", "cleaning", "undoing", "returning", "retrying", "stuck"}

Live == {"open", "committed"}

NoOpen == \A n \in Restores : journal[n] # "open"

\* Which restore the process works on, and what its client knows.
PhaseFits ==
  /\ phase \in InRestore => current = restores /\ restores \in Restores
  /\ phase \in {"serving", "down", "refused"} => current = 0
  /\ phase = "recovering" /\ current # 0 => journal[current] = "open"
  /\ answer = "pending" <=> phase \in InRestore \ {"stuck"}

\* The remaining parts hold until something spoils them.

\* Only the last restore has a journal to undo, and what the process is doing
\* agrees with it.
JournalOfLast ==
  /\ \A n \in Restores :
       /\ journal[n] = "open" => n = restores
       /\ n > restores => journal[n] = "none"
       /\ journal[n] \notin Live => saved[n] = Nothing
  /\ phase \in {"prepared", "journalling", "returning", "retrying", "stuck"} =>
       journal[current] \notin Live
  /\ phase \in {"saving", "placing", "reloading", "committing"} => journal[current] = "open"
  /\ phase = "cleaning" => journal[current] = "committed"
  /\ phase = "undoing" => journal[current] # "committed"

\* Where there is nothing to undo the data directory is whole, and what users
\* see while the process lives, unless the new data is just about to be served.
WholeUnlessOpen ==
  NoOpen =>
    /\ Whole(root, root["database"])
    /\ root["database"] \in 0..restores
    /\ phase \notin {"down", "recovering", "refused", "cleaning"} => root["database"] = served

\* The new data is complete before anything starts on it; users see it while the
\* journal is open only where the commit has failed.
NewInPlace ==
  /\ phase \in {"reloading", "committing", "cleaning"} => Whole(root, restores)
  /\ phase = "serving" /\ ~NoOpen => Whole(root, restores) /\ served = restores

\* A restore is newer than what it replaces.
Ages ==
  /\ served \in 0..restores
  /\ before \in Nat
  /\ phase \in InRestore \/ ~NoOpen => before < restores
  /\ phase \in InRestore => served = before

\* How far install is.
InstallProgress ==
  /\ phase \in {"prepared", "journalling", "saving"} =>
       stage = Directory(restores, Absent, restores)
  /\ phase = "saving" =>
       /\ \A e \in Entries : root[e] # Absent => e \in present[current] /\ saved[current][e] = Absent
       /\ \E e \in present[current] : saved[current][e] = Absent
  /\ phase = "placing" =>
       /\ stage["wal"] = Absent /\ root["wal"] = Absent
       /\ \A e \in {"database", "library"} :
            \/ stage[e] = restores /\ root[e] = Absent
            \/ stage[e] = Absent /\ root[e] = restores
       /\ There(stage) # {}

\* Recoverable, entry by entry.
Restorable(e, n) ==
  IF saved[n][e] # Absent THEN saved[n][e] = before /\ e \in present[n]
  ELSE e \in present[n] => root[e] = before

RecoverableByEntry ==
  \A n \in Restores : journal[n] = "open" =>
    /\ {"database", "library"} \subseteq present[n]
    /\ \A e \in Entries : Restorable(e, n)

Sound ==
  /\ JournalOfLast
  /\ WholeUnlessOpen
  /\ NewInPlace
  /\ Ages
  /\ InstallProgress
  /\ RecoverableByEntry

RestoreInv ==
  /\ TypeOK
  /\ PhaseFits
  /\ ~spoiled => Sound
-----------------------------------------------------------------------------
\* The entry First takes is one of those offered.
LEMMA FirstMember ==
  ASSUME NEW S \in SUBSET Entries, S # {}
  PROVE  First(S) \in S
PROOF
  <1>1. \E e \in S : \A f \in S : Rank[e] <= Rank[f]
    <2>1. CASE "database" \in S
      BY <2>1 DEF Entries, Rank
    <2>2. CASE "database" \notin S /\ "wal" \in S
      BY <2>2 DEF Entries, Rank
    <2>3. CASE "database" \notin S /\ "wal" \notin S
      <3>1. S = {"library"}
        BY <2>3 DEF Entries
      <3> QED
        BY <3>1 DEF Entries, Rank
    <2> QED
      BY <2>1, <2>2, <2>3
  <1> QED
    BY <1>1 DEF First

\* A directory made of three contents has them.
LEMMA DirectoryEntries ==
  ASSUME NEW d \in Contents, NEW w \in Contents, NEW l \in Contents
  PROVE  /\ Directory(d, w, l) \in [Entries -> Contents]
         /\ Directory(d, w, l)["database"] = d
         /\ Directory(d, w, l)["wal"] = w
         /\ Directory(d, w, l)["library"] = l
PROOF
  BY DEF Directory, Entries

LEMMA NothingThere ==
  /\ Nothing \in [Entries -> Contents]
  /\ \A e \in Entries : Nothing[e] = Absent
PROOF
  BY DEF Nothing, Directory, Contents

\* Renames leave directories.
LEMMA MoveTypes ==
  ASSUME NEW from \in [Entries -> Contents], NEW to \in [Entries -> Contents], NEW e
  PROVE  Move(e, from, to) \in [Entries -> Contents] /\ Without(e, from) \in [Entries -> Contents]
PROOF
  BY DEF Move, Without, Contents

\* A start of the application on a directory leaves one.
LEMMA OpenTypes ==
  ASSUME root \in [Entries -> Contents], Open
  PROVE  root' \in [Entries -> Contents]
PROOF
  <1>1. PICK d \in Contents, w \in Contents, l \in Contents : root' = Directory(d, w, l)
    BY DEF Open, Kept, Entries, Contents
  <1> QED
    BY <1>1, DirectoryEntries

\* A start on a whole directory keeps it whole.
LEMMA OpenWhole ==
  ASSUME NEW g \in Nat, root \in [Entries -> Contents], Whole(root, g), Open
  PROVE  /\ root' \in [Entries -> Contents]
         /\ Whole(root', g)
         /\ root'["database"] = g
PROOF
  <1>1. root["database"] = g /\ root["library"] = g /\ root["wal"] \in {Absent, g} /\ g # Absent
    BY DEF Whole, Absent
  <1>2. ~(There(root) \cap {"database", "wal"} = {"database", "wal"} /\ root["wal"] # root["database"])
    BY <1>1 DEF There
  <1>3. PICK wal \in {Absent, g} : root' = Directory(g, wal, g)
    BY <1>1, <1>2 DEF Open, Kept
  <1>4. g \in Contents /\ wal \in Contents
    BY DEF Contents
  <1> QED
    BY <1>3, <1>4, DirectoryEntries DEF Whole

-----------------------------------------------------------------------------
(* Types and phases, whatever has happened. *)

LEMMA TypesStep ==
  ASSUME TypeOK, PhaseFits, [Next]_vars
  PROVE  TypeOK'
PROOF
  <1>1. /\ root \in [Entries -> Contents] /\ stage \in [Entries -> Contents]
        /\ \A n \in Restores : saved[n] \in [Entries -> Contents]
        /\ Nothing \in [Entries -> Contents]
    BY NothingThere DEF TypeOK
  <1>2. Open => root' \in [Entries -> Contents]
    BY <1>1, OpenTypes
  <1>3. phase \in InRestore => current \in Restores
    BY DEF PhaseFits
  <1>4. \A e : Without(e, root) \in [Entries -> Contents] /\ Without(e, stage) \in [Entries -> Contents]
                 /\ Move(e, stage, root) \in [Entries -> Contents]
    BY <1>1, MoveTypes
  <1>5. \A n \in Restores : \A e :
          /\ Move(e, root, saved[n]) \in [Entries -> Contents]
          /\ Move(e, saved[n], root) \in [Entries -> Contents]
          /\ Without(e, saved[n]) \in [Entries -> Contents]
    BY <1>1, MoveTypes
  <1>6. CASE Use
    BY <1>6, <1>2 DEF Use, TypeOK, bounds, history
  <1>7. CASE BeginRestore
    <2>1. restores' \in Restores
      BY <1>7, RestoreAssumption DEF BeginRestore, TypeOK, Restores
    <2>2. stage' \in [Entries -> Contents]
      <3>1. restores' \in Contents /\ Absent \in Contents
        BY <2>1 DEF Restores, Contents
      <3>2. stage' = Directory(restores', Absent, restores')
        BY <1>7 DEF BeginRestore
      <3> QED
        BY <3>1, <3>2, DirectoryEntries
    <2>3. root' \in [Entries -> Contents]
      BY <1>7, <1>1, <1>4 DEF BeginRestore
    <2> QED
      BY <1>7, <2>1, <2>2, <2>3 DEF BeginRestore, TypeOK, Phases, Restores
  <1>8. CASE OpenJournal
    BY <1>8, <1>3 DEF OpenJournal, TypeOK, Phases, Journals, InRestore, bounds, history
  <1>9. CASE WriteJournal
    BY <1>9, <1>3 DEF WriteJournal, TypeOK, Phases, Journals, InRestore, There, bounds, history
  <1>10. CASE SaveEntry
    <2>1. phase' \in Phases
      BY <1>10 DEF SaveEntry, Phases
    <2>2. current \in Restores
      BY <1>10, <1>3 DEF SaveEntry, InRestore
    <2>3. root' \in [Entries -> Contents] /\ saved' \in [Restores -> [Entries -> Contents]]
      BY <1>10, <1>4, <1>5, <2>2 DEF SaveEntry, TypeOK
    <2> QED
      BY <1>10, <2>1, <2>2, <2>3 DEF SaveEntry, TypeOK, bounds, history
  <1>11. CASE PlaceEntry
    <2>1. phase' \in Phases
      BY <1>11 DEF PlaceEntry, Phases
    <2> QED
      BY <1>11, <1>4, <2>1 DEF PlaceEntry, TypeOK, bounds, history
  <1>12. CASE Reload
    BY <1>12, <1>2 DEF Reload, TypeOK, Phases, bounds, history
  <1>13. CASE Commit
    BY <1>13, <1>3 DEF Commit, TypeOK, Phases, Journals, InRestore, bounds, history
  <1>14. CASE Clean \/ CleanFails
    <2>1. current \in Restores
      BY <1>14, <1>3 DEF Clean, CleanFails, InRestore
    <2>2. journal' \in [Restores -> Journals] /\ saved' \in [Restores -> [Entries -> Contents]]
      BY <1>14, <1>1, <2>1 DEF Clean, CleanFails, Remove, TypeOK, Journals
    <2>3. served' \in Contents
      BY <1>14, <1>1 DEF Clean, CleanFails, Serve, Entries
    <2>4. faults' \in 0..MaxFaults
      BY <1>14, RestoreAssumption DEF Clean, CleanFails, Fails, TypeOK, bounds
    <2> QED
      BY <1>14, <2>2, <2>3, <2>4 DEF Clean, CleanFails, Remove, Serve, TypeOK, Phases, bounds, history
  <1>15. CASE CommitFails
    <2>1. served' \in Contents
      BY <1>15, <1>1 DEF CommitFails, Serve, files, Entries
    <2> QED
      BY <1>15, <2>1, RestoreAssumption DEF CommitFails, Serve, Fails, TypeOK, Phases, files, history
  <1>16. CASE UndoEntry
    <2>1. current \in Restores
      BY <1>16 DEF UndoEntry, Undoing, TypeOK
    <2>2. root' \in [Entries -> Contents] /\ saved' \in [Restores -> [Entries -> Contents]]
      BY <1>16, <1>4, <1>5, <2>1 DEF UndoEntry, TypeOK
    <2>3. aside' \in [Restores -> BOOLEAN]
      BY <1>16, <2>1 DEF UndoEntry, TypeOK
    <2> QED
      BY <1>16, <2>2, <2>3 DEF UndoEntry, TypeOK, bounds, history
  <1>17. CASE UndoDone
    <2>1. current \in Restores
      BY <1>17 DEF UndoDone, Undoing, TypeOK
    <2> QED
      BY <1>17, <1>1, <2>1 DEF UndoDone, TypeOK, Phases, Journals, bounds, history
  <1>18. CASE UndoBlocked \/ NothingUndone \/ Boot
    BY <1>18 DEF UndoBlocked, NothingUndone, Boot, TypeOK, Phases, files, bounds, history
  <1>19. CASE Return \/ ReturnFails
    <2>1. root' \in [Entries -> Contents]
      BY <1>19, <1>1, <1>2 DEF Return, ReturnFails
    <2>2. served' \in Contents
      BY <1>19, <2>1 DEF Return, ReturnFails, Serve, TypeOK, Entries
    <2>3. stage' \in [Entries -> Contents]
      BY <1>19, <1>1 DEF Return, ReturnFails
    <2>4. phase' \in Phases /\ current' \in Restores \cup {0}
      BY <1>19 DEF Return, ReturnFails, Serve, TypeOK, Phases
    <2>5. answer' \in {"none", "pending", "done", "failed"} /\ faults' \in 0..MaxFaults
      BY <1>19, RestoreAssumption DEF Return, ReturnFails, Serve, Fails, TypeOK, bounds
    <2> QED
      BY <1>19, <2>1, <2>2, <2>3, <2>4, <2>5 DEF Return, ReturnFails, TypeOK, bounds, history
  <1>20. CASE InstallFails \/ UndoFails
    <2>1. phase' \in Phases
      BY <1>20 DEF InstallFails, UndoFails, Phases
    <2>2. faults' \in 0..MaxFaults
      BY <1>20, RestoreAssumption DEF InstallFails, UndoFails, Fails, TypeOK
    <2>3. before' \in Contents /\ spoiled' \in BOOLEAN
      BY <1>20 DEF InstallFails, UndoFails, TypeOK, history
    <2> QED
      BY <1>20, <2>1, <2>2, <2>3 DEF InstallFails, UndoFails, TypeOK, files
  <1>21. CASE ReloadFails \/ StartFails
    <2>1. root' \in [Entries -> Contents]
      BY <1>21, <1>1, <1>2 DEF ReloadFails, StartFails
    <2>2. phase' \in Phases /\ current' \in Restores \cup {0}
            /\ answer' \in {"none", "pending", "done", "failed"}
      BY <1>21 DEF ReloadFails, StartFails, Die, TypeOK, Phases
    <2> QED
      BY <1>21, <2>1, <2>2, RestoreAssumption DEF ReloadFails, StartFails, Fails, TypeOK, history
  <1>22. CASE Start
    <2>1. served' \in Contents
      BY <1>22, <1>2 DEF Start, Serve, Entries
    <2> QED
      BY <1>22, <1>2, <2>1 DEF Start, Serve, TypeOK, Phases, bounds, history
  <1>23. ASSUME NEW n \in Restores, Recover(n)
         PROVE  TypeOK'
    <2>1. journal' \in [Restores -> Journals] /\ saved' \in [Restores -> [Entries -> Contents]]
      BY <1>23, <1>1 DEF Recover, Remove, TypeOK, Journals, files
    <2> QED
      BY <1>23, <2>1 DEF Recover, Remove, TypeOK, Phases, files, bounds, history
  <1>24. CASE Crash \/ Restart
    BY <1>24, RestoreAssumption DEF Crash, Restart, Die, TypeOK, Phases, files, bounds, history
  <1>25. CASE UNCHANGED vars
    BY <1>25 DEF TypeOK, vars, files, bounds, history
  <1> QED
    BY <1>6, <1>7, <1>8, <1>9, <1>10, <1>11, <1>12, <1>13, <1>14, <1>15, <1>16, <1>17, <1>18,
       <1>19, <1>20, <1>21, <1>22, <1>23, <1>24, <1>25
    DEF Next, Install, Rollback, Failure, StartUp

LEMMA PhaseFitsStep ==
  ASSUME TypeOK, PhaseFits, [Next]_vars
  PROVE  PhaseFits'
PROOF
  <1> USE DEF PhaseFits, InRestore
  <1>1. CASE Use
    BY <1>1 DEF Use, bounds
  <1>2. CASE Install
    <2>1. CASE BeginRestore
      <3>1. restores' \in Restores
        BY <2>1, RestoreAssumption DEF BeginRestore, TypeOK, Restores
      <3> QED
        BY <2>1, <3>1 DEF BeginRestore
    <2>2. CASE OpenJournal \/ WriteJournal
      BY <2>2 DEF OpenJournal, WriteJournal, bounds
    <2>3. CASE SaveEntry \/ PlaceEntry
      BY <2>3 DEF SaveEntry, PlaceEntry, bounds
    <2> QED
      BY <1>2, <2>1, <2>2, <2>3 DEF Install
  <1>3. CASE Reload \/ Commit
    BY <1>3 DEF Reload, Commit, bounds
  <1>4. CASE Clean \/ CleanFails \/ CommitFails
    BY <1>4 DEF Clean, CleanFails, CommitFails, Serve
  <1>5. CASE UndoEntry
    BY <1>5 DEF UndoEntry, Undoing, bounds
  <1>6. CASE UndoBlocked \/ UndoDone \/ NothingUndone
    BY <1>6 DEF UndoBlocked, UndoDone, NothingUndone, Undoing, files, bounds
  <1>7. CASE Return \/ ReturnFails
    BY <1>7 DEF Return, ReturnFails, Serve, bounds
  <1>8. CASE InstallFails \/ ReloadFails \/ UndoFails
    BY <1>8 DEF InstallFails, ReloadFails, UndoFails, files
  <1>9. CASE StartFails \/ Crash \/ Restart
    BY <1>9 DEF StartFails, Crash, Restart, Die, bounds, TypeOK
  <1>10. CASE Boot
    BY <1>10 DEF Boot, bounds
  <1>11. CASE Start
    BY <1>11 DEF Start, Serve, bounds
  <1>12. ASSUME NEW n \in Restores, Recover(n)
         PROVE  PhaseFits'
    BY <1>12 DEF Recover, Remove, files, bounds
  <1>13. CASE UNCHANGED vars
    BY <1>13 DEF vars, files, bounds
  <1> QED
    BY <1>1, <1>2, <1>3, <1>4, <1>5, <1>6, <1>7, <1>8, <1>9, <1>10, <1>11, <1>12, <1>13
    DEF Next, Rollback, Failure, StartUp

-----------------------------------------------------------------------------
(* What Sound says of a state. *)

LEMMA OpenFacts ==
  ASSUME TypeOK, Sound, NEW n \in Restores, journal[n] = "open"
  PROVE  /\ n = restores /\ restores \in Nat /\ before \in Nat /\ before < restores /\ ~NoOpen
         /\ \A m \in Restores : m # n => journal[m] # "open"
         /\ present[n] \subseteq Entries
         /\ "database" \in present[n] /\ "library" \in present[n]
         /\ \A e \in Entries : Restorable(e, n)
PROOF
  BY DEF Sound, JournalOfLast, Ages, RecoverableByEntry, NoOpen, TypeOK

\* Once the new entries are in place, every old one is in the rollback directory.
LEMMA AllSaved ==
  ASSUME TypeOK, Sound, Whole(root, restores), NEW n \in Restores, journal[n] = "open"
  PROVE  \A e \in present[n] : saved[n][e] # Absent
PROOF
  <1>1. before # restores /\ before # Absent
    BY OpenFacts DEF Absent
  <1>2. \A e \in Entries : root[e] # before
    BY <1>1 DEF Whole, Entries
  <1> QED
    BY <1>2, OpenFacts DEF Restorable

\* In these phases there is nothing to undo, and users see what is there.
LEMMA ClosedFacts ==
  ASSUME TypeOK, PhaseFits, Sound,
         phase \in {"prepared", "journalling", "returning", "retrying", "stuck"}
  PROVE  /\ current = restores /\ restores \in Restores /\ current \in Restores
         /\ journal[current] \notin Live /\ NoOpen
         /\ Whole(root, served) /\ root["database"] = served
         /\ served \in Nat /\ served = before /\ before < restores
PROOF
  <1>1. /\ current = restores /\ restores \in Restores /\ current \in Restores
        /\ journal[current] \notin Live
    BY DEF PhaseFits, InRestore, Sound, JournalOfLast
  <1>2. NoOpen
    BY <1>1 DEF Sound, JournalOfLast, NoOpen, Live
  <1> QED
    BY <1>1, <1>2 DEF Sound, WholeUnlessOpen, Ages, InRestore, TypeOK

\* A restore whose journal is open, before its commit.
LEMMA SwapFacts ==
  ASSUME TypeOK, PhaseFits, Sound, phase \in {"saving", "placing", "reloading", "committing"}
  PROVE  /\ current \in Restores /\ current = restores /\ journal[current] = "open"
         /\ ~NoOpen /\ served = before
PROOF
  BY DEF PhaseFits, InRestore, Sound, JournalOfLast, NoOpen, Ages

LEMMA RestoreInit == Init => RestoreInv
PROOF
  <1> SUFFICES ASSUME Init PROVE RestoreInv
    OBVIOUS
  <1>1. /\ root \in [Entries -> Contents]
        /\ root["database"] = 0 /\ root["wal"] = 0 /\ root["library"] = 0
    BY DirectoryEntries DEF Init, Contents
  <1>2. TypeOK
    <2>1. saved \in [Restores -> [Entries -> Contents]] /\ stage \in [Entries -> Contents]
      BY NothingThere DEF Init
    <2>2. /\ journal \in [Restores -> Journals] /\ present \in [Restores -> SUBSET Entries]
          /\ aside \in [Restores -> BOOLEAN]
      BY DEF Init, Journals
    <2>3. served \in Contents /\ before \in Contents /\ phase \in Phases
      BY DEF Init, Contents, Phases
    <2>4. /\ current \in Restores \cup {0} /\ answer \in {"none", "pending", "done", "failed"}
          /\ spoiled \in BOOLEAN
      BY DEF Init
    <2>5. restores \in 0..MaxRestores /\ faults \in 0..MaxFaults /\ crashes \in 0..MaxCrashes
      BY RestoreAssumption DEF Init
    <2> QED
      BY <1>1, <2>1, <2>2, <2>3, <2>4, <2>5 DEF TypeOK
  <1>3. PhaseFits
    BY DEF PhaseFits, Init, InRestore
  <1>4. JournalOfLast /\ NoOpen
    BY DEF JournalOfLast, NoOpen, Live, Init
  <1>5. WholeUnlessOpen /\ NewInPlace /\ Ages
    BY <1>1, <1>4, RestoreAssumption DEF WholeUnlessOpen, NewInPlace, Ages, Whole, Init, InRestore
  <1>6. InstallProgress /\ RecoverableByEntry
    BY <1>4 DEF InstallProgress, RecoverableByEntry, NoOpen, Init
  <1> QED
    BY <1>2, <1>3, <1>4, <1>5, <1>6 DEF RestoreInv, Sound

-----------------------------------------------------------------------------
(* Sound is preserved, action by action. *)

\* While nothing is to be undone, and also on the new data of a failed commit.
LEMMA UseKeeps ==
  ASSUME TypeOK, PhaseFits, Sound, Use
  PROVE  Sound'
PROOF
  <1> USE DEF Sound
  <1>1. phase = "serving" /\ UNCHANGED <<stage, saved, journal, present, phase, current, served, restores, before>>
    BY DEF Use, bounds, history
  <1>2. PICK g \in Nat : Whole(root, g) /\ g = served
    BY <1>1 DEF WholeUnlessOpen, NewInPlace, Ages
  <1>3. Whole(root', g) /\ root'["database"] = g
    BY <1>2, OpenWhole DEF Use, TypeOK
  <1>4. JournalOfLast' /\ Ages' /\ InstallProgress' /\ NoOpen' = NoOpen
    BY <1>1 DEF JournalOfLast, Ages, InstallProgress, NoOpen
  <1>5. WholeUnlessOpen' /\ NewInPlace'
    BY <1>1, <1>2, <1>3, <1>4 DEF WholeUnlessOpen, NewInPlace, Ages, Whole
  <1>6. RecoverableByEntry'
    <2> SUFFICES ASSUME NEW n \in Restores, journal[n] = "open"
                 PROVE  /\ {"database", "library"} \subseteq present[n]
                        /\ \A e \in Entries : Restorable(e, n)'
      BY <1>1 DEF RecoverableByEntry
    <2>1. Whole(root, restores)
      BY <1>1, OpenFacts DEF NewInPlace
    <2> QED
      BY <1>1, <2>1, OpenFacts, AllSaved DEF Restorable
  <1> QED
    BY <1>4, <1>5, <1>6

LEMMA BeginKeeps ==
  ASSUME TypeOK, PhaseFits, Sound, TypeOK', BeginRestore, ~spoiled'
  PROVE  Sound'
PROOF
  <1> USE DEF Sound
  <1>1. NoOpen /\ NoOpen'
    BY DEF BeginRestore, NoOpen
  <1>2. /\ Whole(root, served) /\ root["database"] = served /\ served \in 0..restores
        /\ restores' = restores + 1 /\ restores' \in Restores /\ restores \in Nat
    BY <1>1, RestoreAssumption DEF BeginRestore, WholeUnlessOpen, Ages, TypeOK, Restores
  <1>3. Whole(root', served) /\ root'["database"] = served
    BY <1>2 DEF BeginRestore, Without, Whole, TypeOK, Entries
  <1>4. JournalOfLast'
    BY <1>1, <1>2 DEF JournalOfLast, BeginRestore, NoOpen, Live, Restores
  <1>5. WholeUnlessOpen' /\ NewInPlace' /\ Ages'
    BY <1>1, <1>2, <1>3 DEF WholeUnlessOpen, NewInPlace, Ages, BeginRestore, Whole
  <1>6. InstallProgress' /\ RecoverableByEntry'
    BY <1>1 DEF InstallProgress, RecoverableByEntry, BeginRestore, NoOpen
  <1> QED
    BY <1>4, <1>5, <1>6

LEMMA OpenJournalKeeps ==
  ASSUME TypeOK, PhaseFits, Sound, OpenJournal
  PROVE  Sound'
PROOF
  <1> USE DEF Sound, OpenJournal, bounds, history
  <1>1. /\ current = restores /\ current \in Restores /\ journal[current] \notin Live /\ NoOpen
        /\ \A n \in Restores : n # current => journal'[n] = journal[n]
        /\ journal'[current] = "partial"
    BY ClosedFacts DEF TypeOK
  <1>2. NoOpen'
    BY <1>1 DEF NoOpen
  <1>3. JournalOfLast'
    BY <1>1 DEF JournalOfLast, NoOpen, Live, Restores
  <1>4. WholeUnlessOpen' /\ NewInPlace' /\ Ages'
    BY <1>1, <1>2 DEF WholeUnlessOpen, NewInPlace, Ages, InRestore, Whole
  <1>5. InstallProgress' /\ RecoverableByEntry'
    BY <1>2 DEF InstallProgress, RecoverableByEntry, NoOpen
  <1> QED
    BY <1>3, <1>4, <1>5

LEMMA WriteJournalKeeps ==
  ASSUME TypeOK, PhaseFits, Sound, WriteJournal
  PROVE  Sound'
PROOF
  <1> USE DEF Sound, WriteJournal, bounds, history
  <1>1. /\ current = restores /\ current \in Restores /\ journal[current] \notin Live /\ NoOpen
        /\ Whole(root, before) /\ before \in Nat /\ before < restores /\ served = before
        /\ saved[current] = Nothing
    BY ClosedFacts DEF JournalOfLast
  <1>2. /\ journal'[current] = "open" /\ present'[current] = There(root)
        /\ saved'[current] = Nothing
        /\ \A n \in Restores : n # current => journal'[n] = journal[n]
    BY <1>1 DEF TypeOK
  <1>3. JournalOfLast' /\ ~NoOpen'
    BY <1>1, <1>2 DEF JournalOfLast, NoOpen, Live, Restores
  <1>4. WholeUnlessOpen' /\ NewInPlace' /\ Ages'
    BY <1>1, <1>3 DEF WholeUnlessOpen, NewInPlace, Ages, InRestore
  <1>5. /\ {"database", "library"} \subseteq There(root)
        /\ There(root) \subseteq Entries
        /\ \A e \in Entries : e \in There(root) => root[e] = before
    BY <1>1 DEF There, Whole, Entries, Absent
  <1>6. RecoverableByEntry'
    <2> SUFFICES ASSUME NEW n \in Restores, journal'[n] = "open"
                 PROVE  /\ {"database", "library"} \subseteq present'[n]
                        /\ \A e \in Entries : Restorable(e, n)'
      BY DEF RecoverableByEntry
    <2>1. n = current
      BY <1>1, <1>2 DEF NoOpen
    <2> QED
      BY <1>2, <1>5, <2>1, NothingThere DEF Restorable
  <1>7. InstallProgress'
    <2>1. \A e \in Entries : root[e] # Absent => e \in There(root)
      BY DEF There
    <2>2. "database" \in There(root) /\ "database" \in Entries
      BY <1>5 DEF Entries
    <2> QED
      BY <1>2, <2>1, <2>2, NothingThere DEF InstallProgress
  <1> QED
    BY <1>3, <1>4, <1>6, <1>7

LEMMA SaveEntryKeeps ==
  ASSUME TypeOK, PhaseFits, Sound, SaveEntry
  PROVE  Sound'
PROOF
  <1> USE DEF Sound, bounds, history
  <1>1. /\ phase = "saving" /\ current \in Restores /\ current = restores
        /\ journal[current] = "open" /\ ~NoOpen /\ served = before
    BY SwapFacts DEF SaveEntry
  <1> DEFINE left == {f \in present[current] : saved[current][f] = Absent}
  <1>2. left \in SUBSET Entries /\ left # {}
    BY <1>1 DEF InstallProgress, TypeOK
  <1>3. PICK e \in left :
          /\ saved' = [saved EXCEPT ![current] = [saved[current] EXCEPT ![e] = root[e]]]
          /\ root' = [root EXCEPT ![e] = Absent]
          /\ phase' = IF left = {e} THEN "placing" ELSE "saving"
          /\ UNCHANGED <<stage, journal, present, current, served, restores, before>>
    BY <1>2, FirstMember DEF SaveEntry, Move, Without
  <1>4. /\ e \in Entries /\ e \in present[current] /\ saved[current][e] = Absent
        /\ root[e] = before
    BY <1>1, <1>2, <1>3, OpenFacts DEF Restorable
  <1>5. JournalOfLast' /\ ~NoOpen'
    BY <1>1, <1>3 DEF JournalOfLast, NoOpen, Live, TypeOK
  <1>6. WholeUnlessOpen' /\ NewInPlace' /\ Ages'
    BY <1>1, <1>3, <1>5 DEF WholeUnlessOpen, NewInPlace, Ages, InRestore
  <1>7. \A f \in Entries :
          /\ f # e => root'[f] = root[f] /\ saved'[current][f] = saved[current][f]
          /\ root'[e] = Absent /\ saved'[current][e] = before
    BY <1>1, <1>3, <1>4 DEF TypeOK
  <1>8. RecoverableByEntry'
    <2> SUFFICES ASSUME NEW n \in Restores, journal'[n] = "open"
                 PROVE  /\ {"database", "library"} \subseteq present'[n]
                        /\ \A f \in Entries : Restorable(f, n)'
      BY DEF RecoverableByEntry
    <2>1. n = current /\ before # Absent
      BY <1>1, <1>3, OpenFacts DEF Absent
    <2> QED
      BY <1>1, <1>3, <1>4, <1>7, <2>1, OpenFacts DEF Restorable
  <1>9. InstallProgress'
    <2>1. \A f \in Entries : root'[f] # Absent =>
            f # e /\ f \in present[current] /\ saved'[current][f] = Absent
      BY <1>1, <1>7 DEF InstallProgress
    <2>2. CASE left = {e}
      <3>1. \A f \in Entries : root'[f] = Absent
        BY <1>1, <1>7, <2>1, <2>2 DEF InstallProgress
      <3>2. restores \in Contents /\ Absent \in Contents
        BY <1>1 DEF Contents, Restores
      <3>3. stage' = Directory(restores, Absent, restores)
        BY <1>1, <1>3 DEF InstallProgress
      <3>4. stage'["database"] = restores /\ stage'["wal"] = Absent /\ stage'["library"] = restores
        BY <3>2, <3>3, DirectoryEntries
      <3>5. "database" \in There(stage')
        BY <1>1, <3>4 DEF There, Entries, Restores, Absent
      <3> QED
        BY <1>3, <2>2, <3>1, <3>4, <3>5 DEF InstallProgress, Entries
    <2>3. CASE left # {e}
      <3>1. PICK f \in left : f # e
        BY <1>3, <2>3
      <3>2. f \in present[current] /\ saved'[current][f] = Absent
        BY <1>2, <1>7, <3>1
      <3> QED
        BY <1>1, <1>3, <2>1, <2>3, <3>2 DEF InstallProgress
    <2> QED
      BY <2>2, <2>3
  <1> QED
    BY <1>5, <1>6, <1>8, <1>9

LEMMA PlaceEntryKeeps ==
  ASSUME TypeOK, PhaseFits, Sound, PlaceEntry
  PROVE  Sound'
PROOF
  <1> USE DEF Sound, bounds, history
  <1>1. /\ phase = "placing" /\ current \in Restores /\ current = restores
        /\ journal[current] = "open" /\ ~NoOpen /\ served = before
    BY SwapFacts DEF PlaceEntry
  <1>2. There(stage) \in SUBSET Entries /\ There(stage) # {}
    BY <1>1 DEF InstallProgress, There
  <1>3. PICK e \in There(stage) :
          /\ root' = [root EXCEPT ![e] = stage[e]]
          /\ stage' = [stage EXCEPT ![e] = Absent]
          /\ phase' = IF There(stage) = {e} THEN "reloading" ELSE "placing"
          /\ UNCHANGED <<saved, journal, present, current, served, restores, before>>
    BY <1>2, FirstMember DEF PlaceEntry, Move, Without
  <1>4. /\ e \in {"database", "library"} /\ e \in Entries
        /\ stage[e] = restores /\ root[e] = Absent
    BY <1>1, <1>3 DEF InstallProgress, There, Entries
  <1>5. JournalOfLast' /\ ~NoOpen'
    BY <1>1, <1>3 DEF JournalOfLast, NoOpen, Live
  <1>6. /\ \A f \in Entries : f # e => root'[f] = root[f] /\ stage'[f] = stage[f]
        /\ root'[e] = restores /\ stage'[e] = Absent
    BY <1>3, <1>4 DEF TypeOK
  <1>7. RecoverableByEntry'
    <2> SUFFICES ASSUME NEW n \in Restores, journal'[n] = "open"
                 PROVE  /\ {"database", "library"} \subseteq present'[n]
                        /\ \A f \in Entries : Restorable(f, n)'
      BY DEF RecoverableByEntry
    <2>1. n = current /\ before # Absent
      BY <1>1, <1>3, OpenFacts DEF Absent
    <2>2. e \in present[n] => saved[n][e] # Absent
      BY <1>1, <1>4, <2>1, OpenFacts DEF Restorable
    <2> QED
      BY <1>1, <1>3, <1>6, <2>1, <2>2, OpenFacts DEF Restorable
  <1>8. \A f \in {"database", "library"} :
          \/ stage'[f] = restores /\ root'[f] = Absent
          \/ stage'[f] = Absent /\ root'[f] = restores
    BY <1>1, <1>4, <1>6 DEF InstallProgress, Entries
  <1>9. stage'["wal"] = Absent /\ root'["wal"] = Absent
    BY <1>1, <1>4, <1>6 DEF InstallProgress, Entries
  <1>10. CASE There(stage) = {e}
    <2>1. \A f \in {"database", "library"} : stage'[f] = Absent
      BY <1>6, <1>10 DEF There, Entries
    <2>2. restores # Absent
      BY <1>1 DEF Restores, Absent
    <2>3. Whole(root', restores)
      BY <1>8, <1>9, <2>1, <2>2 DEF Whole
    <2>4. InstallProgress' /\ NewInPlace' /\ WholeUnlessOpen' /\ Ages'
      BY <1>1, <1>3, <1>5, <1>10, <2>3
      DEF InstallProgress, NewInPlace, WholeUnlessOpen, Ages, InRestore, Whole
    <2> QED
      BY <1>5, <1>7, <2>4
  <1>11. CASE There(stage) # {e}
    <2>1. PICK f \in There(stage) : f # e
      BY <1>3, <1>11
    <2>2. f \in There(stage')
      BY <1>6, <2>1 DEF There
    <2>3. InstallProgress'
      BY <1>3, <1>8, <1>9, <1>11, <2>2 DEF InstallProgress, There
    <2>4. NewInPlace' /\ WholeUnlessOpen' /\ Ages'
      BY <1>1, <1>3, <1>5, <1>11 DEF NewInPlace, WholeUnlessOpen, Ages, InRestore
    <2> QED
      BY <1>5, <1>7, <2>3, <2>4
  <1> QED
    BY <1>10, <1>11

\* A start on the new entries, whether it succeeds or fails.
LEMMA ReloadKeeps ==
  ASSUME TypeOK, PhaseFits, Sound, Reload \/ ReloadFails
  PROVE  Sound'
PROOF
  <1> USE DEF Sound
  <1>1. phase = "reloading" /\ Whole(root, restores)
    BY DEF Reload, ReloadFails, NewInPlace
  <1>2. /\ current \in Restores /\ current = restores /\ journal[current] = "open"
        /\ ~NoOpen /\ served = before
        /\ \A e \in present[current] : saved[current][e] # Absent
    BY <1>1, SwapFacts, AllSaved
  <1>3. restores \in Nat
    BY <1>2 DEF Restores
  <1>4. Whole(root', restores)
    BY <1>1, <1>3, OpenWhole DEF Reload, ReloadFails, TypeOK, Whole
  <1>5. /\ UNCHANGED <<stage, saved, journal, present, current, served, restores, before>>
        /\ phase' \in {"committing", "undoing"}
    BY DEF Reload, ReloadFails, bounds, history
  <1>6. JournalOfLast' /\ ~NoOpen'
    BY <1>1, <1>2, <1>5 DEF JournalOfLast, NoOpen, Live
  <1>7. WholeUnlessOpen' /\ NewInPlace' /\ Ages' /\ InstallProgress'
    BY <1>1, <1>2, <1>4, <1>5, <1>6
    DEF WholeUnlessOpen, NewInPlace, Ages, InstallProgress, InRestore, Whole
  <1>8. RecoverableByEntry'
    <2> SUFFICES ASSUME NEW n \in Restores, journal'[n] = "open"
                 PROVE  /\ {"database", "library"} \subseteq present'[n]
                        /\ \A f \in Entries : Restorable(f, n)'
      BY DEF RecoverableByEntry
    <2>1. n = current
      BY <1>2, <1>5, OpenFacts
    <2> QED
      BY <1>2, <1>5, <2>1, OpenFacts DEF Restorable
  <1> QED
    BY <1>6, <1>7, <1>8

LEMMA CommitKeeps ==
  ASSUME TypeOK, PhaseFits, Sound, Commit
  PROVE  Sound' /\ NoOpen'
PROOF
  <1> USE DEF Sound, Commit, bounds, history
  <1>1. /\ current \in Restores /\ current = restores /\ journal[current] = "open"
        /\ served = before /\ Whole(root, restores) /\ restores \in Nat
    BY SwapFacts, OpenFacts DEF NewInPlace
  <1>2. /\ journal'[current] = "committed"
        /\ \A n \in Restores : n # current => journal'[n] = journal[n] /\ journal[n] # "open"
    BY <1>1, OpenFacts DEF TypeOK
  <1>3. NoOpen'
    BY <1>2 DEF NoOpen
  <1>4. JournalOfLast'
    BY <1>1, <1>2 DEF JournalOfLast, Live
  <1>5. WholeUnlessOpen' /\ NewInPlace' /\ Ages'
    BY <1>1, <1>3, OpenFacts DEF WholeUnlessOpen, NewInPlace, Ages, InRestore, Whole
  <1>6. InstallProgress' /\ RecoverableByEntry'
    BY <1>3 DEF InstallProgress, RecoverableByEntry, NoOpen
  <1> QED
    BY <1>3, <1>4, <1>5, <1>6

\* The gate opens on the new data with the journal still open.
LEMMA CommitFailsKeeps ==
  ASSUME TypeOK, PhaseFits, Sound, CommitFails
  PROVE  Sound'
PROOF
  <1> USE DEF Sound, CommitFails, Serve, files, history
  <1>1. /\ current \in Restores /\ current = restores /\ journal[current] = "open"
        /\ ~NoOpen /\ Whole(root, restores) /\ before < restores /\ restores \in Nat
    BY SwapFacts, OpenFacts DEF NewInPlace
  <1>2. phase' = "serving" /\ served' = restores
    BY <1>1 DEF Whole
  <1>3. JournalOfLast' /\ ~NoOpen'
    BY <1>1, <1>2 DEF JournalOfLast, NoOpen
  <1>4. WholeUnlessOpen' /\ NewInPlace' /\ Ages' /\ InstallProgress'
    BY <1>1, <1>2, <1>3 DEF WholeUnlessOpen, NewInPlace, Ages, InstallProgress, InRestore, Whole
  <1>5. RecoverableByEntry'
    BY DEF RecoverableByEntry, Restorable
  <1> QED
    BY <1>3, <1>4, <1>5

LEMMA CleanKeeps ==
  ASSUME TypeOK, PhaseFits, Sound, Clean \/ CleanFails
  PROVE  Sound'
PROOF
  <1> USE DEF Sound
  <1>1. /\ current \in Restores /\ current = restores /\ journal[current] = "committed"
        /\ Whole(root, restores) /\ restores \in Nat /\ NoOpen
    BY DEF Clean, CleanFails, PhaseFits, InRestore, JournalOfLast, NewInPlace, NoOpen, Restores
  <1>2. /\ UNCHANGED <<root, stage, present, restores, before>>
        /\ phase' = "serving" /\ served' = restores
    BY <1>1 DEF Clean, CleanFails, Remove, Serve, Whole, bounds, history
  <1>3. /\ \/ journal'[current] = "none" /\ saved'[current] = Nothing
           \/ journal'[current] = "committed"
        /\ \A n \in Restores : n # current => journal'[n] = journal[n] /\ saved'[n] = saved[n]
    BY <1>1 DEF Clean, CleanFails, Remove, TypeOK
  <1>4. JournalOfLast' /\ NoOpen'
    BY <1>1, <1>2, <1>3 DEF JournalOfLast, NoOpen, Live, Restores
  <1>5. WholeUnlessOpen' /\ NewInPlace' /\ Ages'
    BY <1>1, <1>2, <1>4 DEF WholeUnlessOpen, NewInPlace, Ages, InRestore, Whole
  <1>6. InstallProgress' /\ RecoverableByEntry'
    BY <1>2, <1>4 DEF InstallProgress, RecoverableByEntry, NoOpen
  <1> QED
    BY <1>4, <1>5, <1>6

LEMMA UndoEntryKeeps ==
  ASSUME TypeOK, PhaseFits, Sound, UndoEntry
  PROVE  Sound'
PROOF
  <1> USE DEF Sound, bounds, history
  <1>1. /\ phase \in {"undoing", "recovering"} /\ current # 0
        /\ current \in Restores /\ current = restores /\ journal[current] = "open" /\ ~NoOpen
    BY DEF UndoEntry, Undoing, TypeOK, JournalOfLast, NoOpen
  <1>2. ToUndo(current) \in SUBSET Entries /\ ToUndo(current) # {}
    BY DEF UndoEntry, ToUndo, There
  <1>3. PICK e \in ToUndo(current) :
          /\ \/ /\ root[e] # Absent
                /\ root' = [root EXCEPT ![e] = Absent]
                /\ saved' = saved
             \/ /\ root[e] = Absent
                /\ root' = [root EXCEPT ![e] = saved[current][e]]
                /\ saved' = [saved EXCEPT ![current] = [saved[current] EXCEPT ![e] = Absent]]
          /\ UNCHANGED <<stage, journal, present, phase, current, served, restores, before>>
    BY <1>2, FirstMember DEF UndoEntry, Move, Without
  <1>4. /\ e \in Entries
        /\ saved[current][e] # Absent => saved[current][e] = before /\ e \in present[current]
        /\ saved[current][e] = Absent => root[e] # Absent /\ e \notin present[current]
    BY <1>1, <1>2, <1>3, OpenFacts DEF ToUndo, There, Restorable
  <1>5. JournalOfLast' /\ ~NoOpen'
    BY <1>1, <1>3 DEF JournalOfLast, NoOpen, Live, TypeOK
  <1>6. WholeUnlessOpen' /\ NewInPlace' /\ Ages' /\ InstallProgress'
    BY <1>1, <1>3, <1>5 DEF WholeUnlessOpen, NewInPlace, Ages, InstallProgress, InRestore
  <1>7. RecoverableByEntry'
    <2> SUFFICES ASSUME NEW n \in Restores, journal'[n] = "open"
                 PROVE  /\ {"database", "library"} \subseteq present'[n]
                        /\ \A f \in Entries : Restorable(f, n)'
      BY DEF RecoverableByEntry
    <2>1. n = current
      BY <1>1, <1>3, OpenFacts
    <2>2. \A f \in Entries : f # e => root'[f] = root[f] /\ saved'[n][f] = saved[n][f]
      BY <1>1, <1>3, <1>4, <2>1 DEF TypeOK
    <2>3. CASE root[e] # Absent
      <3>1. root'[e] = Absent /\ saved'[n][e] = saved[n][e]
        BY <1>3, <1>4, <2>3 DEF TypeOK
      <3> QED
        BY <1>1, <1>3, <1>4, <2>1, <2>2, <3>1, OpenFacts DEF Restorable
    <2>4. CASE root[e] = Absent
      <3>1. root'[e] = saved[n][e] /\ saved'[n][e] = Absent
        BY <1>1, <1>3, <1>4, <2>1, <2>4 DEF TypeOK
      <3> QED
        BY <1>1, <1>3, <1>4, <2>1, <2>2, <2>4, <3>1, OpenFacts DEF Restorable
    <2> QED
      BY <2>3, <2>4
  <1> QED
    BY <1>5, <1>6, <1>7

LEMMA UndoDoneKeeps ==
  ASSUME TypeOK, PhaseFits, Sound, UndoDone
  PROVE  Sound' /\ NoOpen' /\ root'["database"] = before
PROOF
  <1> USE DEF Sound, UndoDone, bounds, history
  <1>1. /\ phase \in {"undoing", "recovering"} /\ current # 0
        /\ current \in Restores /\ current = restores /\ journal[current] = "open" /\ ~NoOpen
    BY DEF Undoing, TypeOK, JournalOfLast, NoOpen
  <1>2. \A e \in Entries : saved[current][e] = Absent /\ (root[e] # Absent => e \in present[current])
    BY <1>1 DEF ToUndo, There
  <1>3. saved[current] = Nothing
    BY <1>1, <1>2, NothingThere DEF TypeOK
  <1>4. Whole(root, before) /\ before \in Nat /\ before < restores
    BY <1>1, <1>2, OpenFacts DEF Whole, Restorable, Entries
  <1>5. /\ journal'[current] = "none"
        /\ \A n \in Restores : n # current => journal'[n] = journal[n] /\ journal[n] # "open"
    BY <1>1, OpenFacts DEF TypeOK
  <1>6. NoOpen'
    BY <1>5 DEF NoOpen
  <1>7. /\ phase = "undoing" => phase' = "returning" /\ current' = current
        /\ phase = "recovering" => phase' = "recovering" /\ current' = 0
    BY <1>1
  <1>8. JournalOfLast'
    BY <1>1, <1>3, <1>5, <1>7 DEF JournalOfLast, Live, Restores
  <1>9. phase' \in InRestore => served = before /\ phase' = "returning"
    BY <1>1, <1>7 DEF Ages, InRestore
  <1>10. WholeUnlessOpen' /\ NewInPlace' /\ Ages'
    <2>1. phase' \in {"returning", "recovering"} /\ served' = served /\ before' = before
          /\ restores' = restores /\ root' = root
      BY <1>1, <1>7
    <2>2. Ages'
      BY <1>4, <1>9, <2>1 DEF Ages
    <2>3. NewInPlace'
      BY <1>6, <2>1 DEF NewInPlace
    <2>4. before \in 0..restores
      BY <1>4 DEF TypeOK
    <2>5. WholeUnlessOpen'
      BY <1>4, <1>9, <2>1, <2>4 DEF WholeUnlessOpen, Whole, InRestore
    <2> QED
      BY <2>2, <2>3, <2>5
  <1>11. InstallProgress' /\ RecoverableByEntry'
    BY <1>1, <1>6, <1>7 DEF InstallProgress, RecoverableByEntry, NoOpen
  <1> QED
    BY <1>4, <1>6, <1>8, <1>10, <1>11 DEF Whole

\* A start on the old entries, whether it succeeds or fails.
LEMMA ReturnKeeps ==
  ASSUME TypeOK, PhaseFits, Sound, Return \/ ReturnFails
  PROVE  /\ Sound' /\ NoOpen' /\ root'["database"] = served
         /\ served' = served /\ Whole(root', served)
PROOF
  <1> USE DEF Sound
  <1>1. /\ phase \in {"returning", "retrying"}
        /\ current = restores /\ current \in Restores /\ journal[current] \notin Live /\ NoOpen
        /\ Whole(root, served) /\ root["database"] = served /\ served \in Nat /\ before < restores
    BY ClosedFacts DEF Return, ReturnFails
  <1>2. Whole(root', served) /\ root'["database"] = served
    BY <1>1, OpenWhole DEF Return, ReturnFails, TypeOK, Whole
  <1>3. /\ UNCHANGED <<saved, journal, present, restores, before>>
        /\ served' = served
        /\ \/ phase' = "serving" /\ current' = 0
           \/ phase' \in {"retrying", "stuck"} /\ current' = current
    BY <1>2 DEF Return, ReturnFails, Serve, bounds, history
  <1>4. JournalOfLast' /\ NoOpen'
    BY <1>1, <1>3 DEF JournalOfLast, NoOpen
  <1>5. WholeUnlessOpen' /\ NewInPlace' /\ Ages'
    BY <1>1, <1>2, <1>3, <1>4 DEF WholeUnlessOpen, NewInPlace, Ages, InRestore, Whole
  <1>6. InstallProgress' /\ RecoverableByEntry'
    BY <1>3, <1>4 DEF InstallProgress, RecoverableByEntry, NoOpen
  <1> QED
    BY <1>2, <1>3, <1>4, <1>5, <1>6

\* Install gives up, or there is nothing to undo: the directories do not change.
LEMMA GiveUpKeeps ==
  ASSUME TypeOK, PhaseFits, Sound, InstallFails \/ NothingUndone
  PROVE  Sound'
PROOF
  <1> USE DEF Sound, files, bounds, history
  <1>1. /\ UNCHANGED <<root, stage, saved, journal, present, current, served, restores, before>>
        /\ phase \in InRestore /\ phase' \in {"undoing", "returning", "retrying"}
        /\ phase' = "undoing" => journal[current] # "committed"
        /\ phase' # "undoing" => journal[current] \notin Live
    BY DEF InstallFails, NothingUndone, InRestore, JournalOfLast, Live
  <1>2. phase \notin {"down", "recovering", "refused", "cleaning"}
    BY DEF InstallFails, NothingUndone
  <1>3. JournalOfLast' /\ NoOpen' = NoOpen
    BY <1>1 DEF JournalOfLast, NoOpen
  <1>4. WholeUnlessOpen' /\ NewInPlace' /\ Ages'
    BY <1>1, <1>2, <1>3 DEF WholeUnlessOpen, NewInPlace, Ages, InRestore, Whole
  <1>5. InstallProgress' /\ RecoverableByEntry'
    BY <1>1 DEF InstallProgress, RecoverableByEntry, Restorable
  <1> QED
    BY <1>3, <1>4, <1>5

\* The process ends, begins again or refuses to: the directories do not change,
\* but for a start that fails where there is nothing to undo.
LEMMA EndKeeps ==
  ASSUME TypeOK, PhaseFits, Sound, Crash \/ Restart \/ Boot \/ UndoBlocked \/ StartFails
  PROVE  /\ Sound' /\ journal' = journal
         /\ NoOpen => root'["database"] = root["database"]
         /\ ~NoOpen => root' = root
PROOF
  <1> USE DEF Sound, files, bounds, history
  <1>1. /\ UNCHANGED <<stage, saved, journal, present, served, restores, before>>
        /\ phase' \in {"down", "recovering", "refused"} /\ current' = 0
        /\ root' = root \/ (NoOpen /\ Open)
    <2>1. CASE Crash \/ Restart \/ Boot \/ UndoBlocked
      BY <2>1 DEF Crash, Restart, Boot, UndoBlocked, Die, PhaseFits
    <2>2. CASE StartFails
      <3>1. root' = root \/ (NoOpen /\ Open)
        BY <2>2 DEF StartFails, NoOpen
      <3> QED
        BY <2>2, <3>1 DEF StartFails, Die
    <2> QED
      BY <2>1, <2>2
  <1>2. NoOpen => Whole(root', root["database"]) /\ root'["database"] = root["database"]
                  /\ root["database"] \in 0..restores
    BY <1>1, OpenWhole DEF WholeUnlessOpen, TypeOK, Whole
  <1>3. JournalOfLast' /\ NoOpen' = NoOpen
    BY <1>1 DEF JournalOfLast, NoOpen
  <1>4. WholeUnlessOpen' /\ NewInPlace' /\ Ages' /\ InstallProgress'
    BY <1>1, <1>2, <1>3 DEF WholeUnlessOpen, NewInPlace, Ages, InstallProgress, InRestore
  <1>5. RecoverableByEntry'
    BY <1>1 DEF RecoverableByEntry, Restorable, NoOpen
  <1> QED
    BY <1>1, <1>2, <1>3, <1>4, <1>5

LEMMA StartKeeps ==
  ASSUME TypeOK, PhaseFits, Sound, Start
  PROVE  /\ Sound' /\ NoOpen /\ NoOpen'
         /\ root'["database"] = root["database"] /\ served' = root["database"]
PROOF
  <1> USE DEF Sound, Start, Serve, bounds, history
  <1> DEFINE g == root["database"]
  <1>1. NoOpen /\ NoOpen' /\ Whole(root, g) /\ g \in 0..restores /\ g \in Nat
    BY DEF NoOpen, WholeUnlessOpen, TypeOK
  <1>2. Whole(root', g) /\ root'["database"] = g
    BY <1>1, OpenWhole DEF TypeOK
  <1>3. JournalOfLast'
    BY <1>1 DEF JournalOfLast
  <1>4. WholeUnlessOpen' /\ NewInPlace' /\ Ages'
    BY <1>1, <1>2 DEF WholeUnlessOpen, NewInPlace, Ages, InRestore, Whole
  <1>5. InstallProgress' /\ RecoverableByEntry'
    BY <1>1 DEF InstallProgress, RecoverableByEntry, NoOpen
  <1> QED
    BY <1>1, <1>2, <1>3, <1>4, <1>5

LEMMA RecoverKeeps ==
  ASSUME TypeOK, PhaseFits, Sound, NEW n \in Restores, Recover(n)
  PROVE  Sound' /\ NoOpen' = NoOpen /\ UNCHANGED <<root, served, before>>
         /\ \A m \in Restores : journal[m] = "open" <=> journal'[m] = "open"
PROOF
  <1> USE DEF Sound, bounds, history
  <1>1. phase = "recovering" /\ current = 0
        /\ UNCHANGED <<root, stage, present, served, restores, before>>
    BY DEF Recover, Remove, files
  <1>2. /\ phase' \in {"recovering", "refused"}
        /\ \A m \in Restores :
             \/ journal'[m] = journal[m] /\ saved'[m] = saved[m]
             \/ journal[m] = "committed" /\ journal'[m] = "none" /\ saved'[m] = Nothing
    BY DEF Recover, Remove, files, TypeOK
  <1>3. JournalOfLast'
    BY <1>1, <1>2 DEF JournalOfLast, Live
  <1>4. /\ NoOpen' = NoOpen
        /\ \A m \in Restores : journal[m] = "open" <=> journal'[m] = "open"
    BY <1>2 DEF NoOpen
  <1>5. WholeUnlessOpen' /\ NewInPlace' /\ Ages' /\ InstallProgress'
    BY <1>1, <1>2, <1>4 DEF WholeUnlessOpen, NewInPlace, Ages, InstallProgress, InRestore, Whole
  <1>6. RecoverableByEntry'
    BY <1>1, <1>2 DEF RecoverableByEntry, Restorable
  <1> QED
    BY <1>1, <1>3, <1>4, <1>5, <1>6

\* Nothing that is spoiled is ever sound again.
LEMMA SpoiledStays ==
  ASSUME TypeOK, [Next]_vars, ~spoiled'
  PROVE  ~spoiled
PROOF
  <1>1. CASE Use \/ Install
    BY <1>1 DEF Use, Install, BeginRestore, OpenJournal, WriteJournal, SaveEntry, PlaceEntry, history
  <1>2. CASE Reload \/ Commit \/ Clean \/ Rollback
    BY <1>2 DEF Reload, Commit, Clean, Rollback, UndoEntry, UndoBlocked, UndoDone, NothingUndone,
                Return, history
  <1>3. CASE Failure
    BY <1>3 DEF Failure, InstallFails, ReloadFails, CommitFails, CleanFails, UndoFails, ReturnFails,
                StartFails, history
  <1>4. CASE StartUp \/ Crash \/ Restart
    BY <1>4 DEF StartUp, Boot, Start, Recover, Crash, Restart, history
  <1>5. CASE UNCHANGED vars
    BY <1>5 DEF vars, history
  <1> QED
    BY <1>1, <1>2, <1>3, <1>4, <1>5 DEF Next

LEMMA SoundStep ==
  ASSUME TypeOK, PhaseFits, Sound, [Next]_vars, ~spoiled', TypeOK'
  PROVE  Sound'
PROOF
  <1>1. CASE Use \/ Install
    BY <1>1, UseKeeps, BeginKeeps, OpenJournalKeeps, WriteJournalKeeps, SaveEntryKeeps, PlaceEntryKeeps
    DEF Install
  <1>2. CASE Reload \/ Commit \/ Clean
    BY <1>2, ReloadKeeps, CommitKeeps, CleanKeeps
  <1>3. CASE Rollback
    BY <1>3, UndoEntryKeeps, EndKeeps, UndoDoneKeeps, GiveUpKeeps, ReturnKeeps DEF Rollback
  <1>4. CASE Failure
    <2>1. ~UndoFails
      BY DEF UndoFails
    <2> QED
      BY <1>4, <2>1, GiveUpKeeps, ReloadKeeps, CommitFailsKeeps, CleanKeeps, ReturnKeeps, EndKeeps
      DEF Failure
  <1>5. CASE StartUp \/ Crash \/ Restart
    BY <1>5, EndKeeps, StartKeeps, RecoverKeeps DEF StartUp
  <1>6. CASE UNCHANGED vars
    BY <1>6 DEF Sound, JournalOfLast, WholeUnlessOpen, NewInPlace, Ages, InstallProgress,
                RecoverableByEntry, Restorable, NoOpen, Whole, There, vars, files, bounds, history
  <1> QED
    BY <1>1, <1>2, <1>3, <1>4, <1>5, <1>6 DEF Next

LEMMA RestoreStep == RestoreInv /\ [Next]_vars => RestoreInv'
PROOF
  BY TypesStep, PhaseFitsStep, SpoiledStays, SoundStep DEF RestoreInv

\* The inductive invariant of the swap.
THEOREM RestoreInvariant == Spec => []RestoreInv
PROOF
  BY RestoreInit, RestoreStep, PTL DEF Spec

\* Directories, journals and phases keep their types.
THEOREM RestoreTypes == Spec => []TypeOK
PROOF
  <1>1. RestoreInv => TypeOK
    BY DEF RestoreInv
  <1> QED
    BY <1>1, RestoreInvariant, PTL

\* While a journal is open, the directories and it determine what users had,
\* also after a commit that failed, until a rollback fails within a call or a
\* restore begins over an open journal.
THEOREM RestoreIsRecoverable == Spec => []Recoverable
PROOF
  <1>1. ASSUME RestoreInv, ~spoiled, NEW n \in Restores, journal[n] = "open"
        PROVE  /\ {"database", "library"} \subseteq present[n]
               /\ AfterRollback(n) = [e \in Entries |-> IF e \in present[n] THEN before ELSE Absent]
    <2>1. /\ {"database", "library"} \subseteq present[n]
          /\ \A e \in Entries : Restorable(e, n)
      BY <1>1 DEF RestoreInv, Sound, RecoverableByEntry
    <2> QED
      BY <2>1 DEF AfterRollback, Restorable
  <1>2. RestoreInv => Recoverable
    BY <1>1 DEF Recoverable
  <1> QED
    BY <1>2, RestoreInvariant, PTL

\* Users are served from a database, a -wal and a library of one generation,
\* also after a commit that failed, until a rollback fails within a call or a
\* restore begins over an open journal.
THEOREM UsersSeeWholeData == Spec => []NeverMixed
PROOF
  <1>1. RestoreInv => NeverMixed
    BY DEF RestoreInv, NeverMixed, Sound, WholeUnlessOpen, NewInPlace
  <1> QED
    BY <1>1, RestoreInvariant, PTL

-----------------------------------------------------------------------------
\* What a start would find: what users had, while a journal is open.
Outcome == IF NoOpen THEN root["database"] ELSE before

EffectiveIsOutcome == Effective = Outcome

LEMMA EffectiveOutcome ==
  ASSUME TypeOK, Sound
  PROVE  EffectiveIsOutcome
PROOF
  <1>1. CASE ~NoOpen
    <2> DEFINE n == CHOOSE m \in Restores : journal[m] = "open"
    <2>1. n \in Restores /\ journal[n] = "open"
      BY <1>1 DEF NoOpen
    <2>2. "database" \in present[n] /\ "database" \in Entries /\ Restorable("database", n)
      BY <2>1, OpenFacts DEF Entries
    <2>3. AfterRollback(n)["database"] = before
      BY <2>2 DEF AfterRollback, Restorable
    <2> QED
      BY <1>1, <2>3 DEF Effective, EffectiveIsOutcome, Outcome, NoOpen
  <1>2. CASE NoOpen
    BY <1>2 DEF Effective, EffectiveIsOutcome, Outcome, NoOpen
  <1> QED
    BY <1>1, <1>2

LEMMA EffectiveOutcomeNext == TypeOK' /\ Sound' => EffectiveIsOutcome'
PROOF
  BY EffectiveOutcome, PTL

LEMMA AtomicInit == Init => Atomic!Init
PROOF
  <1> SUFFICES ASSUME Init PROVE Atomic!Init
    OBVIOUS
  <1>1. root["database"] = 0
    BY DEF Init, Directory, Entries
  <1>2. NoOpen
    BY DEF Init, NoOpen
  <1> QED
    BY <1>1, <1>2 DEF Init, Atomic!Init, Effective, NoOpen

\* Every step is one of those AtomicRestore allows, on the outcome.
Quiet == Outcome' = Outcome /\ served' = served /\ answer' = answer

LEMMA QuietUse ==
  ASSUME TypeOK, PhaseFits, Sound, Use
  PROVE  Quiet
PROOF
  <1>1. phase = "serving" /\ UNCHANGED <<journal, served, answer, before>>
    BY DEF Use, history
  <1>2. NoOpen => root'["database"] = root["database"]
    BY <1>1, OpenWhole DEF Use, Sound, WholeUnlessOpen, Ages, TypeOK
  <1> QED
    BY <1>1, <1>2 DEF Quiet, Outcome, NoOpen

\* The journal is opened on what users see.
LEMMA QuietJournal ==
  ASSUME TypeOK, PhaseFits, Sound, OpenJournal \/ WriteJournal
  PROVE  Quiet
PROOF
  <1>1. /\ NoOpen /\ root["database"] = before /\ current \in Restores
        /\ UNCHANGED <<root, served, answer, before>>
    BY ClosedFacts DEF OpenJournal, WriteJournal, history
  <1> QED
    BY <1>1 DEF Quiet, Outcome

\* While it is open, nothing changes what a start would find.
LEMMA QuietSwap ==
  ASSUME TypeOK, PhaseFits, Sound, SaveEntry \/ PlaceEntry \/ Reload \/ ReloadFails \/ UndoEntry
  PROVE  Quiet
PROOF
  <1>1. UNCHANGED <<journal, served, answer, before>>
    BY DEF SaveEntry, PlaceEntry, Reload, ReloadFails, UndoEntry, history
  <1>2. ~NoOpen
    <2>1. CASE UndoEntry
      BY <2>1 DEF UndoEntry, Undoing, TypeOK, NoOpen
    <2>2. CASE ~UndoEntry
      BY <2>2, SwapFacts DEF SaveEntry, PlaceEntry, Reload, ReloadFails
    <2> QED
      BY <2>1, <2>2
  <1> QED
    BY <1>1, <1>2 DEF Quiet, Outcome, NoOpen

LEMMA QuietUndone ==
  ASSUME TypeOK, PhaseFits, Sound, UndoDone \/ InstallFails \/ NothingUndone
  PROVE  Quiet
PROOF
  <1>1. CASE UndoDone
    <2>1. ~NoOpen
      BY <1>1 DEF UndoDone, Undoing, TypeOK, NoOpen
    <2>2. NoOpen' /\ root'["database"] = before
      BY <1>1, UndoDoneKeeps
    <2> QED
      BY <1>1, <2>1, <2>2 DEF Quiet, Outcome, UndoDone
  <1>2. CASE InstallFails \/ NothingUndone
    BY <1>2 DEF InstallFails, NothingUndone, Quiet, Outcome, NoOpen, files, history
  <1> QED
    BY <1>1, <1>2

\* The steps that a client or a user may notice.
Noticed ==
  \/ answer # "pending" /\ answer' = "pending" /\ Outcome' = Outcome /\ served' = served
  \/ answer = "pending" /\ answer' = "pending" /\ Outcome' \in Nat /\ Outcome' > Outcome /\ served' = served
  \/ answer = "pending" /\ answer' = "done" /\ Outcome > served /\ served' = Outcome /\ Outcome' = Outcome
  \/ answer = "pending" /\ answer' = "failed" /\ served' \in Nat /\ served' >= Outcome /\ Outcome' = Outcome
  \/ answer = "pending" /\ answer' = "none" /\ Outcome' = Outcome /\ served' = served
  \/ answer # "pending" /\ answer' = answer /\ served' = Outcome /\ Outcome' = Outcome

LEMMA BeginAsks ==
  ASSUME TypeOK, PhaseFits, Sound, BeginRestore, ~spoiled'
  PROVE  Noticed
PROOF
  <1>1. NoOpen /\ NoOpen' /\ answer # "pending"
    BY DEF BeginRestore, NoOpen, PhaseFits, InRestore
  <1>2. root'["database"] = root["database"]
    BY DEF BeginRestore, Without, TypeOK, Entries
  <1> QED
    BY <1>1, <1>2 DEF Noticed, Outcome, BeginRestore

\* The commit is the moment a restore takes effect.
LEMMA CommitReplaces ==
  ASSUME TypeOK, PhaseFits, Sound, Commit
  PROVE  Noticed
PROOF
  <1>1. /\ current \in Restores /\ journal[current] = "open" /\ ~NoOpen
        /\ root["database"] = restores
    BY SwapFacts DEF Commit, Sound, NewInPlace, Whole
  <1>2. before < restores /\ restores \in Nat
    BY <1>1, OpenFacts
  <1>3. NoOpen'
    BY CommitKeeps
  <1>4. answer = "pending"
    BY DEF Commit, PhaseFits, InRestore
  <1> QED
    BY <1>1, <1>2, <1>3, <1>4 DEF Noticed, Outcome, Commit

\* What a restore ends with, committed or not.
LEMMA EndAnswers ==
  ASSUME TypeOK, PhaseFits, Sound, Clean \/ CleanFails \/ CommitFails
  PROVE  Noticed
PROOF
  <1>1. /\ answer = "pending" /\ current \in Restores
        /\ root["database"] = restores /\ restores \in Nat
        /\ before \in Nat /\ before < restores /\ served = before
    BY DEF Clean, CleanFails, CommitFails, PhaseFits, InRestore, Sound, NewInPlace, Ages, Whole, Restores
  <1>2. CASE Clean \/ CleanFails
    <2>1. NoOpen
      BY <1>2 DEF Clean, CleanFails, PhaseFits, InRestore, Sound, JournalOfLast, NoOpen
    <2>2. NoOpen' /\ root' = root /\ served' = restores
      BY <1>1, <1>2, <2>1 DEF Clean, CleanFails, Remove, Serve, NoOpen, TypeOK
    <2>3. answer' = "failed" \/ answer' = "done"
      BY <1>2 DEF Clean, CleanFails, Serve
    <2> QED
      BY <1>1, <2>1, <2>2, <2>3 DEF Noticed, Outcome
  <1>3. CASE CommitFails
    <2>1. ~NoOpen /\ ~NoOpen'
      BY <1>3, SwapFacts DEF CommitFails, NoOpen, files
    <2>2. served' = restores /\ before' = before /\ answer' = "failed"
      BY <1>1, <1>3 DEF CommitFails, Serve, files, history
    <2> QED
      BY <1>1, <2>1, <2>2 DEF Noticed, Outcome
  <1> QED
    BY <1>2, <1>3

LEMMA ReturnAnswers ==
  ASSUME TypeOK, PhaseFits, Sound, Return \/ ReturnFails
  PROVE  Quiet \/ Noticed
PROOF
  <1>1. /\ NoOpen /\ root["database"] = served /\ served \in Nat
        /\ NoOpen' /\ root'["database"] = served /\ served' = served
    BY ClosedFacts, ReturnKeeps DEF Return, ReturnFails
  <1>2. answer = "pending" /\ answer' \in {answer, "failed"}
    BY DEF Return, ReturnFails, Serve, PhaseFits, InRestore
  <1> QED
    BY <1>1, <1>2 DEF Quiet, Noticed, Outcome

LEMMA EndOrBegin ==
  ASSUME TypeOK, PhaseFits, Sound,
         \/ Crash \/ Restart \/ Boot \/ UndoBlocked \/ StartFails \/ Start
         \/ \E n \in Restores : Recover(n)
  PROVE  Quiet \/ Noticed
PROOF
  <1>1. CASE Crash \/ Restart \/ Boot \/ UndoBlocked \/ StartFails
    <2>1. NoOpen' = NoOpen /\ (NoOpen => root'["database"] = root["database"])
      BY <1>1, EndKeeps DEF NoOpen
    <2>2. served' = served /\ before' = before
      BY <1>1 DEF Crash, Restart, Boot, UndoBlocked, StartFails, history
    <2>3. answer' = answer \/ (answer = "pending" /\ answer' = "none")
      BY <1>1 DEF Crash, Restart, Boot, UndoBlocked, StartFails, Die
    <2> QED
      BY <2>1, <2>2, <2>3 DEF Quiet, Noticed, Outcome
  <1>2. CASE Start
    <2>1. NoOpen /\ NoOpen' /\ root'["database"] = root["database"] /\ served' = root["database"]
      BY <1>2, StartKeeps
    <2>2. answer # "pending" /\ answer' = answer
      BY <1>2 DEF Start, Serve, PhaseFits, InRestore
    <2> QED
      BY <2>1, <2>2 DEF Noticed, Outcome
  <1>3. ASSUME NEW n \in Restores, Recover(n)
        PROVE  Quiet
    <2>1. NoOpen' = NoOpen /\ UNCHANGED <<root, served, before>>
      BY <1>3, RecoverKeeps
    <2>2. answer' = answer
      BY <1>3 DEF Recover
    <2> QED
      BY <2>1, <2>2 DEF Quiet, Outcome
  <1> QED
    BY <1>1, <1>2, <1>3

LEMMA OutcomeStep ==
  ASSUME TypeOK, PhaseFits, Sound, [Next]_vars, ~spoiled'
  PROVE  Quiet \/ Noticed
PROOF
  <1>1. CASE Use \/ Install \/ Reload
    BY <1>1, QuietUse, BeginAsks, QuietJournal, QuietSwap DEF Install
  <1>2. CASE Commit \/ Clean
    BY <1>2, CommitReplaces, EndAnswers
  <1>3. CASE Rollback
    BY <1>3, QuietSwap, QuietUndone, EndOrBegin, ReturnAnswers DEF Rollback
  <1>4. CASE Failure
    <2>1. ~UndoFails
      BY DEF UndoFails
    <2> QED
      BY <1>4, <2>1, QuietUndone, QuietSwap, EndAnswers, ReturnAnswers, EndOrBegin DEF Failure
  <1>5. CASE StartUp \/ Crash \/ Restart
    BY <1>5, EndOrBegin DEF StartUp
  <1>6. CASE UNCHANGED vars
    BY <1>6 DEF Quiet, Outcome, NoOpen, vars, files, history
  <1> QED
    BY <1>1, <1>2, <1>3, <1>4, <1>5, <1>6 DEF Next

LEMMA AtomicStep == RestoreInv /\ [Next]_vars => [Atomic!Next]_(Atomic!vars)
PROOF
  <1> SUFFICES ASSUME RestoreInv, [Next]_vars PROVE [Atomic!Next]_(Atomic!vars)
    OBVIOUS
  <1>1. RestoreInv'
    BY RestoreStep
  <1>2. CASE spoiled'
    <2>1. spoiled' = TRUE
      BY <1>1, <1>2 DEF RestoreInv, TypeOK
    <2> QED
      BY <2>1 DEF Atomic!Next
  <1>3. CASE ~spoiled'
    <2>1. ~spoiled /\ Sound /\ Sound'
      BY <1>1, <1>3, SpoiledStays DEF RestoreInv
    <2>2. Effective = Outcome /\ Effective' = Outcome'
      BY <1>1, <2>1, EffectiveOutcome, EffectiveOutcomeNext DEF RestoreInv, EffectiveIsOutcome
    <2>3. spoiled' = spoiled
      BY <1>1, <1>3, <2>1 DEF RestoreInv, TypeOK
    <2>4. CASE Quiet
      BY <2>2, <2>3, <2>4 DEF Quiet, Atomic!vars
    <2>5. CASE Noticed
      BY <1>3, <2>1, <2>2, <2>5
      DEF Noticed, Atomic!Next, Atomic!Ask, Atomic!Replace, Atomic!Succeed, Atomic!Fail, Atomic!Die,
          Atomic!Serve
    <2> QED
      BY <1>3, <2>1, <2>4, <2>5, OutcomeStep DEF RestoreInv
  <1> QED
    BY <1>2, <1>3

\* Whichever step fails and whenever the process dies, a restore replaces the
\* data as a whole by newer data that stays; success is told only of such data,
\* and users may see data that is taken back only after a failure was told.
\* A failing commit is among the steps; a rollback that fails within a call, and
\* a restore begun over an open journal, end the promise.
THEOREM RestoreIsAtomic == Spec => ImplementsAtomicRestore
PROOF
  BY RestoreInvariant, AtomicInit, AtomicStep, PTL
  DEF Spec, ImplementsAtomicRestore, Atomic!Spec

\* A restore that fails before its commit, and whose rollback does not fail too,
\* leaves users with what they saw, whole.
THEOREM FailuresRollBack == Spec => FailureRollsBack
PROOF
  <1>1. ASSUME RestoreInv, [Next]_vars, answer = "pending", answer' = "failed",
               phase \notin {"committing", "cleaning"}, ~spoiled'
        PROVE  served' = served /\ (phase' = "serving" => Whole(root', served'))
    <2>1. Return \/ ReturnFails
      <3>1. CASE Use \/ Install \/ Reload \/ Commit \/ Clean
        BY <1>1, <3>1 DEF Use, Install, BeginRestore, OpenJournal, WriteJournal, SaveEntry, PlaceEntry,
                          Reload, Commit, Clean, Serve
      <3>2. CASE Rollback
        BY <1>1, <3>2 DEF Rollback, UndoEntry, UndoBlocked, UndoDone, NothingUndone
      <3>3. CASE Failure
        BY <1>1, <3>3 DEF Failure, InstallFails, ReloadFails, CommitFails, CleanFails, UndoFails,
                          StartFails, Die
      <3>4. CASE StartUp \/ Crash \/ Restart
        BY <1>1, <3>4 DEF StartUp, Boot, Start, Recover, Serve, Crash, Restart, Die
      <3>5. CASE UNCHANGED vars
        BY <1>1, <3>5 DEF vars
      <3> QED
        BY <1>1, <3>1, <3>2, <3>3, <3>4, <3>5 DEF Next
    <2>2. Sound
      BY <1>1, SpoiledStays DEF RestoreInv
    <2> QED
      BY <1>1, <2>1, <2>2, ReturnKeeps DEF RestoreInv
  <1>2. RestoreInv /\ [Next]_vars =>
          [answer = "pending" /\ answer' = "failed" /\ phase \notin {"committing", "cleaning"}
             /\ ~spoiled' => served' = served /\ (phase' = "serving" => Whole(root', served'))]_vars
    BY <1>1
  <1> QED
    BY <1>2, RestoreInvariant, PTL DEF Spec, FailureRollsBack
=============================================================================
