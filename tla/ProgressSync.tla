----------------------------- MODULE ProgressSync -----------------------------
(***************************************************************************)
(* Devices that keep a reading position in step with the server            *)
(* (reader_progress_writer.dart, reader_progress_store.dart), over a       *)
(* network that loses, delays and repeats requests.  A device keeps what   *)
(* the server has not confirmed in an outbox on its disk, sends one        *)
(* operation at a time under an identifier it repeats until answered, and  *)
(* leaves it to the user to choose when another device was first.          *)
(*                                                                         *)
(* A Dart isolate runs a turn between two awaits, so an action is what a   *)
(* device does from one answer, timer, disk result or tap to the next.     *)
(* The content of a snapshot is fixed when the write of it is asked for    *)
(* and writes are queued, so a write to disk is part of the turn that asks *)
(* for it; it may fail.                                                    *)
(***************************************************************************)
EXTENDS ReadingProgress

CONSTANTS
  Devices,
  MaxSaves,     \* bound: positions devices save
  MaxOps,       \* bound: operations they make of them
  MaxForeign,   \* bound: writes by old clients and by the server
  MaxRestarts,  \* bound: times a device or its reader is closed
  MaxFaults     \* bound: writes to disk that fail, requests without an answer

ASSUME SyncAssumption ==
  /\ MaxSaves \in Nat /\ MaxOps \in Nat /\ MaxForeign \in Nat
  /\ MaxRestarts \in Nat /\ MaxFaults \in Nat

VARIABLES
  mem,      \* mem[d]: what the writer of d holds
  disk,     \* disk[d]: its newest snapshot on disk
  pc,       \* pc[d]: of _restore and _drain
  loaded,   \* loaded[d]: the snapshot _restore is reading
  asked,    \* asked[d]: useServer: the revision fetched, and if d saved since
  wire,     \* wire[d]: the requests d has sent
  reply,    \* reply[d]: on its way to d
  saves, ops, foreign, restarts, faults,
  seen,     \* seen[d]: the newest revision d has received (for the properties)
  kept      \* kept[d]: the last position of d on its disk that its user has
            \* not given up (for the properties)

device  == <<mem, disk, pc, loaded, asked>>
network == <<wire, reply>>
bounds  == <<saves, ops, foreign, restarts, faults>>
vars    == <<serverVars, device, network, bounds, seen, kept>>

NoPosition == 0
NoOp == 0
NoRevision == -1
NoRequest  == [op |-> NoOp, expected |-> 0, position |-> NoPosition]
NoReply    == [saved |-> FALSE, revision |-> NoRevision]

\* known: _remote; base: _baseRevision; conflict: the revision the user is to
\* choose against.  The same five are a snapshot.
Writers == [base : Nat, sending : Requests \cup {NoRequest}, queued : Nat,
            conflict : Nat \cup {NoRevision}, known : Nat]

NotAsked == [revision |-> NoRevision, waiting |-> FALSE, newer |-> FALSE]

Opened(r) == [base |-> r, sending |-> NoRequest, queued |-> NoPosition,
              conflict |-> NoRevision, known |-> r]

Larger(a, b) == IF a > b THEN a ELSE b

Sending(w)   == w.sending.op # NoOp
Queued(w)    == w.queued # NoPosition
Pending(w)   == Sending(w) \/ Queued(w)
InConflict(w) == w.conflict # NoRevision

\* localPosition
Local(w) == IF Queued(w) THEN w.queued ELSE w.sending.position

\* What _persist writes: nothing but _remote when nothing is pending.
Snapshot(w) == IF Pending(w) THEN w ELSE Opened(w.known)

TypeOK ==
  /\ log \in Seq(Entries) /\ protected \in BOOLEAN
  /\ receipts \subseteq [request : Requests, revision : Nat]
  /\ mem \in [Devices -> Writers] /\ disk \in [Devices -> Writers]
  /\ pc \in [Devices -> {"restoring", "idle", "waiting"}]
  /\ loaded \in [Devices -> Writers]
  /\ asked \in [Devices -> [revision : Nat \cup {NoRevision}, waiting : BOOLEAN, newer : BOOLEAN]]
  /\ wire \in [Devices -> SUBSET Requests]
  /\ reply \in [Devices -> [saved : BOOLEAN, revision : Nat \cup {NoRevision}]]
  /\ saves \in 0..MaxSaves /\ ops \in 0..MaxOps /\ foreign \in 0..MaxForeign
  /\ restarts \in 0..MaxRestarts /\ faults \in 0..MaxFaults
  /\ seen \in [Devices -> Nat]
  /\ kept \in [Devices -> Nat]

Init ==
  /\ ServerInit
  /\ mem = [d \in Devices |-> Opened(0)]
  /\ disk = [d \in Devices |-> Opened(0)]
  /\ pc = [d \in Devices |-> "idle"]
  /\ loaded = [d \in Devices |-> Opened(0)]
  /\ asked = [d \in Devices |-> NotAsked]
  /\ wire = [d \in Devices |-> {}] /\ reply = [d \in Devices |-> NoReply]
  /\ saves = 0 /\ ops = 0 /\ foreign = 0 /\ restarts = 0 /\ faults = 0
  /\ seen = [d \in Devices |-> 0]
  /\ kept = [d \in Devices |-> NoPosition]

-----------------------------------------------------------------------------
(* The disk and the memory of a device *)

Holds(d, w) == mem' = [mem EXCEPT ![d] = w]

\* The position on disk is now that of the snapshot.
Stores(d, w) ==
  /\ disk' = [disk EXCEPT ![d] = Snapshot(w)]
  /\ kept' = [kept EXCEPT ![d] = IF Pending(w) THEN Local(w) ELSE @]

\* _persist that succeeds.
Written(d, w) == Stores(d, w) /\ UNCHANGED faults

\* _persist that fails: the old snapshot stays.
NotWritten ==
  /\ faults < MaxFaults /\ faults' = faults + 1
  /\ UNCHANGED <<disk, kept>>

Persists(d, w) == Written(d, w) \/ NotWritten

Sees(d, r) == seen' = [seen EXCEPT ![d] = Larger(@, r)]

Receives(d, answer) == reply' = [reply EXCEPT ![d] = answer]

At(d, step) == pc' = [pc EXCEPT ![d] = step]

-----------------------------------------------------------------------------
(* Opening a reader: the constructor and _restore *)

\* The reader is closed, or the device stops; a reader is opened on the detail
\* of the book, which may have been fetched a while ago.  The request in
\* flight stays in flight.
Reopen(d) ==
  /\ restarts < MaxRestarts /\ restarts' = restarts + 1
  /\ \E r \in 0..Revision : Holds(d, Opened(r)) /\ Sees(d, r)
  /\ At(d, "restoring")
  /\ loaded' = [loaded EXCEPT ![d] = disk[d]]
  /\ asked' = [asked EXCEPT ![d] = NotAsked]
  /\ Receives(d, NoReply)
  /\ UNCHANGED <<serverVars, disk, wire, saves, ops, foreign, faults, kept>>

\* What the writer holds once it has read its snapshot; a position saved in the
\* meantime is newer than the one on disk.
Restored(w, saved) ==
  LET known  == Larger(w.known, saved.known)
      queued == IF Queued(w) THEN w.queued ELSE saved.queued
      stale  == InConflict(saved) \/ (~Sending(saved) /\ queued # NoPosition /\ known > saved.base)
  IN  IF Pending(saved)
        THEN [base |-> saved.base, sending |-> saved.sending, queued |-> queued,
              conflict |-> IF stale THEN Larger(known, saved.conflict) ELSE NoRevision,
              known |-> known]
        ELSE [w EXCEPT !.base = known, !.known = known]

\* _restore, and the end of a save that waited for it.
Restore(d) ==
  /\ pc[d] = "restoring"
  /\ LET w == Restored(mem[d], loaded[d])
     IN  /\ Holds(d, w)
         /\ IF Queued(mem[d]) THEN Persists(d, w) ELSE UNCHANGED <<disk, kept, faults>>
  /\ At(d, "idle")
  /\ loaded' = [loaded EXCEPT ![d] = Opened(0)]
  /\ UNCHANGED <<serverVars, asked, network, saves, ops, foreign, restarts, seen>>

\* _restore that cannot read the snapshot, and its repetition.
RestoreFails(d) ==
  /\ pc[d] = "restoring"
  /\ faults < MaxFaults /\ faults' = faults + 1
  /\ loaded' = [loaded EXCEPT ![d] = disk[d]]
  /\ UNCHANGED <<serverVars, mem, disk, pc, asked, network, saves, ops, foreign, restarts, seen, kept>>

-----------------------------------------------------------------------------
(* save and _drain *)

\* save: the reader captures a position.
Save(d) ==
  /\ saves < MaxSaves /\ saves' = saves + 1
  /\ LET w == [mem[d] EXCEPT !.queued = saves + 1]
     IN  /\ Holds(d, w)
         /\ IF pc[d] = "restoring" THEN UNCHANGED <<disk, kept, faults>> ELSE Persists(d, w)
  /\ asked' = [asked EXCEPT ![d].newer = @ \/ asked[d].waiting]
  /\ UNCHANGED <<serverVars, pc, loaded, network, ops, foreign, restarts, seen>>

\* The operation _drain sends: the one that has no answer yet, or a new one.
Outgoing(w) ==
  IF Sending(w) THEN w
  ELSE [w EXCEPT !.sending = [op |-> ops + 1, expected |-> w.base, position |-> w.queued],
                 !.queued = NoPosition]

\* _drain, up to the request: it is sent once it is on disk.
Send(d) ==
  /\ pc[d] = "idle" /\ Pending(mem[d]) /\ ~InConflict(mem[d])
  /\ Sending(mem[d]) \/ ops < MaxOps
  /\ ops' = IF Sending(mem[d]) THEN ops ELSE ops + 1
  /\ LET w == Outgoing(mem[d])
     IN  /\ Holds(d, w)
         /\ \/ /\ Written(d, w)
               /\ At(d, "waiting")
               /\ wire' = [wire EXCEPT ![d] = @ \cup {w.sending}]
            \/ /\ NotWritten
               /\ UNCHANGED <<pc, wire>>
  /\ UNCHANGED <<serverVars, loaded, asked, reply, saves, foreign, restarts, seen>>

\* For mutation: the revision of the answer is taken as the newest.
ConfirmedBlindly(w, r) ==
  [w EXCEPT !.base = Larger(@, r), !.sending = NoRequest, !.known = r]

\* What the writer holds after a write the server confirms.
Confirmed(w, r) ==
  IF w.known > r
    THEN [w EXCEPT !.base = Larger(@, r), !.sending = NoRequest,
                   !.queued = Local(w), !.conflict = w.known]
    ELSE [w EXCEPT !.base = Larger(@, r), !.sending = NoRequest, !.known = r]

\* For mutation: a refused position is dropped.
RefusedForgetting(w, r) ==
  [w EXCEPT !.known = Larger(@, r), !.conflict = Larger(w.known, r), !.sending = NoRequest]

\* ... and after a 409 that names the revision there is.
Refused(w, r) ==
  [w EXCEPT !.known = Larger(@, r), !.conflict = Larger(w.known, r)]

\* _drain, from the answer.
Receive(d) ==
  /\ pc[d] = "waiting" /\ reply[d] # NoReply
  /\ LET r == reply[d].revision
         w == IF reply[d].saved THEN Confirmed(mem[d], r) ELSE Refused(mem[d], r)
     IN  Holds(d, w) /\ Persists(d, w) /\ Sees(d, r)
  /\ Receives(d, NoReply)
  /\ At(d, "idle")
  /\ UNCHANGED <<serverVars, loaded, asked, wire, saves, ops, foreign, restarts>>

\* _drain, without one: the operation is kept and sent again.
GiveUp(d) ==
  /\ pc[d] = "waiting"
  /\ faults < MaxFaults /\ faults' = faults + 1
  /\ Stores(d, mem[d]) \/ UNCHANGED <<disk, kept>>
  /\ Receives(d, NoReply)
  /\ At(d, "idle")
  /\ UNCHANGED <<serverVars, mem, loaded, asked, wire, saves, ops, foreign, restarts, seen>>

\* _drain that has nothing to send: it writes what an earlier write failed to.
Flush(d) ==
  /\ pc[d] = "idle"
  /\ InConflict(mem[d]) \/ (~Pending(mem[d]) /\ Pending(disk[d]))
  /\ Written(d, mem[d])
  /\ UNCHANGED <<serverVars, mem, pc, loaded, asked, network, saves, ops, foreign, restarts, seen>>

-----------------------------------------------------------------------------
(* observeRemote, and the choice of the user *)

\* observeRemote: a detail of the book, read by the server at some time.
Observe(d) ==
  /\ \E r \in 0..Revision :
       /\ r > mem[d].known
       /\ Sees(d, r)
       /\ LET w == [mem[d] EXCEPT !.known = r]
          IN  IF ~Pending(w)
                THEN Holds(d, [w EXCEPT !.base = r]) /\ UNCHANGED <<disk, kept, faults>>
                ELSE IF Sending(w)
                THEN Holds(d, w) /\ UNCHANGED <<disk, kept, faults>>
                ELSE /\ Holds(d, [w EXCEPT !.conflict = r])
                     /\ Persists(d, [w EXCEPT !.conflict = r])
  /\ UNCHANGED <<serverVars, pc, loaded, asked, network, saves, ops, foreign, restarts>>

Resolvable(d) == pc[d] = "idle" /\ InConflict(mem[d]) /\ ~asked[d].waiting

\* keepLocal: the local position becomes a new operation on the revision the
\* user has been shown.
KeepLocal(d) ==
  /\ Resolvable(d) /\ Pending(mem[d])
  /\ LET w == [mem[d] EXCEPT !.queued = Local(mem[d]), !.sending = NoRequest,
                             !.base = mem[d].conflict, !.conflict = NoRevision]
     IN  Holds(d, w) /\ Persists(d, w)
  /\ UNCHANGED <<serverVars, pc, loaded, asked, network, saves, ops, foreign, restarts, seen>>

\* useServer, up to the request.
AskServer(d) ==
  /\ Resolvable(d)
  /\ asked' = [asked EXCEPT ![d] = [NotAsked EXCEPT !.waiting = TRUE]]
  /\ UNCHANGED <<serverVars, mem, disk, pc, loaded, network, bounds, seen, kept>>

\* get_reading_progress, on the server.
TellDevice(d) ==
  /\ asked[d].waiting /\ asked[d].revision = NoRevision
  /\ asked' = [asked EXCEPT ![d].revision = Revision]
  /\ UNCHANGED <<serverVars, mem, disk, pc, loaded, network, bounds, seen, kept>>

\* useServer: another revision than the one shown is shown first.
ShowNewer(d, r) ==
  /\ r # mem[d].conflict
  /\ LET shown == Larger(r, mem[d].conflict)
         w     == [mem[d] EXCEPT !.conflict = shown, !.known = shown]
     IN  Holds(d, w) /\ Persists(d, w)

\* useServer: the local position is given up, on disk first, unless a newer one
\* was saved since the user chose.
Adopt(d, r) ==
  /\ r = mem[d].conflict
  /\ \/ /\ ~asked[d].newer
        /\ Holds(d, Opened(r))
        /\ disk' = [disk EXCEPT ![d] = Opened(r)]
        /\ kept' = [kept EXCEPT ![d] = NoPosition]
        /\ UNCHANGED faults
     \/ ~asked[d].newer /\ NotWritten /\ UNCHANGED mem
     \/ asked[d].newer /\ UNCHANGED <<mem, disk, kept, faults>>

\* useServer, from the answer.
UseServer(d) ==
  /\ asked[d].revision # NoRevision
  /\ ShowNewer(d, asked[d].revision) \/ Adopt(d, asked[d].revision)
  /\ Sees(d, asked[d].revision)
  /\ asked' = [asked EXCEPT ![d] = NotAsked]
  /\ UNCHANGED <<serverVars, pc, loaded, network, saves, ops, foreign, restarts>>

\* useServer: no answer.
AskFails(d) ==
  /\ asked[d].waiting
  /\ faults < MaxFaults /\ faults' = faults + 1
  /\ asked' = [asked EXCEPT ![d] = NotAsked]
  /\ UNCHANGED <<serverVars, mem, disk, pc, loaded, network, saves, ops, foreign, restarts, seen, kept>>

-----------------------------------------------------------------------------
(* The server *)

\* A request arrives, perhaps late or again; its answer reaches the device if
\* that still waits for it, or is lost.
Handle(d, request) ==
  /\ request \in wire[d]
  /\ SaveVersioned(request)
  /\ \/ UNCHANGED reply
     \/ /\ pc[d] = "waiting" /\ mem[d].sending = request /\ reply[d] = NoReply
        /\ Receives(d, Answer(request))
  /\ UNCHANGED <<device, wire, bounds, seen, kept>>

Foreign ==
  /\ foreign < MaxForeign /\ foreign' = foreign + 1
  /\ SaveLegacy \/ SaveInternal
  /\ UNCHANGED <<device, network, saves, ops, restarts, faults, seen, kept>>

Next ==
  \/ \E d \in Devices :
       \/ Reopen(d) \/ Restore(d) \/ RestoreFails(d)
       \/ Save(d) \/ Send(d) \/ Receive(d) \/ GiveUp(d) \/ Flush(d)
       \/ Observe(d) \/ KeepLocal(d)
       \/ AskServer(d) \/ TellDevice(d) \/ UseServer(d) \/ AskFails(d)
       \/ \E request \in wire[d] : Handle(d, request)
  \/ Foreign

Spec == Init /\ [][Next]_vars

-----------------------------------------------------------------------------
(* Properties *)

\* A device never replaces a position it has not received: a request names the
\* revision its sender was told of, through crashes, restored snapshots, late
\* answers and the choice of the user (save_progress, "current.revision !=
\* expected_revision"; the base revision of the writer).
NoBlindOverwrite ==
  [][\A d \in Devices :
       log' # log /\ log'[Len(log')] \in wire[d] => seen[d] = Revision]_vars

\* However often a request is sent, delivered late or repeated after its
\* receipt was dropped, the position it carries is written once.
AppliedOnce ==
  \A i, j \in 1..Revision : log[i].op \in Nat \ {ByLegacy} /\ log[i].op = log[j].op => i = j

\* The server has had the position.
Reached(position) == \E i \in 1..Revision : log[i].position = position

\* A position that a device has on disk stays there until the server has had
\* it, a newer one of the device took its place, or the user gave it up for
\* the one of the server.
NothingForgotten ==
  \A d \in Devices :
    kept[d] # NoPosition =>
      (Pending(disk[d]) /\ Local(disk[d]) = kept[d]) \/ Reached(kept[d])

\* An answer to a device, which may be that to an operation of long ago, does
\* not lower the revision it knows of ("旧回执不得降低已知版本",
\* docs/development/03-frontend.md:290).
ReceiptNeverLowers ==
  [][\A d \in Devices :
       pc[d] = "waiting" /\ pc'[d] = "idle" => mem'[d].known >= mem[d].known]_vars
=============================================================================
