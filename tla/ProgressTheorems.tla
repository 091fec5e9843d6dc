--------------------------- MODULE ProgressTheorems ---------------------------
(***************************************************************************)
(* Proofs about ProgressSync, for any number of devices, positions,        *)
(* restarts and faults, and any number of receipts kept.                   *)
(***************************************************************************)
EXTENDS ProgressSync, SequenceTheorems, TLAPS

-----------------------------------------------------------------------------
(* The inductive invariant *)

\* What a device may ask of the server under some identifier, now or later.
Held(d) == wire[d] \cup ({mem[d].sending, disk[d].sending, loaded[d].sending} \ {NoRequest})

\* All the revisions in w are at most r.
Within(w, r) ==
  w.base <= r /\ w.known <= r /\ w.conflict <= r /\ w.sending.expected <= r

\* The server has written the request.
Logged(q) == \E i \in 1..Revision : log[i] = q

\* The log is a chain of compare and set: an entry names the revision before
\* it, and one that carries an identifier was asked for.
Chain ==
  \A i \in 1..Revision :
    /\ log[i].expected = i - 1
    /\ log[i].op \in Nat \ {ByLegacy} => \E d \in Devices : log[i] \in wire[d]

Receipted ==
  \A receipt \in receipts : receipt.revision <= Revision /\ Logged(receipt.request)

\* An identifier stands for one request, on whatever device, disk or wire.
OneRequest ==
  \A d, e \in Devices : \A q \in Held(d), r \in Held(e) : q.op = r.op => q = r

\* A device works with revisions it has received, and its requests name them.
Informed(d) ==
  /\ seen[d] <= Revision /\ reply[d].revision <= Revision /\ asked[d].revision <= Revision
  /\ Within(mem[d], seen[d]) /\ Within(disk[d], seen[d]) /\ Within(loaded[d], seen[d])
  /\ \A q \in Held(d) : q.op <= ops /\ q.expected <= seen[d]

\* A device that waits has a request to be answered, which is on its disk
\* unless it has saved a newer position, and the answer is to that request.
Awaiting(d) ==
  /\ pc[d] = "waiting" =>
       /\ Sending(mem[d]) /\ ~InConflict(mem[d])
       /\ ~Queued(mem[d]) => kept[d] = mem[d].sending.position
  /\ reply[d] # NoReply =>
       /\ pc[d] = "waiting" /\ reply[d].revision # NoRevision
       /\ reply[d].saved => Logged(mem[d].sending)

\* There is something to choose for as long as the user is choosing.
Choosing(d) ==
  /\ InConflict(mem[d]) => Pending(mem[d])
  /\ asked[d].waiting => pc[d] = "idle" /\ InConflict(mem[d])
  /\ asked[d].revision # NoRevision => asked[d].waiting

\* A device with nothing to send has nothing on disk that the server has not
\* had; a snapshot being read is the one on disk unless a newer position waits.
Settled(d) ==
  /\ pc[d] = "idle" /\ ~Pending(mem[d]) => kept[d] = NoPosition \/ Reached(kept[d])
  /\ pc[d] = "restoring" /\ ~Queued(mem[d]) => loaded[d] = disk[d]

\* NothingForgotten, for one device.
Safe(d) ==
  kept[d] # NoPosition =>
    (Pending(disk[d]) /\ Local(disk[d]) = kept[d]) \/ Reached(kept[d])

Device(d) == Informed(d) /\ Awaiting(d) /\ Choosing(d) /\ Settled(d) /\ Safe(d)

SyncInv == TypeOK /\ Chain /\ Receipted /\ OneRequest /\ \A d \in Devices : Device(d)

-----------------------------------------------------------------------------
(* What a writer holds *)

\* The fields of a request.
LEMMA RequestFields ==
  ASSUME NEW q \in Requests \cup {NoRequest}
  PROVE  /\ q.op \in Nat /\ q.expected \in Nat /\ q.position \in Nat
         /\ q.op = NoOp <=> q = NoRequest
         /\ q # NoRequest => q \in Requests /\ q.position # NoPosition
  BY DEF Requests, NoRequest, NoOp, NoPosition, Elsewhere

\* The fields of what a writer holds.
LEMMA WriterFields ==
  ASSUME NEW w \in Writers
  PROVE  /\ w.base \in Nat /\ w.queued \in Nat /\ w.known \in Nat
         /\ w.sending \in Requests \cup {NoRequest}
         /\ w.conflict \in Nat \cup {NoRevision}
         /\ w = [base |-> w.base, sending |-> w.sending, queued |-> w.queued,
                 conflict |-> w.conflict, known |-> w.known]
  BY DEF Writers

\* ... and the local position is one as long as anything is pending.
LEMMA LocalPosition ==
  ASSUME NEW w \in Writers
  PROVE  /\ Local(w) \in Nat
         /\ Pending(w) => Local(w) # NoPosition
         /\ Sending(w) <=> w.sending # NoRequest
  BY WriterFields, RequestFields DEF Local, Pending, Queued, Sending, NoPosition

\* A writer that has just been opened knows one revision and nothing else.
LEMMA OpenedWriter ==
  ASSUME NEW r \in Nat
  PROVE  /\ Opened(r) \in Writers
         /\ ~Pending(Opened(r)) /\ ~InConflict(Opened(r)) /\ ~Queued(Opened(r))
         /\ Opened(r).sending = NoRequest
         /\ \A n \in Nat : r <= n => Within(Opened(r), n)
  BY DEF Opened, Writers, NoRequest, NoPosition, NoRevision, Pending, Sending, Queued,
         InConflict, Within, NoOp

\* What a snapshot of w has in common with w.
LEMMA SnapshotOf ==
  ASSUME NEW w \in Writers
  PROVE  /\ Snapshot(w) \in Writers
         /\ Snapshot(w).sending \in {w.sending, NoRequest}
         /\ \A n \in Nat : Within(w, n) => Within(Snapshot(w), n)
         /\ Pending(Snapshot(w)) <=> Pending(w)
         /\ Pending(w) => Snapshot(w) = w
  BY OpenedWriter, WriterFields DEF Snapshot, Within

\* Within a revision is within a later one.
LEMMA WithinLater ==
  ASSUME NEW w \in Writers, NEW m \in Nat, NEW n \in Nat, m <= n, Within(w, m)
  PROVE  Within(w, n)
  BY WriterFields, RequestFields DEF Within, NoRevision

\* The larger of two revisions.
LEMMA LargerOf ==
  ASSUME NEW a \in Nat \cup {NoRevision}, NEW b \in Nat \cup {NoRevision}
  PROVE  /\ Larger(a, b) \in {a, b} /\ a <= Larger(a, b) /\ b <= Larger(a, b)
         /\ a \in Nat \/ b \in Nat => Larger(a, b) \in Nat
  BY DEF Larger, NoRevision

\* _restore: the revisions are the newest ones known, nothing that was pending
\* is dropped, and the request is the one of the snapshot or of the reader.
LEMMA RestoredWriter ==
  ASSUME NEW w \in Writers, NEW saved \in Writers
  PROVE  LET new == Restored(w, saved)
         IN  /\ new \in Writers
             /\ new.sending \in {w.sending, saved.sending}
             /\ \A n \in Nat : Within(w, n) /\ Within(saved, n) => Within(new, n)
             /\ Pending(new) <=> Pending(saved) \/ Pending(w)
             /\ InConflict(new) => Pending(new) \/ InConflict(w)
<1> DEFINE known  == Larger(w.known, saved.known)
           queued == IF Queued(w) THEN w.queued ELSE saved.queued
           stale  == InConflict(saved) \/ (~Sending(saved) /\ queued # NoPosition /\ known > saved.base)
           conflict == IF stale THEN Larger(known, saved.conflict) ELSE NoRevision
           new == Restored(w, saved)
<1>1. /\ w.base \in Nat /\ w.queued \in Nat /\ w.known \in Nat
      /\ w.sending \in Requests \cup {NoRequest} /\ w.conflict \in Nat \cup {NoRevision}
      /\ saved.base \in Nat /\ saved.queued \in Nat /\ saved.known \in Nat
      /\ saved.sending \in Requests \cup {NoRequest} /\ saved.conflict \in Nat \cup {NoRevision}
  BY WriterFields
<1>2. /\ known \in Nat /\ queued \in Nat
      /\ \A n \in Nat : w.known <= n /\ saved.known <= n => known <= n
  BY <1>1, LargerOf DEF Queued
<1>3. /\ conflict \in Nat \cup {NoRevision}
      /\ \A n \in Nat : known <= n /\ saved.conflict <= n => conflict <= n
  <2> HIDE DEF known
  <2>1. /\ Larger(known, saved.conflict) \in Nat
        /\ Larger(known, saved.conflict) \in {known, saved.conflict}
    BY <1>1, <1>2, LargerOf
  <2>2. conflict \in {Larger(known, saved.conflict), NoRevision}
    OBVIOUS
  <2> HIDE DEF conflict
  <2> QED
    BY <2>1, <2>2 DEF NoRevision
<1>4. CASE Pending(saved)
  <2>1. new = [base |-> saved.base, sending |-> saved.sending, queued |-> queued,
               conflict |-> conflict, known |-> known]
    BY <1>4, Zenon DEF Restored
  <2>2. new \in Writers
    BY <1>1, <1>2, <1>3, <2>1 DEF Writers
  <2>3. Pending(new)
    BY <1>1, <1>4, <2>1 DEF Pending, Sending, Queued, NoPosition
  <2>4. \A n \in Nat : Within(w, n) /\ Within(saved, n) => Within(new, n)
    BY <1>2, <1>3, <2>1 DEF Within
  <2> QED
    BY <1>4, <2>1, <2>2, <2>3, <2>4
<1>5. CASE ~Pending(saved)
  <2>1. new = [w EXCEPT !.base = known, !.known = known]
    BY <1>5, Zenon DEF Restored
  <2>2. new = [base |-> known, sending |-> w.sending, queued |-> w.queued,
               conflict |-> w.conflict, known |-> known]
    BY <2>1, WriterFields
  <2>3. new \in Writers
    BY <1>1, <1>2, <2>2 DEF Writers
  <2>4. Pending(new) <=> Pending(w)
    BY <2>2 DEF Pending, Sending, Queued
  <2>5. InConflict(new) <=> InConflict(w)
    BY <2>2 DEF InConflict
  <2>6. \A n \in Nat : Within(w, n) /\ Within(saved, n) => Within(new, n)
    BY <1>2, <2>2 DEF Within
  <2> QED
    BY <1>5, <2>2, <2>3, <2>4, <2>5, <2>6
<1> QED
  BY <1>4, <1>5

\* _drain: the operation that goes out carries the local position, under the
\* identifier it had before or a new one, and names the base revision.
LEMMA OutgoingWriter ==
  ASSUME NEW w \in Writers, Pending(w), ops \in Nat
  PROVE  LET new == Outgoing(w)
         IN  /\ new \in Writers /\ Sending(new) /\ new.sending \in Requests
             /\ new.conflict = w.conflict
             /\ \A n \in Nat : Within(w, n) => Within(new, n)
             /\ ~Queued(new) => Local(new) = new.sending.position
             /\ Sending(w) => new = w
             /\ ~Sending(w) => new.sending.op = ops + 1
<1>1. CASE Sending(w)
  BY <1>1, WriterFields, RequestFields DEF Outgoing, Sending, Queued, Local
<1>2. CASE ~Sending(w)
  <2> DEFINE q == [op |-> ops + 1, expected |-> w.base, position |-> w.queued]
             new == Outgoing(w)
  <2>1. /\ w.base \in Nat /\ w.queued \in Nat \ {0} /\ w.known \in Nat
        /\ w.conflict \in Nat \cup {NoRevision}
    BY <1>2, WriterFields DEF Pending, Queued, NoPosition
  <2>2. q \in Requests
    BY <2>1 DEF Requests, Elsewhere
  <2>3. new = [w EXCEPT !.sending = q, !.queued = NoPosition]
    BY <1>2, Zenon DEF Outgoing
  <2>4. new = [base |-> w.base, sending |-> q, queued |-> NoPosition,
               conflict |-> w.conflict, known |-> w.known]
    BY <2>3, WriterFields
  <2>5. new \in Writers
    BY <2>1, <2>2, <2>4 DEF Writers, NoPosition
  <2>6. Sending(new) /\ ~Queued(new) /\ Local(new) = new.sending.position
    BY <2>4 DEF Sending, Queued, Local, NoOp
  <2>7. \A n \in Nat : Within(w, n) => Within(new, n)
    BY <2>4 DEF Within
  <2> QED
    BY <1>2, <2>2, <2>4, <2>5, <2>6, <2>7
<1> QED
  BY <1>1, <1>2

\* _drain, confirmed: nothing is being sent any more, no revision is lowered,
\* and the user has to choose only about a position that is kept.
LEMMA ConfirmedWriter ==
  ASSUME NEW w \in Writers, Sending(w), ~InConflict(w), NEW r \in Nat
  PROVE  LET new == Confirmed(w, r)
         IN  /\ new \in Writers /\ new.sending = NoRequest
             /\ new.known >= w.known
             /\ \A n \in Nat : Within(w, n) /\ r <= n => Within(new, n)
             /\ InConflict(new) => Pending(new)
             /\ ~Pending(new) => ~Queued(w)
<1> DEFINE new == Confirmed(w, r)
           base == Larger(w.base, r)
<1>1. /\ w.base \in Nat /\ w.queued \in Nat /\ w.known \in Nat
      /\ w.conflict = NoRevision /\ NoRequest.expected = 0
      /\ base \in Nat /\ \A n \in Nat : w.base <= n /\ r <= n => base <= n
  BY WriterFields, LargerOf DEF InConflict, NoRequest
<1>2. CASE w.known > r
  <2>1. new = [w EXCEPT !.base = base, !.sending = NoRequest,
                        !.queued = Local(w), !.conflict = w.known]
    BY <1>2, Zenon DEF Confirmed
  <2>2. new = [base |-> base, sending |-> NoRequest, queued |-> Local(w),
               conflict |-> w.known, known |-> w.known]
    BY <2>1, WriterFields
  <2>3. Local(w) \in Nat /\ Local(w) # NoPosition
    BY LocalPosition DEF Pending
  <2>4. new \in Writers
    BY <1>1, <2>2, <2>3 DEF Writers
  <2>5. Pending(new)
    BY <2>2, <2>3 DEF Pending, Queued
  <2>6. \A n \in Nat : Within(w, n) /\ r <= n => Within(new, n)
    BY <1>1, <2>2 DEF Within
  <2> QED
    BY <1>1, <2>2, <2>4, <2>5, <2>6
<1>3. CASE ~(w.known > r)
  <2>1. new = [w EXCEPT !.base = base, !.sending = NoRequest, !.known = r]
    BY <1>3, Zenon DEF Confirmed
  <2>2. new = [base |-> base, sending |-> NoRequest, queued |-> w.queued,
               conflict |-> w.conflict, known |-> r]
    BY <2>1, WriterFields
  <2>3. new \in Writers
    BY <1>1, <2>2 DEF Writers
  <2>4. ~InConflict(new) /\ (~Pending(new) => ~Queued(w))
    BY <1>1, <2>2 DEF InConflict, Pending, Queued
  <2>5. \A n \in Nat : Within(w, n) /\ r <= n => Within(new, n)
    BY <1>1, <2>2 DEF Within, NoRevision
  <2> QED
    BY <1>1, <1>3, <2>2, <2>3, <2>4, <2>5
<1> QED
  BY <1>2, <1>3

\* _drain, refused: what is pending stays so.
LEMMA RefusedWriter ==
  ASSUME NEW w \in Writers, NEW r \in Nat
  PROVE  LET new == Refused(w, r)
         IN  /\ new \in Writers /\ new.sending = w.sending
             /\ new.known >= w.known
             /\ \A n \in Nat : Within(w, n) /\ r <= n => Within(new, n)
             /\ Pending(new) <=> Pending(w)
             /\ Local(new) = Local(w)
<1> DEFINE new == Refused(w, r)
           known == Larger(w.known, r)
<1>1. /\ w.base \in Nat /\ w.queued \in Nat /\ w.known \in Nat
      /\ w.sending \in Requests \cup {NoRequest}
      /\ known \in Nat /\ w.known <= known
      /\ \A n \in Nat : w.known <= n /\ r <= n => known <= n
  BY WriterFields, LargerOf
<1>2. new = [w EXCEPT !.known = known, !.conflict = known]
  BY Zenon DEF Refused
<1>3. new = [base |-> w.base, sending |-> w.sending, queued |-> w.queued,
             conflict |-> known, known |-> known]
  <2>1. w = [base |-> w.base, sending |-> w.sending, queued |-> w.queued,
             conflict |-> w.conflict, known |-> w.known]
    BY WriterFields
  <2> HIDE DEF known, new
  <2> QED
    BY <1>2, <2>1
<1>4. new \in Writers
  BY <1>1, <1>3 DEF Writers
<1>5. (Pending(new) <=> Pending(w)) /\ Local(new) = Local(w)
  BY <1>3 DEF Pending, Sending, Queued, Local
<1>6. \A n \in Nat : Within(w, n) /\ r <= n => Within(new, n)
  BY <1>1, <1>3 DEF Within
<1> QED
  BY <1>1, <1>3, <1>4, <1>5, <1>6

\* keepLocal: the local position waits to go out on the revision shown.
LEMMA KeptWriter ==
  ASSUME NEW w \in Writers, InConflict(w), Pending(w)
  PROVE  LET new == [w EXCEPT !.queued = Local(w), !.sending = NoRequest,
                              !.base = w.conflict, !.conflict = NoRevision]
         IN  /\ new \in Writers /\ Pending(new) /\ ~InConflict(new)
             /\ new.sending = NoRequest
             /\ \A n \in Nat : Within(w, n) => Within(new, n)
<1> DEFINE new == [w EXCEPT !.queued = Local(w), !.sending = NoRequest,
                            !.base = w.conflict, !.conflict = NoRevision]
<1>1. w.conflict \in Nat /\ w.known \in Nat /\ Local(w) \in Nat /\ Local(w) # NoPosition
  BY WriterFields, LocalPosition DEF InConflict
<1>2. new \in Writers
  BY <1>1 DEF Writers
<1>3. /\ new.base = w.conflict /\ new.sending = NoRequest /\ new.queued = Local(w)
      /\ new.conflict = NoRevision /\ new.known = w.known
  BY DEF Writers
<1> HIDE DEF new
<1>4. Pending(new) /\ ~InConflict(new)
  BY <1>1, <1>3 DEF Pending, Queued, InConflict
<1>5. \A n \in Nat : Within(w, n) => Within(new, n)
  BY <1>3 DEF Within, NoRevision, NoRequest
<1> QED
  BY <1>2, <1>3, <1>4, <1>5 DEF new

-----------------------------------------------------------------------------
(* What a step of one device leaves alone *)

\* The types of what belongs to one device.
LEMMA DeviceTypes ==
  ASSUME TypeOK, NEW d \in Devices
  PROVE  /\ mem[d] \in Writers /\ disk[d] \in Writers /\ loaded[d] \in Writers
         /\ pc[d] \in {"restoring", "idle", "waiting"}
         /\ asked[d].revision \in Nat \cup {NoRevision} /\ asked[d].waiting \in BOOLEAN
         /\ wire[d] \subseteq Requests
         /\ reply[d].revision \in Nat \cup {NoRevision} /\ reply[d].saved \in BOOLEAN
         /\ seen[d] \in Nat /\ kept[d] \in Nat /\ ops \in Nat
         /\ Revision \in Nat
<1>1. log \in Seq(Entries)
  BY DEF TypeOK
<1>2. ops \in Nat
  BY SyncAssumption DEF TypeOK
<1> QED
  BY <1>1, <1>2, LenProperties DEF TypeOK, Revision

\* The device does nothing.
Rests(e) ==
  /\ mem'[e] = mem[e] /\ disk'[e] = disk[e] /\ loaded'[e] = loaded[e] /\ pc'[e] = pc[e]
  /\ asked'[e] = asked[e] /\ wire'[e] = wire[e]
  /\ seen'[e] = seen[e] /\ kept'[e] = kept[e]

\* An answer to the request it waits for is on its way.
IsAnswered(e) ==
  /\ pc[e] = "waiting" /\ reply'[e].revision \in Nat /\ reply'[e].revision <= Revision'
  /\ reply'[e].saved => Logged(mem[e].sending)'

OnlyAt(d) == \A e \in Devices \ {d} : Rests(e) /\ reply'[e] = reply[e]

\* The log keeps its entries.
LogGrows == Revision <= Revision' /\ \A i \in 1..Revision : log'[i] = log[i]

\* What the server has had it still has had.
LEMMA ReachedStays ==
  ASSUME TypeOK, TypeOK', LogGrows
  PROVE  /\ \A p : Reached(p) => Reached(p)'
         /\ \A q : Logged(q) => Logged(q)'
<1>1. log \in Seq(Entries) /\ log' \in Seq(Entries)
  BY DEF TypeOK
<1>2. Revision \in Nat /\ Revision' \in Nat
  BY <1>1, LenProperties DEF Revision
<1> QED
  BY <1>2 DEF Reached, Logged, LogGrows

\* A device that takes no part in a step stays as it should be.
LEMMA Bystander ==
  ASSUME TypeOK, TypeOK', LogGrows, ops <= ops', NEW e \in Devices, Device(e),
         Rests(e), reply'[e] = reply[e] \/ IsAnswered(e)
  PROVE  Device(e)' /\ Held(e)' = Held(e)
<1>1. /\ mem'[e] = mem[e] /\ disk'[e] = disk[e] /\ loaded'[e] = loaded[e] /\ pc'[e] = pc[e]
      /\ asked'[e] = asked[e] /\ wire'[e] = wire[e]
      /\ seen'[e] = seen[e] /\ kept'[e] = kept[e]
  BY DEF Rests
<1>2. Held(e)' = Held(e)
  BY <1>1 DEF Held
<1>3. /\ seen[e] \in Nat /\ Revision \in Nat /\ Revision' \in Nat /\ Revision <= Revision'
      /\ reply[e].revision \in Nat \cup {NoRevision} /\ asked[e].revision \in Nat \cup {NoRevision}
      /\ ops \in Nat /\ ops' \in Nat
  <2>1. log \in Seq(Entries) /\ log' \in Seq(Entries) /\ ops' \in Nat
    BY SyncAssumption DEF TypeOK
  <2> QED
    BY <2>1, DeviceTypes, LenProperties DEF LogGrows, Revision
<1>4. \A q \in Held(e) : q.op \in Nat
  BY DeviceTypes, WriterFields, RequestFields DEF Held
<1>5. Informed(e)'
  <2>1. \A q \in Held(e) : q.op <= ops' /\ q.expected <= seen[e]
    BY <1>3, <1>4 DEF Device, Informed
  <2>2. /\ seen[e] <= Revision' /\ reply'[e].revision <= Revision' /\ asked[e].revision <= Revision'
        /\ Within(mem[e], seen[e]) /\ Within(disk[e], seen[e]) /\ Within(loaded[e], seen[e])
    BY <1>3 DEF Device, Informed, NoRevision, IsAnswered
  <2> QED
    BY <1>1, <1>2, <2>1, <2>2 DEF Informed, Within
<1>6. Awaiting(e)' /\ Choosing(e)' /\ Settled(e)' /\ Safe(e)'
  <2>1. Awaiting(e) /\ Choosing(e) /\ Settled(e) /\ Safe(e)
    BY DEF Device
  <2>2. (\A p : Reached(p) => Reached(p)') /\ (\A q : Logged(q) => Logged(q)')
    BY ReachedStays
  <2>3. Awaiting(e)'
    <3>1. CASE reply'[e] = reply[e]
      BY <1>1, <2>1, <2>2, <3>1 DEF Awaiting, Sending, Queued, InConflict
    <3>2. CASE IsAnswered(e)
      BY <1>1, <2>1, <2>2, <3>2 DEF Awaiting, IsAnswered, Sending, Queued, InConflict, NoRevision
    <3> QED
      BY <3>1, <3>2
  <2>4. Choosing(e)'
    BY <1>1, <2>1, <2>2 DEF Choosing, Pending, Sending, Queued, InConflict
  <2>5. Settled(e)' /\ Safe(e)'
    BY <1>1, <2>1, <2>2 DEF Settled, Safe, Pending, Sending, Queued, Local
  <2> QED
    BY <2>3, <2>4, <2>5
<1> QED
  BY <1>2, <1>5, <1>6 DEF Device

\* What there is to show for a step of one device that is not one of the
\* server: its own part, and that a request it now holds is one it held before
\* or the only one under a new identifier.
LEMMA DeviceStep ==
  ASSUME SyncInv, NEW d \in Devices, UNCHANGED serverVars, OnlyAt(d), TypeOK', Device(d)',
         wire[d] \subseteq wire'[d], ops <= ops',
         \A q \in Held(d)' \ Held(d) : q.op > ops,
         \A q, r \in Held(d)' \ Held(d) : q = r
  PROVE  SyncInv'
<1>1. TypeOK /\ LogGrows
  <2>1. log' = log /\ Revision' = Revision
    BY DEF serverVars, Revision
  <2>2. TypeOK
    BY DEF SyncInv
  <2>3. Revision \in Nat
    BY <2>2, DeviceTypes
  <2> QED
    BY <2>1, <2>2, <2>3 DEF LogGrows
<1>2. \A e \in Devices : Device(e)'
  BY <1>1, Bystander DEF SyncInv, OnlyAt
<1>3. \A e \in Devices \ {d} : Held(e)' = Held(e)
  BY <1>1, Bystander DEF SyncInv, OnlyAt
<1>4. OneRequest'
  <2>1. \A e \in Devices : \A q \in Held(e) : q.op \in Nat /\ q.op <= ops
    <3>1. ASSUME NEW e \in Devices, NEW q \in Held(e) PROVE q.op \in Nat /\ q.op <= ops
      <4>1. q \in Requests \cup {NoRequest}
        BY <1>1, <3>1, DeviceTypes, WriterFields DEF Held
      <4> QED
        BY <3>1, <4>1, RequestFields DEF SyncInv, Device, Informed
    <3> QED
      BY <3>1
  <2>2. ops \in Nat
    BY <1>1, DeviceTypes
  <2>3. ASSUME NEW e \in Devices, NEW f \in Devices, NEW q \in Held(e)', NEW r \in Held(f)', q.op = r.op
        PROVE  q = r
    <3>1. (q \in Held(e) \/ (e = d /\ q \in Held(d)' \ Held(d)))
          /\ (r \in Held(f) \/ (f = d /\ r \in Held(d)' \ Held(d)))
      BY <1>3, <2>3
    <3>2. CASE q \in Held(e) /\ r \in Held(f)
      BY <2>3, <3>2 DEF SyncInv, OneRequest
    <3>3. CASE q \in Held(e) /\ r \in Held(d)' \ Held(d)
      BY <2>1, <2>2, <2>3, <3>3
    <3>4. CASE q \in Held(d)' \ Held(d) /\ r \in Held(f)
      BY <2>1, <2>2, <2>3, <3>4
    <3>5. CASE q \in Held(d)' \ Held(d) /\ r \in Held(d)' \ Held(d)
      BY <3>5
    <3> QED
      BY <3>1, <3>2, <3>3, <3>4, <3>5
  <2> QED
    BY <2>3 DEF OneRequest
<1>5. Chain'
  <2>1. \A e \in Devices : wire[e] \subseteq wire'[e]
    BY DEF OnlyAt, Rests
  <2>2. log' = log /\ Chain
    BY DEF SyncInv, serverVars
  <2> QED
    BY <2>1, <2>2 DEF Chain, Revision
<1>6. Receipted'
  BY DEF SyncInv, Receipted, Logged, Revision, serverVars
<1> QED
  BY <1>2, <1>4, <1>5, <1>6 DEF SyncInv

\* Writing a snapshot: what is on disk afterwards, and that nothing that should
\* be on disk is lost, if w is pending or there was nothing to lose.
LEMMA Storing ==
  ASSUME TypeOK, NEW d \in Devices, Safe(d), NEW w \in Writers,
         Stores(d, w) \/ UNCHANGED <<disk, kept>>, UNCHANGED log,
         Pending(w) \/ kept[d] = NoPosition \/ Reached(kept[d])
  PROVE  /\ disk' \in [Devices -> Writers] /\ kept' \in [Devices -> Nat]
         /\ \A e \in Devices \ {d} : disk'[e] = disk[e] /\ kept'[e] = kept[e]
         /\ disk'[d].sending \in {disk[d].sending, w.sending, NoRequest}
         /\ \A n \in Nat : Within(w, n) /\ Within(disk[d], n) => Within(disk'[d], n)
         /\ Safe(d)'
         /\ ~Pending(w) => kept' = kept
<1>1. /\ disk \in [Devices -> Writers] /\ kept \in [Devices -> Nat]
  BY DEF TypeOK
<1>2. /\ Snapshot(w) \in Writers
      /\ Snapshot(w).sending \in {w.sending, NoRequest}
      /\ \A n \in Nat : Within(w, n) => Within(Snapshot(w), n)
      /\ Pending(Snapshot(w)) <=> Pending(w)
      /\ Pending(w) => Snapshot(w) = w
  BY SnapshotOf
<1>3. Local(w) \in Nat
  BY LocalPosition
<1>4. \A p : Reached(p)' <=> Reached(p)
  BY DEF Reached, Revision
<1>5. CASE Stores(d, w)
  <2>1. disk' = [disk EXCEPT ![d] = Snapshot(w)]
    BY <1>5 DEF Stores
  <2>2. kept' = [kept EXCEPT ![d] = IF Pending(w) THEN Local(w) ELSE kept[d]]
    BY <1>5 DEF Stores
  <2>3. disk'[d] = Snapshot(w) /\ kept'[d] = IF Pending(w) THEN Local(w) ELSE kept[d]
    BY <1>1, <2>1, <2>2
  <2>4. Safe(d)'
    <3>1. CASE Pending(w)
      BY <1>2, <2>3, <3>1 DEF Safe
    <3>2. CASE ~Pending(w)
      BY <1>4, <2>3, <3>2 DEF Safe
    <3> QED
      BY <3>1, <3>2
  <2>5. disk' \in [Devices -> Writers] /\ kept' \in [Devices -> Nat]
    BY <1>1, <1>2, <1>3, <2>1, <2>2
  <2>6. ~Pending(w) => kept' = kept
    BY <1>1, <2>2
  <2> QED
    BY <1>1, <1>2, <2>1, <2>2, <2>3, <2>4, <2>5, <2>6
<1>6. CASE UNCHANGED <<disk, kept>>
  BY <1>1, <1>4, <1>6 DEF Safe
<1> QED
  BY <1>5, <1>6

\* _persist, which may fail.
LEMMA Persisting ==
  ASSUME TypeOK, NEW d, NEW w, Persists(d, w)
  PROVE  /\ Stores(d, w) \/ UNCHANGED <<disk, kept>>
         /\ faults' \in 0..MaxFaults
  BY SyncAssumption DEF Persists, Written, NotWritten, TypeOK

-----------------------------------------------------------------------------
(* The steps of a device *)

\* Opening a reader.
LEMMA ReopenStep ==
  ASSUME SyncInv, NEW d \in Devices, Reopen(d)
  PROVE  SyncInv'
<1>1. TypeOK /\ Device(d)
  BY DEF SyncInv
<1>2. PICK r \in 0..Revision : Holds(d, Opened(r)) /\ Sees(d, r)
  BY DEF Reopen
<1>3. /\ Revision \in Nat /\ r \in Nat /\ r <= Revision /\ seen[d] \in Nat /\ disk[d] \in Writers
  BY <1>1, <1>2, DeviceTypes
<1>4. /\ mem' = [mem EXCEPT ![d] = Opened(r)]
      /\ seen' = [seen EXCEPT ![d] = Larger(seen[d], r)]
      /\ pc' = [pc EXCEPT ![d] = "restoring"]
      /\ loaded' = [loaded EXCEPT ![d] = disk[d]]
      /\ asked' = [asked EXCEPT ![d] = NotAsked]
      /\ reply' = [reply EXCEPT ![d] = NoReply]
      /\ UNCHANGED <<serverVars, disk, wire, saves, ops, foreign, faults, kept>>
      /\ restarts < MaxRestarts /\ restarts' = restarts + 1
  BY <1>2 DEF Reopen, Holds, Sees, At, Receives
<1>5. /\ Larger(seen[d], r) \in Nat /\ Larger(seen[d], r) <= Revision
      /\ seen[d] <= Larger(seen[d], r) /\ r <= Larger(seen[d], r)
  BY <1>1, <1>3, LargerOf DEF Device, Informed
<1>6. /\ mem'[d] = Opened(r) /\ seen'[d] = Larger(seen[d], r) /\ pc'[d] = "restoring"
      /\ loaded'[d] = disk[d] /\ asked'[d] = NotAsked /\ reply'[d] = NoReply
      /\ disk'[d] = disk[d] /\ wire'[d] = wire[d] /\ kept'[d] = kept[d]
      /\ OnlyAt(d)
  BY <1>1, <1>4 DEF TypeOK, OnlyAt, Rests
<1>7. TypeOK'
  <2>1. NotAsked \in [revision : Nat \cup {NoRevision}, waiting : BOOLEAN, newer : BOOLEAN]
        /\ NoReply \in [saved : BOOLEAN, revision : Nat \cup {NoRevision}]
    BY DEF NotAsked, NoReply
  <2>2. restarts' \in 0..MaxRestarts
    BY <1>1, <1>4, SyncAssumption DEF TypeOK
  <2> QED
    BY <1>1, <1>3, <1>4, <1>5, <2>1, <2>2, OpenedWriter DEF TypeOK, serverVars
<1>8. Held(d)' \subseteq Held(d)
  BY <1>3, <1>6, OpenedWriter DEF Held
<1>9. Device(d)'
  <2>1. Revision' = Revision /\ ops' = ops /\ log' = log
    BY <1>4 DEF serverVars, Revision
  <2>2. \A q \in Held(d) : q.expected \in Nat
    BY <1>1, DeviceTypes, WriterFields, RequestFields DEF Held
  <2>3. Informed(d)'
    <3>1. Within(Opened(r), seen'[d])
      BY <1>3, <1>5, <1>6, OpenedWriter
    <3>2. Within(disk[d], seen'[d])
      BY <1>1, <1>3, <1>5, <1>6, WithinLater DEF Device, Informed
    <3>3. \A q \in Held(d)' : q.op <= ops /\ q.expected <= seen'[d]
      BY <1>1, <1>3, <1>5, <1>6, <1>8, <2>2 DEF Device, Informed
    <3>4. NoRevision <= Revision
      BY <1>3 DEF NoRevision
    <3> QED
      BY <1>5, <1>6, <2>1, <3>1, <3>2, <3>3, <3>4 DEF Informed, NotAsked, NoReply, Within
  <2>4. Awaiting(d)' /\ Choosing(d)'
    BY <1>3, <1>6, OpenedWriter DEF Awaiting, Choosing, NotAsked, InConflict
  <2>5. Settled(d)' /\ Safe(d)'
    BY <1>1, <1>6, <2>1 DEF Device, Settled, Safe, Pending, Sending, Queued, Local, Reached, Revision
  <2> QED
    BY <2>3, <2>4, <2>5 DEF Device
<1> QED
  BY <1>1, <1>4, <1>6, <1>7, <1>8, <1>9, DeviceStep, DeviceTypes

\* What the snapshot is put together with.
LEMMA RestoreStep ==
  ASSUME SyncInv, NEW d \in Devices, Restore(d)
  PROVE  SyncInv'
<1> DEFINE w == Restored(mem[d], loaded[d])
<1>1. TypeOK /\ Device(d)
  BY DEF SyncInv
<1>2. /\ mem[d] \in Writers /\ loaded[d] \in Writers /\ disk[d] \in Writers
      /\ seen[d] \in Nat /\ Opened(0) \in Writers
  BY <1>1, DeviceTypes, OpenedWriter
<1>3. /\ w \in Writers
      /\ w.sending \in {mem[d].sending, loaded[d].sending}
      /\ \A n \in Nat : Within(mem[d], n) /\ Within(loaded[d], n) => Within(w, n)
      /\ Pending(w) <=> Pending(loaded[d]) \/ Pending(mem[d])
      /\ InConflict(w) => Pending(w) \/ InConflict(mem[d])
  BY <1>2, RestoredWriter
<1> HIDE DEF w
<1>4. /\ pc[d] = "restoring"
      /\ mem' = [mem EXCEPT ![d] = w]
      /\ pc' = [pc EXCEPT ![d] = "idle"]
      /\ loaded' = [loaded EXCEPT ![d] = Opened(0)]
      /\ UNCHANGED <<serverVars, asked, network, saves, ops, foreign, restarts, seen>>
      /\ IF Queued(mem[d]) THEN Persists(d, w) ELSE UNCHANGED <<disk, kept, faults>>
  BY DEF Restore, Holds, At, w
<1>5. /\ Stores(d, w) \/ UNCHANGED <<disk, kept>>
      /\ faults' \in 0..MaxFaults
      /\ ~Queued(mem[d]) => UNCHANGED <<disk, kept>>
  BY <1>1, <1>4, Persisting DEF TypeOK
<1>6. /\ disk' \in [Devices -> Writers] /\ kept' \in [Devices -> Nat]
      /\ \A e \in Devices \ {d} : disk'[e] = disk[e] /\ kept'[e] = kept[e]
      /\ disk'[d].sending \in {disk[d].sending, w.sending, NoRequest}
      /\ \A n \in Nat : Within(w, n) /\ Within(disk[d], n) => Within(disk'[d], n)
      /\ Safe(d)'
  <2>1. CASE Queued(mem[d])
    <3>1. Pending(w) /\ UNCHANGED log
      BY <1>3, <1>4, <2>1 DEF Pending, serverVars
    <3> QED
      BY <1>1, <1>3, <1>5, <3>1, Storing DEF Device
  <2>2. CASE ~Queued(mem[d])
    BY <1>1, <1>4, <1>5, <2>2 DEF TypeOK, Device, Safe, Reached, Revision, serverVars
  <2> QED
    BY <2>1, <2>2
<1>7. /\ mem'[d] = w /\ pc'[d] = "idle" /\ loaded'[d] = Opened(0)
      /\ seen' = seen /\ wire' = wire /\ reply' = reply /\ asked' = asked /\ ops' = ops /\ log' = log
      /\ OnlyAt(d)
  BY <1>1, <1>4, <1>6 DEF TypeOK, OnlyAt, Rests, network, serverVars
<1>8. TypeOK'
  BY <1>1, <1>2, <1>3, <1>4, <1>5, <1>6 DEF TypeOK, serverVars, network
<1>9. Held(d)' \subseteq Held(d)
  BY <1>2, <1>3, <1>6, <1>7, OpenedWriter DEF Held
<1>10. Device(d)'
  <2>1. Informed(d)'
    <3>1. Within(w, seen[d]) /\ Within(disk'[d], seen[d]) /\ Within(Opened(0), seen[d])
      BY <1>1, <1>2, <1>3, <1>6, OpenedWriter DEF Device, Informed
    <3> QED
      BY <1>1, <1>7, <1>9, <3>1 DEF Device, Informed, Within, Revision
  <2>2. Awaiting(d)' /\ Choosing(d)'
    BY <1>1, <1>3, <1>4, <1>7 DEF Device, Awaiting, Choosing
  <2>3. Settled(d)'
    <3>1. ASSUME ~Pending(w) PROVE kept'[d] = NoPosition \/ Reached(kept[d])'
      <4>1. ~Pending(loaded[d]) /\ ~Queued(mem[d])
        BY <1>3, <3>1 DEF Pending
      <4>2. disk[d] = loaded[d] /\ kept'[d] = kept[d]
        BY <1>1, <1>4, <1>5, <4>1 DEF Device, Settled
      <4> QED
        BY <1>1, <1>7, <4>1, <4>2 DEF Device, Safe, Reached, Revision
    <3> QED
      BY <1>7, <3>1 DEF Settled, Pending, Sending, Queued
  <2> QED
    BY <1>6, <2>1, <2>2, <2>3 DEF Device
<1> QED
  BY <1>1, <1>4, <1>7, <1>8, <1>9, <1>10, DeviceStep, DeviceTypes

\* ... or cannot be, and is read again.
LEMMA RestoreFailsStep ==
  ASSUME SyncInv, NEW d \in Devices, RestoreFails(d)
  PROVE  SyncInv'
<1>1. TypeOK /\ Device(d)
  BY DEF SyncInv
<1>2. /\ pc[d] = "restoring"
      /\ faults < MaxFaults /\ faults' = faults + 1
      /\ loaded' = [loaded EXCEPT ![d] = disk[d]]
      /\ UNCHANGED <<serverVars, mem, disk, pc, asked, network, saves, ops, foreign, restarts, seen, kept>>
  BY DEF RestoreFails
<1>3. /\ loaded'[d] = disk[d] /\ OnlyAt(d)
      /\ mem' = mem /\ disk' = disk /\ pc' = pc /\ asked' = asked /\ wire' = wire /\ reply' = reply
      /\ ops' = ops /\ seen' = seen /\ kept' = kept /\ log' = log
  BY <1>1, <1>2 DEF TypeOK, OnlyAt, Rests, network, serverVars
<1>4. TypeOK'
  <2>1. faults' \in 0..MaxFaults
    BY <1>1, <1>2, SyncAssumption DEF TypeOK
  <2> QED
    BY <1>1, <1>2, <2>1 DEF TypeOK, serverVars, network
<1>5. Held(d)' \subseteq Held(d)
  BY <1>3 DEF Held
<1>6. Device(d)'
  <2>1. Informed(d)'
    BY <1>1, <1>3, <1>5 DEF Device, Informed, Within, Revision
  <2>2. Awaiting(d)' /\ Choosing(d)'
    BY <1>1, <1>3 DEF Device, Awaiting, Choosing, Sending, Queued, Pending, InConflict, Logged, Revision
  <2>3. Settled(d)' /\ Safe(d)'
    BY <1>1, <1>3 DEF Device, Settled, Safe, Pending, Sending, Queued, Local, Reached, Revision
  <2> QED
    BY <2>1, <2>2, <2>3 DEF Device
<1> QED
  BY <1>1, <1>2, <1>3, <1>4, <1>5, <1>6, DeviceStep, DeviceTypes

\* The reader saves a position.
LEMMA SaveStep ==
  ASSUME SyncInv, NEW d \in Devices, Save(d)
  PROVE  SyncInv'
<1> DEFINE w == [mem[d] EXCEPT !.queued = saves + 1]
<1>1. TypeOK /\ Device(d)
  BY DEF SyncInv
<1>2. /\ mem[d] \in Writers /\ disk[d] \in Writers /\ seen[d] \in Nat /\ saves \in Nat
      /\ saves < MaxSaves => saves + 1 \in 0..MaxSaves
  BY <1>1, DeviceTypes, SyncAssumption DEF TypeOK
<1>3. w = [base |-> mem[d].base, sending |-> mem[d].sending, queued |-> saves + 1,
           conflict |-> mem[d].conflict, known |-> mem[d].known]
  BY <1>2, WriterFields
<1>4. /\ w \in Writers /\ Queued(w) /\ Pending(w)
      /\ w.sending = mem[d].sending /\ w.conflict = mem[d].conflict
      /\ \A n \in Nat : Within(mem[d], n) => Within(w, n)
  <2>1. w \in Writers
    BY <1>2, <1>3, WriterFields DEF Writers
  <2> QED
    BY <1>2, <1>3, <2>1 DEF Queued, Pending, NoPosition, Within
<1> HIDE DEF w
<1>5. /\ saves < MaxSaves /\ saves' = saves + 1
      /\ mem' = [mem EXCEPT ![d] = w]
      /\ asked' = [asked EXCEPT ![d].newer = @ \/ asked[d].waiting]
      /\ UNCHANGED <<serverVars, pc, loaded, network, ops, foreign, restarts, seen>>
      /\ IF pc[d] = "restoring" THEN UNCHANGED <<disk, kept, faults>> ELSE Persists(d, w)
  BY DEF Save, Holds, w
<1>6. /\ Stores(d, w) \/ UNCHANGED <<disk, kept>>
      /\ faults' \in 0..MaxFaults
      /\ UNCHANGED log
  BY <1>1, <1>5, Persisting DEF TypeOK, serverVars
<1>7. /\ disk' \in [Devices -> Writers] /\ kept' \in [Devices -> Nat]
      /\ \A e \in Devices \ {d} : disk'[e] = disk[e] /\ kept'[e] = kept[e]
      /\ disk'[d].sending \in {disk[d].sending, w.sending, NoRequest}
      /\ \A n \in Nat : Within(w, n) /\ Within(disk[d], n) => Within(disk'[d], n)
      /\ Safe(d)'
  BY <1>1, <1>4, <1>6, Storing DEF Device
<1>8. /\ mem'[d] = w /\ pc' = pc /\ loaded' = loaded
      /\ asked'[d].revision = asked[d].revision /\ asked'[d].waiting = asked[d].waiting
      /\ seen' = seen /\ wire' = wire /\ reply' = reply /\ ops' = ops /\ log' = log
      /\ OnlyAt(d)
  BY <1>1, <1>5, <1>7 DEF TypeOK, OnlyAt, Rests, network, serverVars
<1>9. TypeOK'
  <2>1. asked' \in [Devices -> [revision : Nat \cup {NoRevision}, waiting : BOOLEAN, newer : BOOLEAN]]
    <3> DEFINE newer == asked[d].newer \/ asked[d].waiting
    <3>1. newer \in BOOLEAN
      OBVIOUS
    <3>2. asked' = [asked EXCEPT ![d] = [asked[d] EXCEPT !.newer = newer]]
      BY <1>5, Zenon
    <3> HIDE DEF newer
    <3>3. asked \in [Devices -> [revision : Nat \cup {NoRevision}, waiting : BOOLEAN, newer : BOOLEAN]]
      BY <1>1 DEF TypeOK
    <3>4. [asked[d] EXCEPT !.newer = newer]
            \in [revision : Nat \cup {NoRevision}, waiting : BOOLEAN, newer : BOOLEAN]
      BY <3>1, <3>3
    <3> QED
      BY <3>2, <3>3, <3>4
  <2> QED
    BY <1>1, <1>2, <1>4, <1>5, <1>6, <1>7, <2>1 DEF TypeOK, serverVars, network
<1>10. Held(d)' \subseteq Held(d)
  BY <1>4, <1>7, <1>8 DEF Held
<1>11. Device(d)'
  <2>1. Informed(d)'
    <3>1. Within(w, seen[d]) /\ Within(disk'[d], seen[d])
      BY <1>1, <1>2, <1>4, <1>7 DEF Device, Informed
    <3> QED
      BY <1>1, <1>8, <1>10, <3>1 DEF Device, Informed, Within, Revision
  <2>2. Awaiting(d)'
    BY <1>1, <1>4, <1>8 DEF Device, Awaiting, Sending, Queued, InConflict, Logged, Revision
  <2>3. Choosing(d)'
    BY <1>1, <1>4, <1>8 DEF Device, Choosing, InConflict
  <2>4. Settled(d)'
    BY <1>4, <1>8 DEF Settled
  <2> QED
    BY <1>7, <2>1, <2>2, <2>3, <2>4 DEF Device
<1> QED
  BY <1>1, <1>5, <1>8, <1>9, <1>10, <1>11, DeviceStep, DeviceTypes

\* An operation goes out.
LEMMA SendStep ==
  ASSUME SyncInv, NEW d \in Devices, Send(d)
  PROVE  SyncInv'
<1> DEFINE w == Outgoing(mem[d])
<1>1. TypeOK /\ Device(d)
  BY DEF SyncInv
<1>2. /\ mem[d] \in Writers /\ disk[d] \in Writers /\ seen[d] \in Nat /\ ops \in Nat
      /\ pc[d] = "idle" /\ Pending(mem[d]) /\ ~InConflict(mem[d])
  BY <1>1, DeviceTypes DEF Send
<1>3. /\ w \in Writers /\ Sending(w) /\ w.sending \in Requests
      /\ w.conflict = mem[d].conflict
      /\ \A n \in Nat : Within(mem[d], n) => Within(w, n)
      /\ ~Queued(w) => Local(w) = w.sending.position
      /\ Sending(mem[d]) => w = mem[d]
      /\ ~Sending(mem[d]) => w.sending.op = ops + 1
  BY <1>2, OutgoingWriter
<1> HIDE DEF w
<1>4. /\ Sending(mem[d]) \/ ops < MaxOps
      /\ ops' = IF Sending(mem[d]) THEN ops ELSE ops + 1
      /\ mem' = [mem EXCEPT ![d] = w]
      /\ Persists(d, w)
      /\ \/ /\ Stores(d, w)
            /\ pc' = [pc EXCEPT ![d] = "waiting"]
            /\ wire' = [wire EXCEPT ![d] = wire[d] \cup {w.sending}]
         \/ UNCHANGED <<pc, wire>>
      /\ UNCHANGED <<serverVars, loaded, asked, reply, saves, foreign, restarts, seen>>
  BY DEF Send, Holds, At, Persists, Written, w
<1>5. /\ Stores(d, w) \/ UNCHANGED <<disk, kept>>
      /\ faults' \in 0..MaxFaults
      /\ UNCHANGED log
      /\ Pending(w)
  BY <1>1, <1>3, <1>4, Persisting DEF serverVars, Pending
<1>6. /\ disk' \in [Devices -> Writers] /\ kept' \in [Devices -> Nat]
      /\ \A e \in Devices \ {d} : disk'[e] = disk[e] /\ kept'[e] = kept[e]
      /\ disk'[d].sending \in {disk[d].sending, w.sending, NoRequest}
      /\ \A n \in Nat : Within(w, n) /\ Within(disk[d], n) => Within(disk'[d], n)
      /\ Safe(d)'
  BY <1>1, <1>3, <1>5, Storing DEF Device
<1>7. /\ mem'[d] = w /\ loaded' = loaded /\ asked' = asked /\ seen' = seen /\ reply' = reply /\ log' = log
      /\ wire[d] \subseteq wire'[d] /\ wire'[d] \subseteq wire[d] \cup {w.sending}
      /\ \/ pc'[d] = "waiting" /\ Stores(d, w)
         \/ pc'[d] = "idle"
      /\ OnlyAt(d)
  BY <1>1, <1>2, <1>4, <1>6 DEF TypeOK, OnlyAt, Rests, serverVars
<1>8. ops' \in 0..MaxOps /\ ops <= ops'
  BY <1>1, <1>4, SyncAssumption DEF TypeOK
<1>9. TypeOK'
  <2>1. wire' \in [Devices -> SUBSET Requests]
    <3>1. wire \in [Devices -> SUBSET Requests]
      BY <1>1 DEF TypeOK
    <3>2. wire[d] \cup {w.sending} \in SUBSET Requests
      BY <1>3, <3>1
    <3> QED
      BY <1>4, <3>1, <3>2
  <2>2. pc' \in [Devices -> {"restoring", "idle", "waiting"}]
    BY <1>1, <1>4 DEF TypeOK
  <2> QED
    BY <1>1, <1>3, <1>4, <1>5, <1>6, <1>8, <2>1, <2>2 DEF TypeOK, serverVars
<1>10. Held(d)' \ Held(d) \subseteq {w.sending}
  BY <1>6, <1>7 DEF Held
<1>11. w.sending.op <= ops' /\ (w.sending \in Held(d) \/ w.sending.op > ops)
  <2>1. CASE Sending(mem[d])
    <3>1. w.sending \in Held(d)
      BY <1>2, <1>3, <2>1, LocalPosition DEF Held
    <3> QED
      BY <1>1, <1>4, <2>1, <3>1 DEF Device, Informed
  <2>2. CASE ~Sending(mem[d])
    BY <1>2, <1>3, <1>4, <2>2
  <2> QED
    BY <2>1, <2>2
<1>12. Device(d)'
  <2>1. Within(w, seen[d]) /\ Within(disk'[d], seen[d])
    BY <1>1, <1>2, <1>3, <1>6 DEF Device, Informed
  <2>2. \A q \in Held(d) : q.op <= ops'
    <3>1. \A q \in Held(d) : q.op \in Nat
      BY <1>1, DeviceTypes, WriterFields, RequestFields DEF Held
    <3> QED
      BY <1>1, <1>2, <1>8, <3>1 DEF Device, Informed
  <2>3. \A q \in Held(d)' : q.op <= ops' /\ q.expected <= seen[d]
    BY <1>1, <1>10, <1>11, <2>1, <2>2 DEF Device, Informed, Within
  <2>4. Informed(d)'
    BY <1>1, <1>7, <2>1, <2>3 DEF Device, Informed, Within, Revision
  <2>5. Awaiting(d)'
    <3>1. reply'[d] = NoReply
      BY <1>1, <1>2, <1>7 DEF Device, Awaiting
    <3>2. ASSUME pc'[d] = "waiting" PROVE kept'[d] = Local(w)
      <4>1. Stores(d, w)
        BY <1>7, <3>2
      <4> QED
        BY <1>1, <1>5, <4>1 DEF TypeOK, Stores
    <3>3. ~InConflict(w)
      BY <1>2, <1>3 DEF InConflict
    <3> QED
      BY <1>3, <1>7, <3>1, <3>2, <3>3 DEF Awaiting
  <2>6. Choosing(d)'
    BY <1>1, <1>2, <1>3, <1>7 DEF Device, Choosing, InConflict
  <2>7. Settled(d)'
    BY <1>3, <1>7 DEF Settled, Pending
  <2> QED
    BY <1>6, <2>4, <2>5, <2>6, <2>7 DEF Device
<1>13. /\ \A q \in Held(d)' \ Held(d) : q.op > ops
       /\ \A q, r \in Held(d)' \ Held(d) : q = r
  BY <1>10, <1>11
<1> QED
  BY <1>4, <1>7, <1>8, <1>9, <1>12, <1>13, DeviceStep

\* The answer to an operation.
LEMMA ReceiveStep ==
  ASSUME SyncInv, NEW d \in Devices, Receive(d)
  PROVE  SyncInv' /\ mem'[d].known >= mem[d].known
<1> DEFINE r == reply[d].revision
           w == IF reply[d].saved THEN Confirmed(mem[d], r) ELSE Refused(mem[d], r)
<1>1. TypeOK /\ Device(d)
  BY DEF SyncInv
<1>2. /\ mem[d] \in Writers /\ disk[d] \in Writers /\ seen[d] \in Nat /\ ops \in Nat /\ Revision \in Nat
      /\ pc[d] = "waiting" /\ reply[d] # NoReply
  BY <1>1, DeviceTypes DEF Receive
<1>3. /\ r \in Nat /\ r <= Revision
      /\ Sending(mem[d]) /\ ~InConflict(mem[d])
      /\ ~Queued(mem[d]) => kept[d] = mem[d].sending.position
      /\ reply[d].saved => Logged(mem[d].sending)
  BY <1>1, <1>2, DeviceTypes DEF Device, Informed, Awaiting
<1>4. /\ w \in Writers /\ w.sending \in {mem[d].sending, NoRequest}
      /\ w.known >= mem[d].known
      /\ \A n \in Nat : Within(mem[d], n) /\ r <= n => Within(w, n)
      /\ InConflict(w) => Pending(w)
      /\ ~Pending(w) => reply[d].saved /\ ~Queued(mem[d])
  <2>1. CASE reply[d].saved
    BY <1>2, <1>3, <2>1, ConfirmedWriter
  <2>2. CASE ~reply[d].saved
    BY <1>2, <1>3, <2>2, RefusedWriter DEF Pending
  <2> QED
    BY <2>1, <2>2
<1> HIDE DEF w
<1>5. /\ mem' = [mem EXCEPT ![d] = w]
      /\ Persists(d, w)
      /\ seen' = [seen EXCEPT ![d] = Larger(seen[d], r)]
      /\ reply' = [reply EXCEPT ![d] = NoReply]
      /\ pc' = [pc EXCEPT ![d] = "idle"]
      /\ UNCHANGED <<serverVars, loaded, asked, wire, saves, ops, foreign, restarts>>
  BY DEF Receive, Holds, At, Sees, Receives, w
<1>6. Pending(w) \/ Reached(kept[d])
  <2>1. ASSUME ~Pending(w) PROVE Reached(kept[d])
    BY <1>3, <1>4, <2>1 DEF Logged, Reached
  <2> QED
    BY <2>1
<1>7. /\ Stores(d, w) \/ UNCHANGED <<disk, kept>>
      /\ faults' \in 0..MaxFaults
      /\ UNCHANGED log
  BY <1>1, <1>5, Persisting DEF serverVars
<1>8. /\ disk' \in [Devices -> Writers] /\ kept' \in [Devices -> Nat]
      /\ \A e \in Devices \ {d} : disk'[e] = disk[e] /\ kept'[e] = kept[e]
      /\ disk'[d].sending \in {disk[d].sending, w.sending, NoRequest}
      /\ \A n \in Nat : Within(w, n) /\ Within(disk[d], n) => Within(disk'[d], n)
      /\ Safe(d)'
      /\ ~Pending(w) => kept' = kept
  BY <1>1, <1>4, <1>6, <1>7, Storing DEF Device
<1>9. /\ Larger(seen[d], r) \in Nat /\ Larger(seen[d], r) <= Revision
      /\ seen[d] <= Larger(seen[d], r) /\ r <= Larger(seen[d], r)
  BY <1>1, <1>2, <1>3, LargerOf DEF Device, Informed
<1>10. /\ mem'[d] = w /\ loaded' = loaded /\ asked' = asked /\ wire' = wire /\ log' = log /\ ops' = ops
       /\ reply'[d] = NoReply /\ seen'[d] = Larger(seen[d], r) /\ pc'[d] = "idle"
       /\ OnlyAt(d)
  BY <1>1, <1>2, <1>5, <1>8 DEF TypeOK, OnlyAt, Rests, serverVars
<1>11. TypeOK'
  <2>1. NoReply \in [saved : BOOLEAN, revision : Nat \cup {NoRevision}]
    BY DEF NoReply
  <2> QED
    BY <1>1, <1>4, <1>5, <1>7, <1>8, <1>9, <2>1 DEF TypeOK, serverVars
<1>12. Held(d)' \subseteq Held(d)
  BY <1>4, <1>8, <1>10 DEF Held
<1>13. Device(d)'
  <2>1. \A q \in Held(d) : q.expected \in Nat
    BY <1>1, DeviceTypes, WriterFields, RequestFields DEF Held
  <2>2. Informed(d)'
    <3>1. Within(mem[d], seen'[d]) /\ Within(disk[d], seen'[d]) /\ Within(loaded[d], seen'[d])
      BY <1>1, <1>2, <1>9, <1>10, WithinLater, DeviceTypes DEF Device, Informed
    <3>2. Within(w, seen'[d]) /\ Within(disk'[d], seen'[d])
      BY <1>4, <1>8, <1>9, <1>10, <3>1
    <3>3. \A q \in Held(d)' : q.op <= ops /\ q.expected <= seen'[d]
      BY <1>1, <1>2, <1>9, <1>10, <1>12, <2>1 DEF Device, Informed
    <3> QED
      BY <1>1, <1>2, <1>9, <1>10, <3>1, <3>2, <3>3 DEF Device, Informed, Within, NoReply, NoRevision, Revision
  <2>3. Awaiting(d)'
    BY <1>10 DEF Awaiting
  <2>4. Choosing(d)'
    BY <1>1, <1>2, <1>4, <1>10 DEF Device, Choosing
  <2>5. Settled(d)'
    <3>1. ~Pending(w) => Reached(kept[d])' /\ kept' = kept
      BY <1>6, <1>8, <1>10 DEF Reached, Revision
    <3> QED
      BY <1>10, <3>1 DEF Settled, Pending, Sending, Queued
  <2> QED
    BY <1>8, <2>2, <2>3, <2>4, <2>5 DEF Device
<1>14. mem'[d].known >= mem[d].known
  BY <1>4, <1>10
<1> QED
  BY <1>1, <1>2, <1>5, <1>10, <1>11, <1>12, <1>13, <1>14, DeviceStep

\* No answer.
LEMMA GiveUpStep ==
  ASSUME SyncInv, NEW d \in Devices, GiveUp(d)
  PROVE  SyncInv' /\ mem' = mem
<1>1. TypeOK /\ Device(d)
  BY DEF SyncInv
<1>2. /\ mem[d] \in Writers /\ disk[d] \in Writers /\ seen[d] \in Nat /\ ops \in Nat /\ Revision \in Nat
      /\ pc[d] = "waiting"
  BY <1>1, DeviceTypes DEF GiveUp
<1>3. Sending(mem[d]) /\ Pending(mem[d]) /\ ~InConflict(mem[d])
  BY <1>1, <1>2 DEF Device, Awaiting, Pending
<1>4. /\ faults < MaxFaults /\ faults' = faults + 1
      /\ Stores(d, mem[d]) \/ UNCHANGED <<disk, kept>>
      /\ reply' = [reply EXCEPT ![d] = NoReply]
      /\ pc' = [pc EXCEPT ![d] = "idle"]
      /\ UNCHANGED <<serverVars, mem, loaded, asked, wire, saves, ops, foreign, restarts, seen>>
  BY DEF GiveUp, At, Receives
<1>5. /\ disk' \in [Devices -> Writers] /\ kept' \in [Devices -> Nat]
      /\ \A e \in Devices \ {d} : disk'[e] = disk[e] /\ kept'[e] = kept[e]
      /\ disk'[d].sending \in {disk[d].sending, mem[d].sending, NoRequest}
      /\ \A n \in Nat : Within(mem[d], n) /\ Within(disk[d], n) => Within(disk'[d], n)
      /\ Safe(d)'
  <2>1. UNCHANGED log
    BY <1>4 DEF serverVars
  <2> QED
    BY <1>1, <1>2, <1>3, <1>4, <2>1, Storing DEF Device
<1>6. /\ mem' = mem /\ loaded' = loaded /\ asked' = asked /\ wire' = wire /\ log' = log /\ ops' = ops
      /\ seen' = seen /\ reply'[d] = NoReply /\ pc'[d] = "idle"
      /\ OnlyAt(d)
  BY <1>1, <1>4, <1>5 DEF TypeOK, OnlyAt, Rests, serverVars
<1>7. TypeOK'
  <2>1. NoReply \in [saved : BOOLEAN, revision : Nat \cup {NoRevision}]
    BY DEF NoReply
  <2>2. faults' \in 0..MaxFaults
    BY <1>1, <1>4, SyncAssumption DEF TypeOK
  <2> QED
    BY <1>1, <1>4, <1>5, <2>1, <2>2 DEF TypeOK, serverVars
<1>8. Held(d)' \subseteq Held(d)
  BY <1>5, <1>6 DEF Held
<1>9. Device(d)'
  <2>1. Informed(d)'
    <3>1. Within(disk'[d], seen[d])
      BY <1>1, <1>2, <1>5 DEF Device, Informed
    <3> QED
      BY <1>1, <1>2, <1>6, <1>8, <3>1 DEF Device, Informed, Within, NoReply, NoRevision, Revision
  <2>2. Awaiting(d)' /\ Choosing(d)'
    BY <1>1, <1>2, <1>3, <1>6 DEF Device, Awaiting, Choosing, InConflict, Pending, Sending, Queued
  <2>3. Settled(d)'
    BY <1>3, <1>6 DEF Settled, Pending, Sending, Queued
  <2> QED
    BY <1>5, <2>1, <2>2, <2>3 DEF Device
<1> QED
  BY <1>1, <1>2, <1>4, <1>6, <1>7, <1>8, <1>9, DeviceStep

\* What an earlier write failed to store.
LEMMA FlushStep ==
  ASSUME SyncInv, NEW d \in Devices, Flush(d)
  PROVE  SyncInv'
<1>1. TypeOK /\ Device(d)
  BY DEF SyncInv
<1>2. /\ mem[d] \in Writers /\ disk[d] \in Writers /\ seen[d] \in Nat /\ ops \in Nat
      /\ pc[d] = "idle"
  BY <1>1, DeviceTypes DEF Flush
<1>3. /\ Stores(d, mem[d]) /\ faults' = faults
      /\ UNCHANGED <<serverVars, mem, pc, loaded, asked, network, saves, ops, foreign, restarts, seen>>
  BY DEF Flush, Written
<1>4. Pending(mem[d]) \/ kept[d] = NoPosition \/ Reached(kept[d])
  BY <1>1, <1>2 DEF Device, Settled
<1>5. /\ disk' \in [Devices -> Writers] /\ kept' \in [Devices -> Nat]
      /\ \A e \in Devices \ {d} : disk'[e] = disk[e] /\ kept'[e] = kept[e]
      /\ disk'[d].sending \in {disk[d].sending, mem[d].sending, NoRequest}
      /\ \A n \in Nat : Within(mem[d], n) /\ Within(disk[d], n) => Within(disk'[d], n)
      /\ Safe(d)'
      /\ ~Pending(mem[d]) => kept' = kept
  <2>1. UNCHANGED log
    BY <1>3 DEF serverVars
  <2> QED
    BY <1>1, <1>2, <1>3, <1>4, <2>1, Storing DEF Device
<1>6. /\ mem' = mem /\ loaded' = loaded /\ asked' = asked /\ wire' = wire /\ log' = log /\ ops' = ops
      /\ seen' = seen /\ reply' = reply /\ pc' = pc
      /\ OnlyAt(d)
  BY <1>1, <1>3, <1>5 DEF TypeOK, OnlyAt, Rests, serverVars, network
<1>7. TypeOK'
  BY <1>1, <1>3, <1>5 DEF TypeOK, serverVars, network
<1>8. Held(d)' \subseteq Held(d)
  BY <1>5, <1>6 DEF Held
<1>9. Device(d)'
  <2>1. Informed(d)'
    <3>1. Within(disk'[d], seen[d])
      BY <1>1, <1>2, <1>5 DEF Device, Informed
    <3> QED
      BY <1>1, <1>6, <1>8, <3>1 DEF Device, Informed, Within, Revision
  <2>2. Awaiting(d)' /\ Choosing(d)'
    BY <1>1, <1>2, <1>6 DEF Device, Awaiting, Choosing, InConflict, Pending, Sending, Queued, Logged, Revision
  <2>3. Settled(d)'
    BY <1>1, <1>2, <1>5, <1>6 DEF Device, Settled, Pending, Sending, Queued, Reached, Revision
  <2> QED
    BY <1>5, <2>1, <2>2, <2>3 DEF Device
<1> QED
  BY <1>1, <1>2, <1>3, <1>6, <1>7, <1>8, <1>9, DeviceStep

\* A detail of the book tells the device of a newer revision.
LEMMA ObserveStep ==
  ASSUME SyncInv, NEW d \in Devices, Observe(d)
  PROVE  SyncInv'
<1>1. TypeOK /\ Device(d)
  BY DEF SyncInv
<1>2. /\ mem[d] \in Writers /\ disk[d] \in Writers /\ loaded[d] \in Writers
      /\ seen[d] \in Nat /\ ops \in Nat /\ Revision \in Nat
  BY <1>1, DeviceTypes
<1>3. PICK r \in 0..Revision :
        /\ r > mem[d].known
        /\ Sees(d, r)
        /\ LET w == [mem[d] EXCEPT !.known = r]
           IN  IF ~Pending(w)
                 THEN Holds(d, [w EXCEPT !.base = r]) /\ UNCHANGED <<disk, kept, faults>>
                 ELSE IF Sending(w)
                 THEN Holds(d, w) /\ UNCHANGED <<disk, kept, faults>>
                 ELSE /\ Holds(d, [w EXCEPT !.conflict = r])
                      /\ Persists(d, [w EXCEPT !.conflict = r])
  BY DEF Observe
<1> DEFINE shown == [mem[d] EXCEPT !.known = r]
           adopted == [shown EXCEPT !.base = r]
           contested == [shown EXCEPT !.conflict = r]
<1>4. /\ r \in Nat /\ r <= Revision
  BY <1>2, <1>3
<1>5. /\ shown = [base |-> mem[d].base, sending |-> mem[d].sending, queued |-> mem[d].queued,
                  conflict |-> mem[d].conflict, known |-> r]
      /\ adopted = [base |-> r, sending |-> mem[d].sending, queued |-> mem[d].queued,
                    conflict |-> mem[d].conflict, known |-> r]
      /\ contested = [base |-> mem[d].base, sending |-> mem[d].sending, queued |-> mem[d].queued,
                      conflict |-> r, known |-> r]
  <2>1. shown = [base |-> mem[d].base, sending |-> mem[d].sending, queued |-> mem[d].queued,
                 conflict |-> mem[d].conflict, known |-> r]
    BY <1>2, WriterFields
  <2> HIDE DEF shown
  <2> QED
    BY <2>1
<1> HIDE DEF shown, adopted, contested
\* What the three cases have in common.
<1>6. \A w \in {shown, adopted, contested} :
        /\ w \in Writers /\ w.sending = mem[d].sending /\ w.queued = mem[d].queued
        /\ \A n \in Nat : Within(mem[d], n) /\ r <= n => Within(w, n)
  <2>1. \A w \in {shown, adopted, contested} : w \in Writers
    BY <1>2, <1>4, <1>5, WriterFields DEF Writers
  <2>2. \A w \in {shown, adopted, contested} :
          \A n \in Nat : Within(mem[d], n) /\ r <= n => Within(w, n)
    BY <1>5 DEF Within
  <2> QED
    BY <1>5, <2>1, <2>2
<1>7. PICK w \in {shown, adopted, contested} :
        /\ mem' = [mem EXCEPT ![d] = w]
        /\ \/ /\ ~Pending(shown) \/ Sending(shown)
              /\ w \in {shown, adopted}
              /\ UNCHANGED <<disk, kept, faults>>
           \/ /\ Pending(shown) /\ ~Sending(shown) /\ w = contested
              /\ Persists(d, contested)
  <2>1. CASE ~Pending(shown)
    <3>1. mem' = [mem EXCEPT ![d] = adopted] /\ UNCHANGED <<disk, kept, faults>>
      BY <1>3, <2>1, Zenon DEF Holds, shown, adopted
    <3> QED
      BY <2>1, <3>1
  <2>2. CASE Pending(shown) /\ Sending(shown)
    <3>1. mem' = [mem EXCEPT ![d] = shown] /\ UNCHANGED <<disk, kept, faults>>
      BY <1>3, <2>2, Zenon DEF Holds, shown
    <3> QED
      BY <2>2, <3>1
  <2>3. CASE Pending(shown) /\ ~Sending(shown)
    <3>1. mem' = [mem EXCEPT ![d] = contested] /\ Persists(d, contested)
      BY <1>3, <2>3, Zenon DEF Holds, shown, contested
    <3> QED
      BY <2>3, <3>1
  <2> QED
    BY <2>1, <2>2, <2>3
<1>8. /\ seen' = [seen EXCEPT ![d] = Larger(seen[d], r)]
      /\ UNCHANGED <<serverVars, pc, loaded, asked, network, saves, ops, foreign, restarts>>
  BY <1>3 DEF Observe, Sees
<1>9. /\ w \in Writers /\ w.sending = mem[d].sending /\ w.queued = mem[d].queued
      /\ \A n \in Nat : Within(mem[d], n) /\ r <= n => Within(w, n)
      /\ Pending(shown) <=> Pending(mem[d])
      /\ Sending(shown) <=> Sending(mem[d])
      /\ Pending(w) <=> Pending(mem[d])
      /\ w \in {shown, adopted} => w.conflict = mem[d].conflict
  BY <1>5, <1>6 DEF Pending, Sending, Queued
<1>10. /\ disk' \in [Devices -> Writers] /\ kept' \in [Devices -> Nat] /\ faults' \in 0..MaxFaults
       /\ \A e \in Devices \ {d} : disk'[e] = disk[e] /\ kept'[e] = kept[e]
       /\ disk'[d].sending \in {disk[d].sending, w.sending, NoRequest}
       /\ \A n \in Nat : Within(w, n) /\ Within(disk[d], n) => Within(disk'[d], n)
       /\ Safe(d)'
       /\ \/ Pending(w) /\ ~Sending(w)
          \/ w.conflict = mem[d].conflict /\ disk' = disk /\ kept' = kept
  <2>1. UNCHANGED log
    BY <1>8 DEF serverVars
  <2>2. CASE UNCHANGED <<disk, kept, faults>> /\ w \in {shown, adopted}
    BY <1>1, <1>9, <2>1, <2>2 DEF TypeOK, Device, Safe, Reached, Revision
  <2>3. CASE Pending(shown) /\ ~Sending(shown) /\ w = contested /\ Persists(d, contested)
    <3>1. Pending(w) /\ ~Sending(w) /\ (Stores(d, w) \/ UNCHANGED <<disk, kept>>) /\ faults' \in 0..MaxFaults
      BY <1>1, <1>9, <2>3, Persisting DEF Sending
    <3> QED
      BY <1>1, <1>9, <2>1, <3>1, Storing DEF Device
  <2> QED
    BY <1>7, <2>2, <2>3
<1>11. /\ Larger(seen[d], r) \in Nat /\ Larger(seen[d], r) <= Revision
       /\ seen[d] <= Larger(seen[d], r) /\ r <= Larger(seen[d], r)
  BY <1>1, <1>2, <1>4, LargerOf DEF Device, Informed
<1>12. /\ mem'[d] = w /\ loaded' = loaded /\ asked' = asked /\ wire' = wire /\ log' = log /\ ops' = ops
       /\ reply' = reply /\ seen'[d] = Larger(seen[d], r) /\ pc' = pc
       /\ OnlyAt(d)
  BY <1>1, <1>7, <1>8, <1>10 DEF TypeOK, OnlyAt, Rests, serverVars, network
<1>13. TypeOK'
  BY <1>1, <1>7, <1>8, <1>9, <1>10, <1>11 DEF TypeOK, serverVars, network
<1>14. Held(d)' \subseteq Held(d)
  BY <1>9, <1>10, <1>12 DEF Held
<1>15. Device(d)'
  <2>1. \A q \in Held(d) : q.expected \in Nat
    BY <1>1, DeviceTypes, WriterFields, RequestFields DEF Held
  <2>2. Informed(d)'
    <3>1. Within(mem[d], seen'[d]) /\ Within(disk[d], seen'[d]) /\ Within(loaded[d], seen'[d])
      BY <1>1, <1>2, <1>11, <1>12, WithinLater DEF Device, Informed
    <3>2. Within(w, seen'[d]) /\ Within(disk'[d], seen'[d])
      BY <1>9, <1>10, <1>11, <1>12, <3>1
    <3>3. \A q \in Held(d)' : q.op <= ops /\ q.expected <= seen'[d]
      BY <1>1, <1>2, <1>11, <1>12, <1>14, <2>1 DEF Device, Informed
    <3> QED
      BY <1>1, <1>2, <1>11, <1>12, <3>1, <3>2, <3>3 DEF Device, Informed, Within, Revision
  <2>3. Awaiting(d)'
    <3>1. pc[d] = "waiting" => w.conflict = mem[d].conflict /\ kept' = kept
      BY <1>1, <1>9, <1>10 DEF Device, Awaiting, Sending
    <3> QED
      BY <1>1, <1>9, <1>12, <3>1 DEF Device, Awaiting, Sending, Queued, InConflict, Logged, Revision
  <2>4. Choosing(d)'
    <3>1. InConflict(w) => Pending(w)
      BY <1>1, <1>9, <1>10 DEF Device, Choosing, InConflict
    <3>2. InConflict(mem[d]) => InConflict(w)
      BY <1>4, <1>5, <1>7, <1>9 DEF InConflict, NoRevision
    <3> QED
      BY <1>1, <1>12, <3>1, <3>2 DEF Device, Choosing, Pending, Sending, Queued
  <2>5. Settled(d)'
    <3>1. ~Pending(w) \/ ~Queued(w) => disk' = disk /\ kept' = kept
      BY <1>10 DEF Pending
    <3> QED
      BY <1>1, <1>9, <1>12, <3>1 DEF Device, Settled, Pending, Sending, Queued, Reached, Revision
  <2> QED
    BY <1>10, <2>2, <2>3, <2>4, <2>5 DEF Device
<1> QED
  BY <1>2, <1>8, <1>12, <1>13, <1>14, <1>15, DeviceStep

\* The user keeps the position of the device.
LEMMA KeepLocalStep ==
  ASSUME SyncInv, NEW d \in Devices, KeepLocal(d)
  PROVE  SyncInv'
<1> DEFINE w == [mem[d] EXCEPT !.queued = Local(mem[d]), !.sending = NoRequest,
                               !.base = mem[d].conflict, !.conflict = NoRevision]
<1>1. TypeOK /\ Device(d)
  BY DEF SyncInv
<1>2. /\ mem[d] \in Writers /\ disk[d] \in Writers /\ seen[d] \in Nat /\ ops \in Nat
      /\ pc[d] = "idle" /\ InConflict(mem[d]) /\ ~asked[d].waiting /\ Pending(mem[d])
  BY <1>1, DeviceTypes DEF KeepLocal, Resolvable
<1>3. /\ w \in Writers /\ Pending(w) /\ ~InConflict(w)
      /\ w.sending = NoRequest
      /\ \A n \in Nat : Within(mem[d], n) => Within(w, n)
  BY <1>2, KeptWriter
<1> HIDE DEF w
<1>4. /\ mem' = [mem EXCEPT ![d] = w]
      /\ Persists(d, w)
      /\ UNCHANGED <<serverVars, pc, loaded, asked, network, saves, ops, foreign, restarts, seen>>
  BY DEF KeepLocal, Holds, w
<1>5. /\ Stores(d, w) \/ UNCHANGED <<disk, kept>>
      /\ faults' \in 0..MaxFaults
      /\ UNCHANGED log
  BY <1>1, <1>4, Persisting DEF serverVars
<1>6. /\ disk' \in [Devices -> Writers] /\ kept' \in [Devices -> Nat]
      /\ \A e \in Devices \ {d} : disk'[e] = disk[e] /\ kept'[e] = kept[e]
      /\ disk'[d].sending \in {disk[d].sending, w.sending, NoRequest}
      /\ \A n \in Nat : Within(w, n) /\ Within(disk[d], n) => Within(disk'[d], n)
      /\ Safe(d)'
  BY <1>1, <1>3, <1>5, Storing DEF Device
<1>7. /\ mem'[d] = w /\ loaded' = loaded /\ asked' = asked /\ wire' = wire /\ log' = log /\ ops' = ops
      /\ reply' = reply /\ seen' = seen /\ pc' = pc
      /\ OnlyAt(d)
  BY <1>1, <1>4, <1>6 DEF TypeOK, OnlyAt, Rests, serverVars, network
<1>8. TypeOK'
  BY <1>1, <1>3, <1>4, <1>5, <1>6 DEF TypeOK, serverVars, network
<1>9. Held(d)' \subseteq Held(d)
  BY <1>3, <1>6, <1>7 DEF Held
<1>10. Device(d)'
  <2>1. Informed(d)'
    <3>1. Within(w, seen[d]) /\ Within(disk'[d], seen[d])
      BY <1>1, <1>2, <1>3, <1>6 DEF Device, Informed
    <3> QED
      BY <1>1, <1>7, <1>9, <3>1 DEF Device, Informed, Within, Revision
  <2>2. Awaiting(d)'
    BY <1>1, <1>2, <1>7 DEF Device, Awaiting
  <2>3. Choosing(d)'
    BY <1>1, <1>2, <1>3, <1>7 DEF Device, Choosing
  <2>4. Settled(d)'
    BY <1>2, <1>3, <1>7 DEF Settled
  <2> QED
    BY <1>6, <2>1, <2>2, <2>3, <2>4 DEF Device
<1> QED
  BY <1>2, <1>4, <1>7, <1>8, <1>9, <1>10, DeviceStep

\* Steps that change no more than what the user has asked for.
LEMMA AskingStep ==
  ASSUME SyncInv, NEW d \in Devices,
         NEW a \in [revision : Nat \cup {NoRevision}, waiting : BOOLEAN, newer : BOOLEAN],
         asked' = [asked EXCEPT ![d] = a],
         a.revision <= Revision,
         a.waiting => pc[d] = "idle" /\ InConflict(mem[d]),
         a.revision # NoRevision => a.waiting,
         UNCHANGED <<serverVars, mem, disk, pc, loaded, network, saves, ops, foreign, restarts, seen, kept>>,
         faults' \in 0..MaxFaults
  PROVE  SyncInv'
<1>1. TypeOK /\ Device(d) /\ ops \in Nat
  BY DeviceTypes DEF SyncInv
<1>2. /\ asked'[d] = a
      /\ mem' = mem /\ disk' = disk /\ loaded' = loaded /\ wire' = wire /\ log' = log /\ ops' = ops
      /\ reply' = reply /\ seen' = seen /\ pc' = pc /\ kept' = kept
      /\ OnlyAt(d)
  BY <1>1 DEF TypeOK, OnlyAt, Rests, serverVars, network
<1>3. TypeOK'
  BY <1>1 DEF TypeOK, serverVars, network
<1>4. Held(d)' = Held(d)
  BY <1>2 DEF Held
<1>5. Device(d)'
  <2>1. Informed(d)'
    BY <1>1, <1>2, <1>4 DEF Device, Informed, Within, Revision
  <2>2. Awaiting(d)'
    BY <1>1, <1>2 DEF Device, Awaiting, Sending, Queued, InConflict, Logged, Revision
  <2>3. Choosing(d)'
    BY <1>1, <1>2 DEF Device, Choosing, InConflict, Pending, Sending, Queued
  <2>4. Settled(d)' /\ Safe(d)'
    BY <1>1, <1>2 DEF Device, Settled, Safe, Pending, Sending, Queued, Local, Reached, Revision
  <2> QED
    BY <2>1, <2>2, <2>3, <2>4 DEF Device
<1> QED
  BY <1>1, <1>2, <1>3, <1>4, <1>5, DeviceStep

\* The user chooses the position of the server, and the server tells it.
LEMMA AskServerStep ==
  ASSUME SyncInv, NEW d \in Devices, AskServer(d)
  PROVE  SyncInv'
<1> DEFINE a == [NotAsked EXCEPT !.waiting = TRUE]
<1>1. a \in [revision : Nat \cup {NoRevision}, waiting : BOOLEAN, newer : BOOLEAN]
      /\ a.revision = NoRevision
  BY DEF NotAsked
<1>2. Revision \in Nat /\ faults \in 0..MaxFaults
  BY DeviceTypes DEF SyncInv, TypeOK
<1>3. /\ asked' = [asked EXCEPT ![d] = a]
      /\ pc[d] = "idle" /\ InConflict(mem[d])
      /\ UNCHANGED <<serverVars, mem, disk, pc, loaded, network, bounds, seen, kept>>
  BY DEF AskServer, Resolvable
<1>4. /\ UNCHANGED <<serverVars, mem, disk, pc, loaded, network, saves, ops, foreign, restarts, seen, kept>>
      /\ faults' \in 0..MaxFaults
  BY <1>2, <1>3 DEF bounds
<1>5. a.revision <= Revision
  BY <1>1, <1>2 DEF NoRevision
<1> HIDE DEF a
<1> QED
  BY <1>1, <1>3, <1>4, <1>5, AskingStep, Zenon

LEMMA TellDeviceStep ==
  ASSUME SyncInv, NEW d \in Devices, TellDevice(d)
  PROVE  SyncInv'
<1> DEFINE a == [asked[d] EXCEPT !.revision = Revision]
<1>1. TypeOK /\ Device(d) /\ Revision \in Nat /\ faults \in 0..MaxFaults
  BY DeviceTypes DEF SyncInv, TypeOK
<1>2. /\ a \in [revision : Nat \cup {NoRevision}, waiting : BOOLEAN, newer : BOOLEAN]
      /\ a.revision = Revision /\ a.waiting = asked[d].waiting
  BY <1>1 DEF TypeOK
<1>3. /\ asked' = [asked EXCEPT ![d] = a]
      /\ asked[d].waiting
      /\ UNCHANGED <<serverVars, mem, disk, pc, loaded, network, bounds, seen, kept>>
  BY DEF TellDevice
<1>4. pc[d] = "idle" /\ InConflict(mem[d])
  BY <1>1, <1>3 DEF Device, Choosing
<1>5. /\ UNCHANGED <<serverVars, mem, disk, pc, loaded, network, saves, ops, foreign, restarts, seen, kept>>
      /\ faults' \in 0..MaxFaults
  BY <1>1, <1>3 DEF bounds
<1>6. a.revision <= Revision /\ a.waiting
  BY <1>1, <1>2, <1>3
<1> HIDE DEF a
<1> QED
  BY <1>2, <1>3, <1>4, <1>5, <1>6, AskingStep, Zenon

LEMMA AskFailsStep ==
  ASSUME SyncInv, NEW d \in Devices, AskFails(d)
  PROVE  SyncInv'
<1>1. NotAsked \in [revision : Nat \cup {NoRevision}, waiting : BOOLEAN, newer : BOOLEAN]
      /\ NotAsked.revision = NoRevision /\ ~NotAsked.waiting
  BY DEF NotAsked
<1>2. Revision \in Nat /\ TypeOK
  BY DeviceTypes DEF SyncInv
<1>3. faults' \in 0..MaxFaults
  BY <1>2, SyncAssumption DEF TypeOK, AskFails
<1>4. /\ asked' = [asked EXCEPT ![d] = NotAsked]
      /\ UNCHANGED <<serverVars, mem, disk, pc, loaded, network, saves, ops, foreign, restarts, seen, kept>>
  BY DEF AskFails
<1>5. NotAsked.revision <= Revision
  BY <1>1, <1>2 DEF NoRevision
<1> QED
  BY <1>1, <1>3, <1>4, <1>5, AskingStep, Zenon

\* ... and the device has the answer: it shows another revision first, or
\* gives up its own position.
LEMMA UseServerStep ==
  ASSUME SyncInv, NEW d \in Devices, UseServer(d)
  PROVE  SyncInv'
<1> DEFINE r == asked[d].revision
           shown == Larger(r, mem[d].conflict)
           newer == [mem[d] EXCEPT !.conflict = shown, !.known = shown]
<1>1. TypeOK /\ Device(d)
  BY DEF SyncInv
<1>2. /\ mem[d] \in Writers /\ disk[d] \in Writers /\ seen[d] \in Nat /\ ops \in Nat /\ Revision \in Nat
      /\ r \in Nat /\ r <= Revision
      /\ pc[d] = "idle" /\ InConflict(mem[d]) /\ Pending(mem[d])
      /\ mem[d].conflict \in Nat
  <2>1. r # NoRevision /\ asked[d].waiting
    BY <1>1 DEF UseServer, Device, Choosing
  <2> QED
    BY <1>1, <2>1, DeviceTypes, WriterFields DEF Device, Informed, Choosing, InConflict
<1>3. /\ newer \in Writers /\ Pending(newer) /\ InConflict(newer)
      /\ newer.sending = mem[d].sending /\ newer.queued = mem[d].queued
      /\ \A n \in Nat : Within(mem[d], n) /\ r <= n => Within(newer, n)
  <2>1. /\ shown \in Nat
        /\ \A n \in Nat : r <= n /\ mem[d].conflict <= n => shown <= n
    BY <1>2, LargerOf
  <2> HIDE DEF shown
  <2>2. newer \in Writers
    BY <1>2, <2>1 DEF Writers
  <2>3. /\ newer.base = mem[d].base /\ newer.sending = mem[d].sending /\ newer.queued = mem[d].queued
        /\ newer.conflict = shown /\ newer.known = shown
    BY <1>2 DEF Writers
  <2> HIDE DEF newer
  <2> QED
    BY <1>2, <2>1, <2>2, <2>3 DEF Pending, Sending, Queued, InConflict, Within, NoRevision
<1>4. /\ Opened(r) \in Writers /\ ~Pending(Opened(r)) /\ ~InConflict(Opened(r))
      /\ Opened(r).sending = NoRequest
      /\ \A n \in Nat : r <= n => Within(Opened(r), n)
  BY <1>2, OpenedWriter
<1> HIDE DEF newer, shown
<1>5. /\ seen' = [seen EXCEPT ![d] = Larger(seen[d], r)]
      /\ asked' = [asked EXCEPT ![d] = NotAsked]
      /\ UNCHANGED <<serverVars, pc, loaded, network, saves, ops, foreign, restarts>>
  BY DEF UseServer, Sees
\* What is in memory and on disk afterwards.
<1>6. PICK w \in {newer, mem[d], Opened(r)} :
        /\ mem' = [mem EXCEPT ![d] = w]
        /\ \/ w = newer /\ Persists(d, newer)
           \/ /\ w = Opened(r)
              /\ disk' = [disk EXCEPT ![d] = Opened(r)]
              /\ kept' = [kept EXCEPT ![d] = NoPosition]
              /\ UNCHANGED faults
           \/ /\ w = mem[d]
              /\ UNCHANGED <<disk, kept>>
              /\ UNCHANGED faults \/ NotWritten
  <2>1. CASE ShowNewer(d, r)
    BY <2>1 DEF ShowNewer, Holds, newer, shown
  <2>2. CASE Adopt(d, r)
    <3>1. mem = [mem EXCEPT ![d] = mem[d]]
      BY <1>1 DEF TypeOK
    <3> QED
      BY <2>2, <3>1 DEF Adopt, Holds, NotWritten
  <2> QED
    BY <2>1, <2>2 DEF UseServer
<1>7. /\ w \in Writers
      /\ w.sending \in {mem[d].sending, NoRequest}
      /\ \A n \in Nat : Within(mem[d], n) /\ r <= n => Within(w, n)
      /\ InConflict(w) => Pending(w)
      /\ w = Opened(r) \/ Pending(w)
  BY <1>2, <1>3, <1>4, <1>6
<1>8. UNCHANGED log /\ faults' \in 0..MaxFaults
  <2>1. faults' = faults \/ NotWritten \/ Persists(d, newer)
    BY <1>6
  <2> QED
    BY <1>1, <1>5, <2>1, Persisting, SyncAssumption DEF NotWritten, TypeOK, serverVars
<1>9. /\ disk' \in [Devices -> Writers] /\ kept' \in [Devices -> Nat]
      /\ \A e \in Devices \ {d} : disk'[e] = disk[e] /\ kept'[e] = kept[e]
      /\ disk'[d].sending \in {disk[d].sending, w.sending, NoRequest}
      /\ \A n \in Nat : Within(w, n) /\ Within(disk[d], n) /\ r <= n => Within(disk'[d], n)
      /\ Safe(d)'
      /\ Pending(w) \/ kept'[d] = NoPosition
  <2>1. CASE w = newer /\ Persists(d, newer)
    <3>1. Stores(d, w) \/ UNCHANGED <<disk, kept>>
      BY <1>1, <2>1, Persisting
    <3> QED
      BY <1>1, <1>3, <1>8, <2>1, <3>1, Storing DEF Device
  <2>2. CASE /\ w = Opened(r)
             /\ disk' = [disk EXCEPT ![d] = Opened(r)]
             /\ kept' = [kept EXCEPT ![d] = NoPosition]
    BY <1>1, <1>4, <2>2 DEF TypeOK, Safe, NoPosition
  <2>3. CASE w = mem[d] /\ UNCHANGED <<disk, kept>>
    BY <1>1, <1>2, <1>8, <2>3 DEF TypeOK, Device, Safe, Reached, Revision
  <2> QED
    BY <1>6, <2>1, <2>2, <2>3
<1>10. /\ Larger(seen[d], r) \in Nat /\ Larger(seen[d], r) <= Revision
       /\ seen[d] <= Larger(seen[d], r) /\ r <= Larger(seen[d], r)
  BY <1>1, <1>2, LargerOf DEF Device, Informed
<1>11. /\ mem'[d] = w /\ loaded' = loaded /\ asked'[d] = NotAsked /\ wire' = wire /\ log' = log /\ ops' = ops
       /\ reply' = reply /\ seen'[d] = Larger(seen[d], r) /\ pc' = pc
       /\ OnlyAt(d)
  BY <1>1, <1>5, <1>6, <1>9 DEF TypeOK, OnlyAt, Rests, serverVars, network
<1>12. TypeOK'
  <2>1. NotAsked \in [revision : Nat \cup {NoRevision}, waiting : BOOLEAN, newer : BOOLEAN]
    BY DEF NotAsked
  <2> QED
    BY <1>1, <1>5, <1>6, <1>7, <1>8, <1>9, <1>10, <2>1 DEF TypeOK, serverVars, network
<1>13. Held(d)' \subseteq Held(d)
  BY <1>7, <1>9, <1>11 DEF Held
<1>14. Device(d)'
  <2>1. \A q \in Held(d) : q.expected \in Nat
    BY <1>1, DeviceTypes, WriterFields, RequestFields DEF Held
  <2>2. Informed(d)'
    <3>1. Within(mem[d], seen'[d]) /\ Within(disk[d], seen'[d]) /\ Within(loaded[d], seen'[d])
      BY <1>1, <1>2, <1>10, <1>11, WithinLater, DeviceTypes DEF Device, Informed
    <3>2. Within(w, seen'[d]) /\ Within(disk'[d], seen'[d])
      BY <1>7, <1>9, <1>10, <1>11, <3>1
    <3>3. \A q \in Held(d)' : q.op <= ops /\ q.expected <= seen'[d]
      BY <1>1, <1>2, <1>10, <1>11, <1>13, <2>1 DEF Device, Informed
    <3> QED
      BY <1>1, <1>2, <1>10, <1>11, <3>1, <3>2, <3>3 DEF Device, Informed, Within, NotAsked, NoRevision, Revision
  <2>3. Awaiting(d)'
    BY <1>1, <1>2, <1>11 DEF Device, Awaiting
  <2>4. Choosing(d)'
    BY <1>7, <1>11 DEF Choosing, NotAsked
  <2>5. Settled(d)'
    BY <1>2, <1>9, <1>11 DEF Settled, Pending, Sending, Queued
  <2> QED
    BY <1>9, <2>2, <2>3, <2>4, <2>5 DEF Device
<1> QED
  BY <1>2, <1>5, <1>11, <1>12, <1>13, <1>14, DeviceStep

-----------------------------------------------------------------------------
(* The steps of the server *)

\* The log with one more entry.
LEMMA LogAppended ==
  ASSUME TypeOK, Chain, NEW entry \in Entries, log' = Append(log, entry), wire' = wire,
         entry.expected = Revision,
         entry.op \in Nat \ {ByLegacy} => \E d \in Devices : entry \in wire[d]
  PROVE  /\ log' \in Seq(Entries) /\ Revision' = Revision + 1 /\ log'[Revision'] = entry
         /\ LogGrows /\ Chain' /\ Logged(entry)'
<1>1. log \in Seq(Entries) /\ Revision \in Nat
  BY LenProperties DEF TypeOK, Revision
<1>2. log' \in Seq(Entries)
  BY <1>1, AppendProperties
<1>3. Revision' = Revision + 1
  BY <1>1, AppendProperties DEF Revision
<1>4. log'[Revision + 1] = entry
  BY <1>1, AppendProperties DEF Revision
<1>5. \A i \in 1..Revision : log'[i] = log[i]
  BY <1>1, AppendProperties DEF Revision
<1>6. Revision \in Nat
  BY <1>1
<1>7. \A i \in 1..Revision' : i \in 1..Revision \/ (i = Revision + 1 /\ i - 1 = Revision)
  BY <1>3, <1>6
<1>8. LogGrows
  <2>1. Revision <= Revision'
    BY <1>3, <1>6
  <2> QED
    BY <2>1, <1>5 DEF LogGrows
<1>9. Chain'
  <2>1. ASSUME NEW i \in 1..Revision'
        PROVE  /\ log'[i].expected = i - 1
               /\ log'[i].op \in Nat \ {ByLegacy} => \E d \in Devices : log'[i] \in wire'[d]
    <3>1. CASE i \in 1..Revision
      BY <1>5, <3>1 DEF Chain
    <3>2. CASE i = Revision + 1 /\ i - 1 = Revision
      <4>1. log'[i] = entry
        BY <1>4, <3>2, Zenon
      <4> QED
        BY <3>2, <4>1
    <3> QED
      BY <1>7, <3>1, <3>2
  <2> QED
    BY <2>1 DEF Chain
<1>10. Logged(entry)'
  <2>1. Revision + 1 \in 1..Revision'
    BY <1>3, <1>6
  <2> QED
    BY <1>4, <2>1 DEF Logged
<1> QED
  BY <1>2, <1>3, <1>4, <1>8, <1>9, <1>10

\* What there is to show for a step of the server: its own part, and that the
\* answer, if one is on its way, is to the request of a device that waits.
LEMMA ServerStep ==
  ASSUME SyncInv, LogGrows, Chain', Receipted', TypeOK',
         UNCHANGED <<device, wire, ops, seen, kept>>,
         \A d \in Devices : reply'[d] = reply[d] \/ IsAnswered(d)
  PROVE  SyncInv'
<1>1. TypeOK /\ ops' = ops /\ ops \in Nat
  BY SyncAssumption DEF SyncInv, TypeOK
<1>2. \A e \in Devices : Rests(e)
  BY DEF Rests, device
<1>3. \A e \in Devices : Device(e)' /\ Held(e)' = Held(e)
  BY <1>1, <1>2, Bystander DEF SyncInv
<1>4. OneRequest'
  BY <1>3 DEF SyncInv, OneRequest
<1> QED
  BY <1>3, <1>4 DEF SyncInv

\* save_progress with a revision: the log, the receipts and the answer.
LEMMA SaveVersionedStep ==
  ASSUME TypeOK, Chain, Receipted, wire' = wire,
         NEW d \in Devices, NEW request \in wire[d], SaveVersioned(request)
  PROVE  /\ log' \in Seq(Entries) /\ protected' \in BOOLEAN
         /\ receipts' \subseteq [request : Requests, revision : Nat]
         /\ LogGrows /\ Chain' /\ Receipted'
         /\ Answer(request) \in [saved : BOOLEAN, revision : Nat]
         /\ Answer(request).revision <= Revision'
         /\ Answer(request).saved => Logged(request)'
         /\ log' # log => log' = Append(log, request) /\ request.expected = Revision
<1>1. /\ request \in Requests /\ request \in Entries
      /\ log \in Seq(Entries) /\ Revision \in Nat /\ protected \in BOOLEAN
      /\ receipts \subseteq [request : Requests, revision : Nat]
  <2>1. request \in Requests
    BY DEF TypeOK
  <2>2. request \in Entries
    BY <2>1 DEF Requests, Entries
  <2> QED
    BY <2>1, <2>2, LenProperties DEF TypeOK, Revision
<1>2. CASE Accepts(request)
  <2> DEFINE new == [request |-> request, revision |-> Revision + 1]
  <2>1. /\ log' = Append(log, request) /\ protected' = TRUE
        /\ receipts' = Newest(receipts \cup {new})
        /\ request.expected = Revision /\ ReceiptsOf(request.op) = {}
    BY <1>2 DEF SaveVersioned, Accepts
  <2>2. /\ log' \in Seq(Entries) /\ Revision' = Revision + 1
        /\ LogGrows /\ Chain' /\ Logged(request)'
    BY <1>1, <2>1, LogAppended
  <2>3. receipts' \subseteq receipts \cup {new}
    BY <2>1 DEF Newest
  <2>4. new \in [request : Requests, revision : Nat]
    BY <1>1
  <2>5. Receipted'
    <3>1. ASSUME NEW receipt \in receipts'
          PROVE  receipt.revision <= Revision' /\ Logged(receipt.request)'
      <4>1. CASE receipt = new
        BY <1>1, <2>2, <4>1
      <4>2. CASE receipt \in receipts
        <5>1. receipt.revision \in Nat /\ receipt.revision <= Revision /\ Logged(receipt.request)
          BY <1>1, <4>2 DEF Receipted
        <5>2. Logged(receipt.request)'
          BY <1>1, <2>2, <5>1 DEF Logged, LogGrows
        <5> QED
          BY <1>1, <2>2, <5>1, <5>2
      <4> QED
        BY <2>3, <4>1, <4>2
    <3> QED
      BY <3>1 DEF Receipted
  <2>6. Answer(request) = [saved |-> TRUE, revision |-> Revision + 1]
    BY <1>2, <2>1 DEF Answer, Replayed
  <2>7. /\ Answer(request) \in [saved : BOOLEAN, revision : Nat]
        /\ Answer(request).revision <= Revision'
    BY <1>1, <2>2, <2>6
  <2> HIDE DEF new
  <2>8. receipts' \subseteq [request : Requests, revision : Nat]
    BY <1>1, <2>3, <2>4
  <2> QED
    BY <2>1, <2>2, <2>5, <2>7, <2>8
<1>3. CASE ~Accepts(request)
  <2>1. log' = log /\ protected' = protected /\ receipts' = receipts
    BY <1>3 DEF SaveVersioned, serverVars
  <2>2. LogGrows /\ Chain' /\ Receipted' /\ Revision' = Revision
    BY <1>1, <2>1 DEF LogGrows, Chain, Receipted, Logged, Revision
  <2>3. /\ Answer(request) \in [saved : BOOLEAN, revision : Nat]
        /\ Answer(request).revision <= Revision'
        /\ Answer(request).saved => Logged(request)'
    <3>1. CASE Replayed(request)
      <4> DEFINE old == CHOOSE receipt \in ReceiptsOf(request.op) : TRUE
      <4>1. PICK receipt \in ReceiptsOf(request.op) : receipt.request = request
        BY <3>1 DEF Replayed
      <4>2. old \in ReceiptsOf(request.op)
        BY <4>1
      <4>3. Answer(request) = [saved |-> TRUE, revision |-> old.revision]
        BY <3>1 DEF Answer
      <4> HIDE DEF old
      <4>4. old \in receipts /\ receipt \in receipts
        BY <4>1, <4>2 DEF ReceiptsOf
      <4>5. old.revision \in Nat /\ old.revision <= Revision
        BY <1>1, <4>4 DEF Receipted
      <4>6. Logged(request)'
        BY <2>1, <4>1, <4>4 DEF Receipted, Logged, Revision
      <4> QED
        BY <2>2, <4>3, <4>5, <4>6
    <3>2. CASE ~Replayed(request)
      <4>1. Answer(request) = [saved |-> FALSE, revision |-> Revision]
        BY <1>3, <3>2 DEF Answer
      <4> QED
        BY <1>1, <2>2, <4>1
    <3> QED
      BY <3>1, <3>2
  <2> QED
    BY <1>1, <2>1, <2>2, <2>3
<1> QED
  BY <1>2, <1>3

\* A request arrives.
LEMMA HandleStep ==
  ASSUME SyncInv, NEW d \in Devices, NEW request \in wire[d], Handle(d, request)
  PROVE  SyncInv'
<1>1. TypeOK /\ Chain /\ Receipted
  BY DEF SyncInv
<1>2. /\ SaveVersioned(request)
      /\ UNCHANGED <<device, wire, bounds, seen, kept>>
      /\ \/ reply' = reply
         \/ /\ pc[d] = "waiting" /\ mem[d].sending = request
            /\ reply' = [reply EXCEPT ![d] = Answer(request)]
  BY DEF Handle, Receives
<1>3. /\ log' \in Seq(Entries) /\ protected' \in BOOLEAN
      /\ receipts' \subseteq [request : Requests, revision : Nat]
      /\ LogGrows /\ Chain' /\ Receipted'
      /\ Answer(request) \in [saved : BOOLEAN, revision : Nat]
      /\ Answer(request).revision <= Revision'
      /\ Answer(request).saved => Logged(request)'
  BY <1>1, <1>2, SaveVersionedStep
<1>4. TypeOK'
  <2>1. reply' \in [Devices -> [saved : BOOLEAN, revision : Nat \cup {NoRevision}]]
    <3>1. Answer(request) \in [saved : BOOLEAN, revision : Nat \cup {NoRevision}]
      BY <1>3
    <3> QED
      BY <1>1, <1>2, <3>1 DEF TypeOK
  <2> QED
    BY <1>1, <1>2, <1>3, <2>1 DEF TypeOK, device, bounds
<1>5. \A e \in Devices : reply'[e] = reply[e] \/ IsAnswered(e)
  <2>1. CASE reply' = reply
    BY <2>1
  <2>2. CASE /\ pc[d] = "waiting" /\ mem[d].sending = request
             /\ reply' = [reply EXCEPT ![d] = Answer(request)]
    <3>1. reply'[d] = Answer(request) /\ \A e \in Devices \ {d} : reply'[e] = reply[e]
      BY <1>1, <2>2 DEF TypeOK
    <3>2. Logged(request)' => Logged(mem[d].sending)'
      BY <1>2, <2>2 DEF device
    <3>3. IsAnswered(d)
      BY <1>3, <2>2, <3>1, <3>2 DEF IsAnswered
    <3> QED
      BY <3>1, <3>3
  <2> QED
    BY <1>2, <2>1, <2>2
<1>6. UNCHANGED <<device, wire, ops, seen, kept>>
  BY <1>2 DEF bounds
<1> QED
  BY <1>3, <1>4, <1>5, <1>6, ServerStep

\* A client that knows no revisions writes, or the server itself.
LEMMA ForeignStep ==
  ASSUME SyncInv, Foreign
  PROVE  SyncInv'
<1>1. TypeOK /\ Chain /\ Receipted /\ Revision \in Nat
  BY LenProperties DEF SyncInv, TypeOK, Revision
<1>2. /\ foreign < MaxForeign /\ foreign' = foreign + 1
      /\ UNCHANGED <<device, network, saves, ops, restarts, faults, seen, kept>>
  BY DEF Foreign
<1>3. PICK by \in {ByLegacy, ByServer} :
        log' = Append(log, [op |-> by, expected |-> Revision, position |-> Elsewhere])
  BY DEF Foreign, SaveLegacy, SaveInternal
<1> DEFINE entry == [op |-> by, expected |-> Revision, position |-> Elsewhere]
<1>4. protected' \in BOOLEAN /\ receipts' = receipts
  BY <1>1 DEF Foreign, SaveLegacy, SaveInternal, TypeOK
<1>5. /\ entry \in Entries /\ entry.expected = Revision
      /\ entry.op \notin Nat \ {ByLegacy}
  BY <1>1, <1>3 DEF Entries, Elsewhere, ByLegacy, ByServer
<1>6. /\ log' \in Seq(Entries) /\ Revision' = Revision + 1 /\ LogGrows /\ Chain'
  <2>1. wire' = wire /\ log' = Append(log, entry)
    BY <1>2, <1>3 DEF network
  <2> HIDE DEF entry
  <2> QED
    BY <1>1, <1>5, <2>1, LogAppended
<1>7. Receipted'
  <2>1. ASSUME NEW receipt \in receipts
        PROVE  receipt.revision <= Revision' /\ Logged(receipt.request)'
    <3>1. receipt.revision \in Nat /\ receipt.revision <= Revision /\ Logged(receipt.request)
      BY <1>1 DEF Receipted, TypeOK
    <3> QED
      BY <1>1, <1>6, <3>1 DEF Logged, LogGrows
  <2> QED
    BY <1>4, <2>1 DEF Receipted
<1>8. TypeOK'
  <2>1. foreign' \in 0..MaxForeign
    BY <1>1, <1>2, SyncAssumption DEF TypeOK
  <2> QED
    BY <1>1, <1>2, <1>4, <1>6, <2>1 DEF TypeOK, device, network
<1>9. UNCHANGED <<device, wire, ops, seen, kept>> /\ \A d \in Devices : reply'[d] = reply[d]
  BY <1>2 DEF network
<1> QED
  BY <1>6, <1>7, <1>8, <1>9, ServerStep

-----------------------------------------------------------------------------
(* The invariant *)

\* At the start nobody has saved anything, and the device knows revision 0.
LEMMA SyncInit ==
  ASSUME Init
  PROVE  SyncInv
<1>1. Opened(0) \in Writers /\ Opened(0).sending = NoRequest /\ Within(Opened(0), 0)
      /\ ~Pending(Opened(0)) /\ ~InConflict(Opened(0)) /\ ~Queued(Opened(0))
  BY OpenedWriter
<1>2. /\ log = <<>> /\ protected = FALSE /\ receipts = {}
      /\ mem = [d \in Devices |-> Opened(0)] /\ disk = [d \in Devices |-> Opened(0)]
      /\ pc = [d \in Devices |-> "idle"] /\ loaded = [d \in Devices |-> Opened(0)]
      /\ asked = [d \in Devices |-> NotAsked]
      /\ wire = [d \in Devices |-> {}] /\ reply = [d \in Devices |-> NoReply]
      /\ saves = 0 /\ ops = 0 /\ foreign = 0 /\ restarts = 0 /\ faults = 0
      /\ seen = [d \in Devices |-> 0] /\ kept = [d \in Devices |-> NoPosition]
  BY DEF Init, ServerInit
<1>3. log \in Seq(Entries) /\ Revision = 0
  BY <1>2, EmptySeq DEF Revision
<1>4. TypeOK
  <2>1. NotAsked \in [revision : Nat \cup {NoRevision}, waiting : BOOLEAN, newer : BOOLEAN]
        /\ NoReply \in [saved : BOOLEAN, revision : Nat \cup {NoRevision}]
        /\ NoPosition \in Nat
    BY DEF NotAsked, NoReply, NoPosition
  <2>2. /\ saves \in 0..MaxSaves /\ ops \in 0..MaxOps /\ foreign \in 0..MaxForeign
        /\ restarts \in 0..MaxRestarts /\ faults \in 0..MaxFaults
    BY <1>2, SyncAssumption
  <2> QED
    BY <1>1, <1>2, <1>3, <2>1, <2>2 DEF TypeOK
<1>5. Chain /\ Receipted
  BY <1>2, <1>3 DEF Chain, Receipted
<1>6. \A d \in Devices : Held(d) = {}
  BY <1>1, <1>2 DEF Held
<1>7. ASSUME NEW d \in Devices PROVE Device(d)
  <2>1. /\ mem[d] = Opened(0) /\ disk[d] = Opened(0) /\ loaded[d] = Opened(0)
        /\ pc[d] = "idle" /\ asked[d] = NotAsked /\ reply[d] = NoReply
        /\ seen[d] = 0 /\ kept[d] = NoPosition
    BY <1>2
  <2>2. Informed(d)
    BY <1>1, <1>3, <1>6, <2>1 DEF Informed, NotAsked, NoReply, NoRevision
  <2>3. Awaiting(d)
    BY <2>1 DEF Awaiting
  <2>4. Choosing(d) /\ Settled(d) /\ Safe(d)
    BY <1>1, <2>1 DEF Choosing, Settled, Safe, NotAsked
  <2> QED
    BY <2>2, <2>3, <2>4 DEF Device
<1>8. OneRequest
  BY <1>6 DEF OneRequest
<1> QED
  BY <1>4, <1>5, <1>7, <1>8 DEF SyncInv

\* Every step keeps the invariant.
LEMMA SyncStep ==
  ASSUME SyncInv, [Next]_vars
  PROVE  SyncInv'
<1>1. ASSUME NEW d \in Devices, Reopen(d) PROVE SyncInv'
  BY <1>1, ReopenStep
<1>2. ASSUME NEW d \in Devices, Restore(d) PROVE SyncInv'
  BY <1>2, RestoreStep
<1>3. ASSUME NEW d \in Devices, RestoreFails(d) PROVE SyncInv'
  BY <1>3, RestoreFailsStep
<1>4. ASSUME NEW d \in Devices, Save(d) PROVE SyncInv'
  BY <1>4, SaveStep
<1>5. ASSUME NEW d \in Devices, Send(d) PROVE SyncInv'
  BY <1>5, SendStep
<1>6. ASSUME NEW d \in Devices, Receive(d) PROVE SyncInv'
  BY <1>6, ReceiveStep
<1>7. ASSUME NEW d \in Devices, GiveUp(d) PROVE SyncInv'
  BY <1>7, GiveUpStep
<1>8. ASSUME NEW d \in Devices, Flush(d) PROVE SyncInv'
  BY <1>8, FlushStep
<1>9. ASSUME NEW d \in Devices, Observe(d) PROVE SyncInv'
  BY <1>9, ObserveStep
<1>10. ASSUME NEW d \in Devices, KeepLocal(d) PROVE SyncInv'
  BY <1>10, KeepLocalStep
<1>11. ASSUME NEW d \in Devices, AskServer(d) PROVE SyncInv'
  BY <1>11, AskServerStep
<1>12. ASSUME NEW d \in Devices, TellDevice(d) PROVE SyncInv'
  BY <1>12, TellDeviceStep
<1>13. ASSUME NEW d \in Devices, UseServer(d) PROVE SyncInv'
  BY <1>13, UseServerStep
<1>14. ASSUME NEW d \in Devices, AskFails(d) PROVE SyncInv'
  BY <1>14, AskFailsStep
<1>15. ASSUME NEW d \in Devices, NEW request \in wire[d], Handle(d, request) PROVE SyncInv'
  BY <1>15, HandleStep
<1>16. CASE Foreign
  BY <1>16, ForeignStep
<1>17. CASE UNCHANGED vars
  BY <1>17 DEF vars, serverVars, device, network, bounds, SyncInv, TypeOK, Chain, Receipted,
               OneRequest, Held, Device, Informed, Awaiting, Choosing, Settled, Safe, Logged,
               Reached, Revision
<1> QED
  BY <1>1, <1>2, <1>3, <1>4, <1>5, <1>6, <1>7, <1>8, <1>9, <1>10, <1>11, <1>12, <1>13, <1>14,
     <1>15, <1>16, <1>17 DEF Next

\* Through crashes, lost, late and repeated messages, and the choices of the
\* user, the log, the devices and what is on the wire agree as SyncInv says.
THEOREM SyncInvAlways == Spec => []SyncInv
<1>1. Init => SyncInv
  BY SyncInit
<1>2. SyncInv /\ [Next]_vars => SyncInv'
  BY SyncStep
<1> QED
  BY <1>1, <1>2, PTL DEF Spec

\* Every variable keeps its type.
THEOREM TypeOKAlways == Spec => []TypeOK
<1>1. SyncInv => TypeOK
  BY DEF SyncInv
<1> QED
  BY <1>1, SyncInvAlways, PTL

-----------------------------------------------------------------------------
(* What it is for *)

\* An entry of the log names the revision before it, so that two entries of one
\* operation, which are one request, are one entry.
LEMMA SyncInvAppliedOnce ==
  ASSUME SyncInv
  PROVE  AppliedOnce
<1>1. SUFFICES ASSUME NEW i \in 1..Revision, NEW j \in 1..Revision,
                      log[i].op \in Nat \ {ByLegacy}, log[i].op = log[j].op
               PROVE  i = j
  BY DEF AppliedOnce
<1>2. log[i].expected = i - 1 /\ log[j].expected = j - 1
  BY DEF SyncInv, Chain
<1>3. PICK d \in Devices : log[i] \in wire[d]
  BY <1>1 DEF SyncInv, Chain
<1>4. PICK e \in Devices : log[j] \in wire[e]
  BY <1>1 DEF SyncInv, Chain
<1>5. log[i] \in Held(d) /\ log[j] \in Held(e)
  BY <1>3, <1>4 DEF Held
<1>6. log[i] = log[j]
  BY <1>1, <1>5 DEF SyncInv, OneRequest
<1> QED
  BY <1>2, <1>6

\* A position is written once, however often its request is delivered and
\* whether or not the receipt of it is still there (save_progress: the
\* expected revision refuses what the receipt no longer recognises).
THEOREM AppliedOnceAlways == Spec => []AppliedOnce
<1>1. SyncInv => AppliedOnce
  BY SyncInvAppliedOnce
<1> QED
  BY <1>1, SyncInvAlways, PTL

\* A position on the disk of a device stays there until the server has had it,
\* a newer one took its place or its user gave it up.
THEOREM NothingForgottenAlways == Spec => []NothingForgotten
<1>1. SyncInv => NothingForgotten
  BY DEF SyncInv, Device, Safe, NothingForgotten
<1> QED
  BY <1>1, SyncInvAlways, PTL

\* A step that writes what a device asked for finds the device informed of the
\* revision it replaces.
LEMMA StepNoBlindOverwrite ==
  ASSUME SyncInv, [Next]_vars, NEW d \in Devices, log' # log, log'[Len(log')] \in wire[d]
  PROVE  seen[d] = Revision
<1>1. TypeOK /\ Chain /\ Receipted
  BY DEF SyncInv
<1>2. log \in Seq(Entries) /\ Revision \in Nat /\ seen[d] \in Nat /\ wire[d] \subseteq Requests
  BY <1>1, DeviceTypes DEF TypeOK
<1>3. CASE \E e \in Devices : \E request \in wire[e] : Handle(e, request)
  <2>1. PICK e \in Devices : \E request \in wire[e] : Handle(e, request)
    BY <1>3
  <2>2. PICK request \in wire[e] : Handle(e, request)
    BY <2>1
  <2>3. SaveVersioned(request) /\ wire' = wire
    BY <2>2 DEF Handle
  <2>4. log' = Append(log, request) /\ request.expected = Revision
    BY <1>1, <2>3, SaveVersionedStep
  <2>5. request \in Entries
    BY <1>1, DeviceTypes DEF Requests, Entries
  <2>6. log'[Len(log')] = request
    BY <1>2, <2>4, <2>5, AppendProperties DEF Revision
  <2>7. request \in Held(d)
    BY <2>6 DEF Held
  <2>8. request.expected <= seen[d] /\ seen[d] <= Revision
    BY <2>7 DEF SyncInv, Device, Informed
  <2> QED
    BY <1>2, <2>4, <2>8
<1>4. CASE Foreign
  <2>1. PICK by \in {ByLegacy, ByServer} :
          log' = Append(log, [op |-> by, expected |-> Revision, position |-> Elsewhere])
    BY <1>4 DEF Foreign, SaveLegacy, SaveInternal
  <2> DEFINE entry == [op |-> by, expected |-> Revision, position |-> Elsewhere]
  <2>2. entry \in Entries /\ entry \notin Requests
    BY <1>2 DEF Entries, Requests, Elsewhere, ByLegacy, ByServer
  <2>3. log' = Append(log, entry)
    BY <2>1
  <2> HIDE DEF entry
  <2>4. log'[Len(log')] = entry
    BY <1>2, <2>2, <2>3, AppendProperties
  <2> QED
    BY <1>2, <2>2, <2>4
<1>5. ASSUME NEW e \in Devices,
             \/ Reopen(e) \/ Restore(e) \/ RestoreFails(e)
             \/ Save(e) \/ Send(e) \/ Receive(e) \/ GiveUp(e) \/ Flush(e)
             \/ Observe(e) \/ KeepLocal(e)
             \/ AskServer(e) \/ TellDevice(e) \/ UseServer(e) \/ AskFails(e)
      PROVE  log' = log
  BY <1>5 DEF Reopen, Restore, RestoreFails, Save, Send, Receive, GiveUp, Flush, Observe,
              KeepLocal, AskServer, TellDevice, UseServer, AskFails, serverVars
<1>6. CASE UNCHANGED vars
  BY <1>6 DEF vars, serverVars
<1> QED
  BY <1>3, <1>4, <1>5, <1>6 DEF Next

\* No device replaces a position it has not been told of (the base revision of
\* a request, "current.revision != expected_revision").
THEOREM NoBlindOverwriteAlways == Spec => NoBlindOverwrite
<1>1. SyncInv /\ [Next]_vars =>
        [\A d \in Devices :
           log' # log /\ log'[Len(log')] \in wire[d] => seen[d] = Revision]_vars
  BY StepNoBlindOverwrite
<1> QED
  BY <1>1, SyncInvAlways, PTL DEF Spec, NoBlindOverwrite

\* A device that stops waiting has taken an answer or given up, and knows no
\* older a revision than it did.
LEMMA StepReceiptNeverLowers ==
  ASSUME SyncInv, [Next]_vars, NEW d \in Devices, pc[d] = "waiting", pc'[d] = "idle"
  PROVE  mem'[d].known >= mem[d].known
<1>1. TypeOK /\ pc \in [Devices -> {"restoring", "idle", "waiting"}]
  BY DEF SyncInv, TypeOK
<1>2. mem[d].known \in Nat
  BY <1>1, DeviceTypes, WriterFields
<1>3. ASSUME NEW e \in Devices, Receive(e) PROVE mem'[d].known >= mem[d].known
  <2>1. e = d
    BY <1>1, <1>3 DEF Receive, At
  <2> QED
    BY <1>3, <2>1, ReceiveStep
<1>4. ASSUME NEW e \in Devices, GiveUp(e) PROVE mem'[d].known >= mem[d].known
  BY <1>2, <1>4 DEF GiveUp
<1>5. ASSUME NEW e \in Devices, Reopen(e) \/ Restore(e) \/ Send(e) PROVE FALSE
  BY <1>1, <1>5 DEF Reopen, Restore, Send, At
<1>6. ASSUME NEW e \in Devices,
             \/ RestoreFails(e) \/ Save(e) \/ Flush(e) \/ Observe(e) \/ KeepLocal(e)
             \/ AskServer(e) \/ TellDevice(e) \/ UseServer(e) \/ AskFails(e)
             \/ \E request \in wire[e] : Handle(e, request)
      PROVE  FALSE
  BY <1>6 DEF RestoreFails, Save, Flush, Observe, KeepLocal, AskServer, TellDevice, UseServer,
              AskFails, Handle, device
<1>7. CASE Foreign \/ UNCHANGED vars
  BY <1>7 DEF Foreign, vars, device
<1> QED
  BY <1>3, <1>4, <1>5, <1>6, <1>7 DEF Next

\* An answer that comes late, to an operation of long ago, does not take a
\* device back to a revision older than it knows.
THEOREM ReceiptNeverLowersAlways == Spec => ReceiptNeverLowers
<1>1. SyncInv /\ [Next]_vars =>
        [\A d \in Devices :
           pc[d] = "waiting" /\ pc'[d] = "idle" => mem'[d].known >= mem[d].known]_vars
  BY StepReceiptNeverLowers
<1> QED
  BY <1>1, SyncInvAlways, PTL DEF Spec, ReceiptNeverLowers
=============================================================================
