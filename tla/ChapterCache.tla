---------------------------- MODULE ChapterCache ----------------------------
(***************************************************************************)
(* ChapterCacheCoordinator (chapter_cache.py): the server fetches a book's *)
(* chapters one after the other in the background, and lets a reader who   *)
(* opens a chapter go first.                                               *)
(*                                                                         *)
(* All of it runs on one event loop, so an action here is what one task    *)
(* does between two awaits.  A download is named by its chapter: the       *)
(* coordinator starts a second one only when the first is over.  Tasks the *)
(* end of one await releases (a set event, a finished download) are marked *)
(* at once and run later, after whatever else was ready; the order in      *)
(* which they then run is left open.                                       *)
(*                                                                         *)
(* A book may be deleted: cancel_book cancels what runs for it and waits,  *)
(* and until its row goes readers may still come.  A worker it cancels     *)
(* runs once more, to end, before a worker created later begins.  The test *)
(* "key not in self._queued" is never true of a worker that goes on, and   *)
(* is not here.                                                            *)
(***************************************************************************)
EXTENDS FiniteSets, FiniteSetsExt, Integers, SequencesExt

CONSTANTS
  Books,
  ChaptersOf,   \* the chapters of each book's table of contents
  Managed,      \* the books cached whole ("on_demand", on Linux)
  Readers,      \* requests for a chapter's text: each is made once
  NoKey,
  Deletable,    \* bound: the books users may delete
  MaxUpsets     \* bound: how often the server goes down or a book is deleted

ASSUME CacheAssumption ==
  /\ IsFiniteSet(Books) /\ IsFiniteSet(Readers)
  /\ \A b \in Books : ChaptersOf[b] \subseteq Nat \ {0} /\ IsFiniteSet(ChaptersOf[b])
  /\ Managed \subseteq Books
  /\ Deletable \subseteq Books
  /\ MaxUpsets \in Nat

Keys == UNION {{b} \X ChaptersOf[b] : b \in Books}

ASSUME NoKeyIsNoKey == NoKey \notin Keys

VARIABLES
  cached,      \* the chapters whose text is stored
  queue,       \* _queues: each book's chapters waiting for the background
  queued,      \* _queued: the chapters some queue or its worker has
  worker,      \* _workers: where each book's background task is, and its chapter
  slot,        \* _background_slot: who has it, then who waits for it
  background,  \* _background_current: the chapter fetched in the background
  download,    \* _inflight: the state of each chapter's download
  reader,      \* where each request is, and the chapters it protects
  prefetch,    \* _prefetch_tasks: the read-ahead task of each chapter
  count,       \* _foreground_count
  protected,   \* _foreground_keys: in how many sections each chapter is
  idle,        \* _foreground_idle, an Event
  fate,        \* each book: kept, in cancel_book ("going"), or deleted
  leaving,     \* the worker cancel_book has cancelled, until it ends
  gathered,    \* the other tasks a cancel_book awaits
  upsets

vars == <<cached, queue, queued, worker, slot, background, download, reader,
          prefetch, count, protected, idle, fate, leaving, gathered, upsets>>
foreground == <<count, protected, idle>>
deletion == <<fate, leaving, gathered>>

Outcomes == {"ok", "error", "cancelled"}

\* A worker is "new", waits for idle ("pause", "resume" when that wait is
\* over), is in sleep(0) ("yield"), waits for the slot, waits for idle again,
\* or awaits a download, which may have ended ("ended": its outcome is known).
WorkerStates == {"none", "new", "pause", "resume", "yield", "slot",
                 "pause2", "resume2", "fetch"} \cup Outcomes

NoWorker == [at |-> "none", chapter |-> 0]
Over == [at |-> "over", key |-> NoKey, ahead |-> {}]
NewWorker == [at |-> "new", chapter |-> 0]
Nobody == [at |-> "none", last |-> FALSE]
Fetching == {"fetch"} \cup Outcomes
InSection == {"waits"} \cup Outcomes

TypeOK ==
  /\ cached \subseteq Keys
  /\ queued \subseteq Keys
  /\ \A b \in Books : queue[b] \in Seq(ChaptersOf[b])
  /\ DOMAIN queue = Books
  /\ worker \in [Books -> [at : WorkerStates, chapter : Nat]]
  /\ \A b \in Books :
       IF worker[b].at \in {"none", "new"}
       THEN worker[b].chapter = 0 ELSE worker[b].chapter \in ChaptersOf[b]
  /\ slot \in Seq(Books)
  /\ background \in Keys \cup {NoKey}
  /\ download \in [Keys -> {"none", "running", "cancelling"}]
  /\ reader \in [Readers -> [at : {"out", "over"} \cup InSection,
                            key : Keys \cup {NoKey}, ahead : SUBSET Keys]]
  /\ \A r \in Readers : reader[r].at \in InSection => reader[r].key # NoKey
  /\ prefetch \in [Keys -> {"none", "new", "preempting", "dropped"} \cup InSection]
  /\ count \in Nat
  /\ protected \in [Keys -> Nat]
  /\ idle \in BOOLEAN
  /\ fate \in [Books -> {"kept", "going", "gone"}]
  /\ leaving \in [Books -> [at : WorkerStates, last : BOOLEAN]]
  /\ gathered \subseteq Keys \X {"download", "prefetch"}
  /\ upsets \in 0 .. MaxUpsets
-----------------------------------------------------------------------------
\* sorted: the i-th chapter is the one with i - 1 below it.
InOrder(chapters) ==
  [i \in 1 .. Cardinality(chapters) |->
     CHOOSE c \in chapters : Cardinality({d \in chapters : d < c}) = i - 1]

\* _cache_task_for: a download that is not over is shared, even when it has
\* been cancelled and is only about to end.
CacheTaskFor(k, downloads) ==
  IF downloads[k] = "none" THEN [downloads EXCEPT ![k] = "running"] ELSE downloads

\* For mutation: a section protects its chapters, however many others do.
EnterMarking(keys) ==
  /\ count' = count + 1
  /\ idle' = FALSE
  /\ protected' = [k \in Keys |-> IF k \in keys THEN 1 ELSE protected[k]]

\* _enter_foreground: from now on the background waits; the download it has
\* under way is cancelled when the section preempts and nobody needs it.
Enter(keys) ==
  /\ count' = count + 1
  /\ idle' = FALSE
  /\ protected' = [k \in Keys |-> protected[k] + (IF k \in keys THEN 1 ELSE 0)]

\* For mutation: the cancelled download is forgotten before it has ended.
PreemptedForgetting(downloads) ==
  [k \in Keys |-> IF k = background /\ protected'[k] = 0 /\ downloads[k] = "running"
                  THEN "none" ELSE downloads[k]]

Preempted(downloads) ==
  [k \in Keys |-> IF k = background /\ protected'[k] = 0 /\ downloads[k] = "running"
                  THEN "cancelling" ELSE downloads[k]]

\* Event.set: the workers that await the event will run again, whatever happens
\* to it before they do.
Released(w) ==
  IF w.at = "pause" THEN [w EXCEPT !.at = "resume"]
  ELSE IF w.at = "pause2" THEN [w EXCEPT !.at = "resume2"]
  ELSE w

\* For mutation: the chapters of a section that ends are no longer protected.
LeaveUncounted(keys) ==
  /\ protected' = [k \in Keys |-> IF k \in keys THEN 0 ELSE protected[k]]
  /\ count' = IF count > 0 THEN count - 1 ELSE 0
  /\ idle' = (idle \/ count' = 0)
  /\ worker' = IF count' = 0 THEN [b \in Books |-> Released(worker[b])] ELSE worker

\* For mutation: a section that ends counts, but does not set the event.
LeaveSilently(keys) ==
  /\ protected' = [k \in Keys |-> IF k \in keys /\ protected[k] > 0
                                  THEN protected[k] - 1 ELSE protected[k]]
  /\ count' = IF count > 0 THEN count - 1 ELSE 0
  /\ UNCHANGED <<idle, worker>>

\* _leave_foreground: the last section to end sets the event, which releases
\* every worker that awaits it.
Leave(keys) ==
  /\ protected' = [k \in Keys |-> IF k \in keys /\ protected[k] > 0
                                  THEN protected[k] - 1 ELSE protected[k]]
  /\ count' = IF count > 0 THEN count - 1 ELSE 0
  /\ idle' = (idle \/ count' = 0)
  /\ worker' = IF count' = 0 THEN [b \in Books |-> Released(worker[b])] ELSE worker

\* _run_book, from the top of the loop to the first await: the next chapter,
\* or the end of the worker when its queue is empty.
TakeNext(b, chapters) ==
  IF chapters = <<>>
  THEN /\ worker' = [worker EXCEPT ![b] = NoWorker]
       /\ queue' = [queue EXCEPT ![b] = <<>>]
  ELSE /\ worker' = [worker EXCEPT ![b] =
                       [at |-> IF idle THEN "yield" ELSE "pause", chapter |-> Head(chapters)]]
       /\ queue' = [queue EXCEPT ![b] = Tail(chapters)]

\* _run_book, in the slot and with the readers idle: the download.  That of a
\* deleted book fails at once, before anyone else runs.
BeginDownload(b) ==
  LET k == <<b, worker[b].chapter>>
  IN  /\ background' = k
      /\ \/ /\ fate[b] # "gone"
            /\ download' = CacheTaskFor(k, download)
            /\ worker' = [worker EXCEPT ![b].at = "fetch"]
         \/ /\ fate[b] = "gone"
            /\ worker' = [worker EXCEPT ![b].at = "error"]
            /\ UNCHANGED download

\* _resume_server_managed_source_caches: what a server that starts with some
\* chapters stored has to fetch, and the workers it creates for it.
Missing(b, stored) == {c \in ChaptersOf[b] : <<b, c>> \notin stored}

Startup(stored) ==
  LET books == {b \in Managed : fate[b] # "gone" /\ Missing(b, stored) # {}}
  IN  /\ queue' = [b \in Books |-> IF b \in books THEN InOrder(Missing(b, stored)) ELSE <<>>]
      /\ queued' = UNION {{b} \X Missing(b, stored) : b \in books}
      /\ worker' = [b \in Books |-> IF b \in books THEN NewWorker ELSE NoWorker]

-----------------------------------------------------------------------------
\* A first start: every book has been imported and no chapter fetched yet.
Init ==
  /\ cached = {}
  /\ queue = [b \in Books |-> IF b \in Managed THEN InOrder(ChaptersOf[b]) ELSE <<>>]
  /\ queued = UNION {{b} \X ChaptersOf[b] : b \in Managed}
  /\ worker = [b \in Books |-> IF queue[b] # <<>> THEN NewWorker ELSE NoWorker]
  /\ slot = <<>>
  /\ background = NoKey
  /\ download = [k \in Keys |-> "none"]
  /\ reader = [r \in Readers |->
                 [at |-> "out", key |-> NoKey, ahead |-> {}]]
  /\ prefetch = [k \in Keys |-> "none"]
  /\ count = 0
  /\ protected = [k \in Keys |-> 0]
  /\ idle = TRUE
  /\ fate = [b \in Books |-> "kept"]
  /\ leaving = [b \in Books |-> Nobody]
  /\ gathered = {}
  /\ upsets = 0

\* schedule: chapters not asked for yet join the book's queue in order, and a
\* worker starts unless one is at work.
Schedule(b) ==
  /\ fate[b] # "gone"
  /\ \E chapters \in SUBSET Missing(b, cached) \ {{}} :
       LET fresh == {c \in chapters : <<b, c>> \notin queued}
           longer == queue[b] \o InOrder(fresh)
       IN  /\ queue' = [queue EXCEPT ![b] = longer]
           /\ queued' = queued \cup ({b} \X fresh)
           /\ worker' = IF worker[b] = NoWorker /\ longer # <<>>
                        THEN [worker EXCEPT ![b] = NewWorker] ELSE worker
  /\ UNCHANGED <<cached, slot, background, download, reader, prefetch,
                 foreground, deletion, upsets>>

\* prefetch: a task per chapter that has none.
Prefetching(keys, state) ==
  prefetch' = [k \in Keys |-> IF k \in keys /\ prefetch[k] = "none" THEN state ELSE prefetch[k]]

NextChapter(k) == {n \in Keys \ cached : n = <<k[1], k[2] + 1>>}

\* ensure, up to its await: the chapter's download starts or is shared at once,
\* and the next chapter's is prepared unless the request is itself a read-ahead.
Ensure(r) ==
  /\ reader[r].at = "out"
  /\ \E k \in Keys \ cached : \E ahead \in {{}, NextChapter(k)} :
       /\ fate[k[1]] # "gone"
       /\ Enter({k} \cup ahead)
       /\ download' = CacheTaskFor(k, Preempted(download))
       /\ Prefetching(ahead, "new")
       /\ reader' = [reader EXCEPT ![r] =
                       [at |-> "waits", key |-> k, ahead |-> ahead]]
  /\ UNCHANGED <<cached, queue, queued, worker, slot, background, deletion, upsets>>

\* A reader opens a stored chapter: only the next one is prepared.
ReadStored(r) ==
  /\ reader[r].at = "out"
  /\ \E k \in cached :
       /\ NextChapter(k) # {}
       /\ Prefetching(NextChapter(k), "preempting")
  /\ reader' = [reader EXCEPT ![r] = Over]
  /\ UNCHANGED <<cached, queue, queued, worker, slot, background, download,
                 foreground, deletion, upsets>>

LeaveReader(r) == Leave({reader[r].key} \cup reader[r].ahead)

\* ensure, when its download has ended.
ReaderWakes(r) ==
  /\ reader[r].at \in Outcomes
  /\ LeaveReader(r)
  /\ reader' = [reader EXCEPT ![r] = Over]
  /\ UNCHANGED <<cached, queue, queued, slot, background, download, prefetch,
                 deletion, upsets>>

\* The client goes away: the request is cancelled, the shielded download not.
Disconnect(r) ==
  /\ reader[r].at = "waits"
  /\ LeaveReader(r)
  /\ reader' = [reader EXCEPT ![r] = Over]
  /\ UNCHANGED <<cached, queue, queued, slot, background, download, prefetch,
                 deletion, upsets>>

\* _run_prefetch, up to its await, and when its download has ended; that of a
\* deleted book fails at once.
PrefetchStarts(k) ==
  LET others == IF prefetch[k] = "preempting" THEN Preempted(download) ELSE download
      gone == fate[k[1]] = "gone"
  IN  /\ prefetch[k] \in {"new", "preempting"}
      /\ Enter({k})
      /\ download' = IF gone THEN others ELSE CacheTaskFor(k, others)
      /\ prefetch' = [prefetch EXCEPT ![k] = IF gone THEN "error" ELSE "waits"]
      /\ UNCHANGED <<cached, queue, queued, worker, slot, background, reader,
                     deletion, upsets>>

PrefetchWakes(k) ==
  /\ prefetch[k] \in Outcomes
  /\ Leave({k})
  /\ prefetch' = [prefetch EXCEPT ![k] = "none"]
  /\ gathered' = gathered \ {<<k, "prefetch">>}
  /\ UNCHANGED <<cached, queue, queued, slot, background, download, reader,
                 fate, leaving, upsets>>

\* A read-ahead cancelled before its first step ends without one.
PrefetchDropped(k) ==
  /\ prefetch[k] = "dropped"
  /\ prefetch' = [prefetch EXCEPT ![k] = "none"]
  /\ gathered' = gathered \ {<<k, "prefetch">>}
  /\ UNCHANGED <<cached, queue, queued, worker, slot, background, download,
                 reader, foreground, fate, leaving, upsets>>

\* _run_book, await by await.
WorkerStarts(b) ==
  /\ worker[b].at = "new"
  /\ leaving[b] = Nobody
  /\ TakeNext(b, queue[b])
  /\ UNCHANGED <<cached, queued, slot, background, download, reader, prefetch,
                 foreground, deletion, upsets>>

WorkerResumes(b) ==
  /\ worker[b].at = "resume"
  /\ worker' = [worker EXCEPT ![b].at = "yield"]
  /\ UNCHANGED <<cached, queue, queued, slot, background, download, reader,
                 prefetch, foreground, deletion, upsets>>

\* With the slot: the download, or another wait when a reader has come.
InSlot(b) ==
  \/ idle /\ BeginDownload(b)
  \/ /\ ~idle
     /\ worker' = [worker EXCEPT ![b].at = "pause2"]
     /\ UNCHANGED <<download, background>>

WorkerQueuesForSlot(b) ==
  /\ worker[b].at = "yield"
  /\ slot' = Append(slot, b)
  /\ \/ slot = <<>> /\ InSlot(b)
     \/ /\ slot # <<>>
        /\ worker' = [worker EXCEPT ![b].at = "slot"]
        /\ UNCHANGED <<download, background>>
  /\ UNCHANGED <<cached, queue, queued, reader, prefetch, foreground, deletion,
                 upsets>>

WorkerHasSlot(b) ==
  /\ worker[b].at = "slot"
  /\ Head(slot) = b
  /\ InSlot(b)
  /\ UNCHANGED <<cached, queue, queued, slot, reader, prefetch, foreground,
                 deletion, upsets>>

\* The event was set while the worker had the slot: it goes on, and does not
\* look at the event again.
WorkerResumesInSlot(b) ==
  /\ worker[b].at = "resume2"
  /\ BeginDownload(b)
  /\ UNCHANGED <<cached, queue, queued, slot, reader, prefetch, foreground,
                 deletion, upsets>>

\* For mutation: a chapter pushed aside goes to the end of the queue.
WorkerWakesRequeueing(b) ==
  LET c == worker[b].chapter
      preempted == worker[b].at = "cancelled"
  IN  /\ worker[b].at \in Outcomes
      /\ slot' = Tail(slot)
      /\ background' = NoKey
      /\ TakeNext(b, IF preempted THEN Append(queue[b], c) ELSE queue[b])
      /\ queued' = IF preempted THEN queued ELSE queued \ {<<b, c>>}
      /\ UNCHANGED <<cached, download, reader, prefetch, foreground, deletion, upsets>>

\* The download ended: one a reader pushed aside is put back at the head of
\* the queue, any other is done with; then the next chapter.
WorkerWakes(b) ==
  LET c == worker[b].chapter
      preempted == worker[b].at = "cancelled"
  IN  /\ worker[b].at \in Outcomes
      /\ slot' = Tail(slot)
      /\ background' = NoKey
      /\ TakeNext(b, IF preempted THEN <<c>> \o queue[b] ELSE queue[b])
      /\ queued' = IF preempted THEN queued ELSE queued \ {<<b, c>>}
      /\ UNCHANGED <<cached, download, reader, prefetch, foreground, deletion, upsets>>

\* _cache_source_chapter_by_id ends, and everyone who awaits it will run again.
\* One that is cancelled while it commits the chapter commits it all the same.
DownloadEnds(k, outcome) ==
  /\ download' = [download EXCEPT ![k] = "none"]
  /\ reader' = [r \in Readers |-> IF reader[r].at = "waits" /\ reader[r].key = k
                                  THEN [reader[r] EXCEPT !.at = outcome] ELSE reader[r]]
  /\ prefetch' = IF prefetch[k] = "waits" THEN [prefetch EXCEPT ![k] = outcome] ELSE prefetch
  /\ worker' = IF worker[k[1]] = [at |-> "fetch", chapter |-> k[2]]
               THEN [worker EXCEPT ![k[1]].at = outcome] ELSE worker
  /\ gathered' = gathered \ {<<k, "download">>}
  /\ UNCHANGED <<queue, queued, slot, background, foreground, fate, leaving, upsets>>

\* _commit_source_chapter_payload: nothing is stored for a deleted book.
Stored(k) == IF fate[k[1]] = "gone" THEN cached ELSE cached \cup {k}

Downloaded(k) ==
  /\ download[k] = "running"
  /\ cached' = Stored(k)
  /\ DownloadEnds(k, "ok")

\* For mutation: an error is swallowed, and nobody who waits hears of it.
DownloadFailsSilently(k) ==
  /\ download[k] = "running"
  /\ k \notin cached
  /\ download' = [download EXCEPT ![k] = "none"]
  /\ UNCHANGED <<cached, queue, queued, worker, slot, background, reader,
                 prefetch, foreground, deletion, upsets>>

DownloadFails(k) ==
  /\ download[k] = "running"
  /\ k \notin cached
  /\ DownloadEnds(k, "error")
  /\ UNCHANGED cached

DownloadCancelled(k) ==
  /\ download[k] = "cancelling"
  /\ cached' \in {cached, Stored(k)}
  /\ DownloadEnds(k, "cancelled")

\* cancel_book, up to its await: the chapters waiting are forgotten (the one the
\* worker holds stays in _queued), every task of the book is cancelled.
CancelBook(b) ==
  LET own == {k \in Keys : k[1] = b}
  IN  /\ b \in Deletable
      /\ upsets < MaxUpsets
      /\ upsets' = upsets + 1
      /\ fate[b] = "kept"
      /\ fate' = [fate EXCEPT ![b] = "going"]
      /\ queue' = [queue EXCEPT ![b] = <<>>]
      /\ queued' = queued \ ({b} \X Range(queue[b]))
      /\ worker' = [worker EXCEPT ![b] = NoWorker]
      /\ leaving' = [leaving EXCEPT ![b] =
                       [at |-> worker[b].at,
                        last |-> worker[b].at \notin {"none", "new"} /\ queue[b] = <<>>]]
      /\ prefetch' = [k \in Keys |->
                        IF k \notin own \/ prefetch[k] = "none" THEN prefetch[k]
                        ELSE IF prefetch[k] \in InSection THEN "cancelled" ELSE "dropped"]
      /\ download' = [k \in Keys |-> IF k \in own /\ download[k] = "running"
                                     THEN "cancelling" ELSE download[k]]
      /\ gathered' = gathered
           \cup {<<k, "download">> : k \in {j \in own : download[j] # "none"}}
           \cup {<<k, "prefetch">> : k \in {j \in own : prefetch[j] # "none"}}
      /\ UNCHANGED <<cached, slot, background, reader, foreground>>

\* The cancelled worker ends, out of the slot or of the line for it.  When it
\* had taken the last chapter it drops the book's queue, even one that a
\* schedule has made since.
WorkerLeaves(b) ==
  /\ leaving[b] # Nobody
  /\ leaving' = [leaving EXCEPT ![b] = Nobody]
  /\ slot' = IF b \in Range(slot) THEN RemoveAt(slot, CHOOSE i \in DOMAIN slot : slot[i] = b)
             ELSE slot
  /\ background' = IF leaving[b].at \in Fetching THEN NoKey ELSE background
  /\ queue' = IF leaving[b].last THEN [queue EXCEPT ![b] = <<>>] ELSE queue
  /\ UNCHANGED <<cached, queued, worker, download, reader, prefetch, foreground,
                 fate, gathered, upsets>>

\* The rest of cancel_book and of the deletion: tasks that began meanwhile are
\* forgotten, not cancelled.
DeleteBook(b) ==
  /\ fate[b] = "going"
  /\ leaving[b] = Nobody
  /\ \A g \in gathered : g[1][1] # b
  /\ fate' = [fate EXCEPT ![b] = "gone"]
  /\ cached' = {k \in cached : k[1] # b}
  /\ background' = IF background # NoKey /\ background[1] = b THEN NoKey ELSE background
  /\ UNCHANGED <<queue, queued, worker, slot, download, reader, prefetch,
                 foreground, leaving, gathered, upsets>>

\* A new process, or new coordinator, on what is stored.
StartsOn(stored) ==
  /\ upsets < MaxUpsets
  /\ upsets' = upsets + 1
  /\ cached' = stored
  /\ Startup(stored)
  /\ slot' = <<>>
  /\ background' = NoKey
  /\ download' = [k \in Keys |-> "none"]
  /\ reader' = [r \in Readers |-> IF reader[r].at = "out" THEN reader[r] ELSE Over]
  /\ prefetch' = [k \in Keys |-> "none"]
  /\ count' = 0
  /\ protected' = [k \in Keys |-> 0]
  /\ idle' = TRUE
  /\ fate' = [b \in Books |-> IF fate[b] = "gone" THEN "gone" ELSE "kept"]
  /\ leaving' = [b \in Books |-> Nobody]
  /\ gathered' = {}

\* The process dies in whatever state.
Restart == StartsOn(cached)

\* shutdown, when the requests are over: all tasks are cancelled and awaited.
\* What a closed coordinator does meanwhile shows in one thing only: a cancelled
\* download that was committing its chapter has committed it.
Shutdown ==
  /\ \A r \in Readers : reader[r].at \in {"out", "over"}
  /\ \A b \in Books : fate[b] # "going"
  /\ \E committing \in SUBSET {k \in Keys : download[k] # "none"} :
       StartsOn(cached \cup {k \in committing : fate[k[1]] # "gone"})

-----------------------------------------------------------------------------
WorkerStep(b) ==
  \/ WorkerStarts(b)
  \/ WorkerResumes(b)
  \/ WorkerQueuesForSlot(b)
  \/ WorkerHasSlot(b)
  \/ WorkerResumesInSlot(b)
  \/ WorkerWakes(b)
  \/ WorkerLeaves(b)

DownloadStep(k) == Downloaded(k) \/ DownloadFails(k) \/ DownloadCancelled(k)

PrefetchStep(k) == PrefetchStarts(k) \/ PrefetchWakes(k) \/ PrefetchDropped(k)

ReaderStep(r) == Ensure(r) \/ ReadStored(r) \/ ReaderWakes(r) \/ Disconnect(r)

Next ==
  \/ \E b \in Books : Schedule(b) \/ WorkerStep(b) \/ CancelBook(b) \/ DeleteBook(b)
  \/ \E k \in Keys : DownloadStep(k) \/ PrefetchStep(k)
  \/ \E r \in Readers : ReaderStep(r)
  \/ Restart
  \/ Shutdown

Spec == Init /\ [][Next]_vars

\* The event loop runs every task that is ready, and a download ends (every
\* request to a source has a timeout).  Nothing makes a reader come, or leave.
Fairness ==
  /\ \A b \in Books : WF_vars(WorkerStep(b)) /\ WF_vars(DeleteBook(b))
  /\ \A k \in Keys : WF_vars(DownloadStep(k)) /\ WF_vars(PrefetchStep(k))
  /\ \A r \in Readers : WF_vars(ReaderWakes(r))

FairSpec == Spec /\ Fairness
-----------------------------------------------------------------------------
Held(b) == IF worker[b].chapter = 0 THEN <<>> ELSE <<worker[b].chapter>>
Line == [b \in Books |-> Held(b) \o queue[b]]

Sections ==
  {<<r, 1>> : r \in {q \in Readers : reader[q].at \in InSection}}
    \cup {<<k, 2>> : k \in {j \in Keys : prefetch[j] \in InSection}}
Protects(s) == IF s[2] = 1 THEN {reader[s[1]].key} \cup reader[s[1]].ahead ELSE {s[1]}
Serving(k) == {s \in Sections : k \in Protects(s)}

\* Whoever awaits a chapter awaits a download that will end: no reader, no
\* read-ahead and no worker is left waiting for a task that is gone, whoever
\* cancelled, restarted or shared it.
AwaitedIsLive ==
  /\ \A r \in Readers : reader[r].at = "waits" => download[reader[r].key] # "none"
  /\ \A k \in Keys : prefetch[k] = "waits" => download[k] # "none"
  /\ \A b \in Books : worker[b].at = "fetch" => download[<<b, worker[b].chapter>>] # "none"

\* The two counters and the event say what they stand for: how many requests
\* and read-aheads have priority, which chapters they need, whether there is
\* any.  An error in one of them stops the background for good, or lets it
\* cancel what a reader is waiting for.
ForegroundCounted ==
  /\ count = Cardinality(Sections)
  /\ idle = (count = 0)
  /\ \A k \in Keys : protected[k] = Cardinality(Serving(k))

\* Over all books at most one background download, however the workers of the
\* books take turns and end: only the holder of the slot is past it, and the
\* workers in line for it are those that wait.  What readers may push aside is
\* that download, unless its book was deleted meanwhile.
PastLine == {"pause2", "resume2"} \cup Fetching
At(b) == IF leaving[b] = Nobody THEN worker[b].at ELSE leaving[b].at

OneInBackground ==
  /\ IsInjective(slot)
  /\ \A b \in Books :
       /\ leaving[b] # Nobody => worker[b].at \in {"none", "new"}
       /\ At(b) \in {"slot"} \cup PastLine <=> b \in Range(slot)
       /\ At(b) \in PastLine => Head(slot) = b
       /\ worker[b].at \in Fetching =>
            background = <<b, worker[b].chapter>> \/ (fate[b] = "gone" /\ background = NoKey)
  /\ background # NoKey => At(background[1]) \in Fetching

\* What _queued holds of a book is what its queue and its worker hold, once
\* each, and a book with chapters to fetch has a worker: a chapter asked for can
\* neither be lost when it is pushed aside nor be refused later as already
\* waiting.
NoChapterForgotten ==
  \A b \in Books :
    /\ IsInjective(Line[b])
    /\ Range(Line[b]) \subseteq {c \in ChaptersOf[b] : <<b, c>> \in queued}
    /\ Line[b] # <<>> => worker[b] # NoWorker
    /\ fate[b] = "kept" => Range(Line[b]) = {c \in ChaptersOf[b] : <<b, c>> \in queued}

\* A deleted book has no cancelled worker and nothing stored; a deletion waits
\* only for tasks of its book that were cancelled and have not ended.
DeletionsEnd ==
  /\ \A b \in Books : fate[b] = "gone" => \A k \in cached : k[1] # b
  /\ \A b \in Books : leaving[b] # Nobody => fate[b] = "going"
  /\ \A g \in gathered :
       /\ fate[g[1][1]] = "going"
       /\ g[2] = "download" => download[g[1]] = "cancelling"
       /\ g[2] = "prefetch" => prefetch[g[1]] \in {"dropped", "cancelled"}

\* The types, the counters, the slot, the queues and the deletions agree with
\* what the requests and the workers are doing.
Coherent ==
  TypeOK /\ ForegroundCounted /\ OneInBackground /\ NoChapterForgotten /\ DeletionsEnd

\* The download a reader or a read-ahead is waiting for is never cancelled to
\* make way for another reader; only the deletion of its book cancels it.
ReadersKeepTheirDownload ==
  [][\A k \in Keys :
       /\ download[k] = "running"
       /\ prefetch[k] = "waits" \/ \E r \in Readers : reader[r].at = "waits" /\ reader[r].key = k
       /\ fate' = fate
       => download'[k] # "cancelling"]_vars

\* The background attempts each book's chapters in the order asked for, each
\* once, whatever readers push aside and whichever other books are deleted.
Order == INSTANCE ChapterOrder
           WITH line <- Line, gone <- {b \in Books : fate[b] # "kept"}
ImplementsChapterOrder == Order!Spec

\* However often readers push it aside, each chapter asked for is attempted,
\* unless its book is deleted.
EveryChapterAttempted ==
  \A k \in Keys :
    fate[k[1]] = "kept" /\ k \in queued ~> fate[k[1]] # "kept" \/ k \notin queued

\* A reader that waits is answered, and so is a user who deletes a book: new
\* tasks of the book do not hold the deletion up.
ReadersAnswered ==
  /\ \A r \in Readers : reader[r].at = "waits" ~> reader[r].at # "waits"
  /\ \A b \in Books : fate[b] = "going" ~> fate[b] # "going"
=============================================================================
