---------------------------- MODULE MediaLibrary ----------------------------
(***************************************************************************)
(* Media uploads and removals (apps/api/src/media/media.service.ts) and    *)
(* the in-memory queue that deletes files (media-cleanup-queue.service.ts) *)
(* of one tenant.  A slot is an entity with a media type; the files of a   *)
(* storage key are one file.  A SERIALIZABLE transaction is one step: it   *)
(* commits, or fails with a retryable conflict while another request is    *)
(* under way, or fails for good.                                           *)
(***************************************************************************)
EXTENDS Naturals, Sequences, TenantScope

CONSTANTS
  Uploads, Removals, \* requests
  Slots,             \* <<entityType, entityId, mediaType>>
  Contents,          \* file contents, told apart by their checksums
  Scopes,            \* request -> the tenant scopes it may be made in
  MaxTries,          \* MAX_SERIALIZATION_RETRIES
  MaxRetries,        \* MAX_RETRIES of the cleanup queue
  None

ASSUME LimitAssumption == MaxTries \in Nat \ {0} /\ MaxRetries \in Nat \ {0}
ASSUME ScopeAssumption ==
  Scopes \in [Uploads \cup Removals -> SUBSET {c \in Contexts : admitted(c)}]

VARIABLES
  media,   \* the ready media rows, named by the upload that created them
  files,   \* the storage keys whose files exist
  url,     \* slot -> storage key its URL column points to
  clock,   \* Date.now()
  up, rm,  \* request -> its point and what it has read
  queue,   \* pending cleanup jobs
  worker,  \* processQueue: "idle", "timer" or "running"
  job,     \* the job processQueue works on
  givenUp, \* the keys whose files the queue gave up deleting (history)
  overlapped \* a request has started beside another (history)

vars == <<media, files, url, clock, up, rm, queue, worker, job, givenUp, overlapped>>
queueVars == <<queue, worker, job, givenUp>>

Keys == Contents \X Nat
Row == [id : Uploads, slot : Slots, content : Contents, key : Keys]
Job == [key : Keys, attempts : 0 .. MaxRetries - 1, due : BOOLEAN]
Finished == {"new", "done", "error"}
UploadState ==
  [at : Finished \cup {"lookup", "attempt", "stored", "rollback", "enqueue"},
   slot : Slots \cup {None}, content : Contents \cup {None}, shared : Keys \cup {None},
   prev : Uploads \cup {None}, key : Keys \cup {None}, old : Keys \cup {None},
   tries : 1 .. MaxTries]
RemovalState ==
  [at : Finished \cup {"tx", "enqueue"}, id : Uploads \cup {None},
   key : Keys \cup {None}, tries : 1 .. MaxTries]

ASSUME NoneAssumption ==
  None \notin Slots \cup Uploads /\ None \notin Keys /\ None \notin Job

TypeOK ==
  /\ media \subseteq Row /\ files \subseteq Keys
  /\ url \in [Slots -> Keys \cup {None}]
  /\ clock \in Nat
  /\ up \in [Uploads -> UploadState]
  /\ rm \in [Removals -> RemovalState]
  /\ queue \in Seq(Job)
  /\ worker \in {"idle", "timer", "running"}
  /\ job \in Job \cup {None}
  /\ givenUp \subseteq Keys /\ overlapped \in BOOLEAN

Init ==
  /\ media = {} /\ files = {}
  /\ url = [s \in Slots |-> None]
  /\ clock = 0
  /\ up = [u \in Uploads |-> [at |-> "new", slot |-> None, content |-> None, shared |-> None,
                              prev |-> None, key |-> None, old |-> None, tries |-> 1]]
  /\ rm = [r \in Removals |-> [at |-> "new", id |-> None, key |-> None, tries |-> 1]]
  /\ queue = <<>> /\ worker = "idle" /\ job = None
  /\ givenUp = {} /\ overlapped = FALSE

Busy(u) == up[u].at \notin Finished
Active(r) == rm[r].at \notin Finished
NoteOverlap ==
  overlapped' = (overlapped \/ (\E u \in Uploads : Busy(u)) \/ (\E r \in Removals : Active(r)))

\* The extension lets the request delete rows, prisma.media.deleteMany, or
\* refuses it; the scope of a request matters nowhere else.
mayDelete(q) == \E c \in Scopes[q] : allowed(c, "Media", "deleteMany")
mayBeRefused(q) == \E c \in Scopes[q] : ~allowed(c, "Media", "deleteMany")

-----------------------------------------------------------------------------
(* MediaCleanupQueueService *)

\* Mutant: a job that arrives while the timer is set cancels it.
enqueueDebounced(key) ==
  /\ queue' = Append(queue, [key |-> key, attempts |-> 0, due |-> TRUE])
  /\ worker' = IF worker = "idle" THEN "timer" ELSE IF worker = "timer" THEN "idle" ELSE worker

\* enqueue and scheduleProcessing: the timer is set unless it is, or the
\* queue is being processed.
enqueue(key) ==
  /\ queue' = Append(queue, [key |-> key, attempts |-> 0, due |-> TRUE])
  /\ worker' = IF worker = "idle" THEN "timer" ELSE worker

TimerFires ==
  /\ worker = "timer" /\ worker' = "running"
  /\ UNCHANGED <<media, files, url, clock, up, rm, queue, job, givenUp, overlapped>>

\* The next job is taken; one whose retry is not due goes back to the end.
TakeJob ==
  /\ worker = "running" /\ job = None /\ queue # <<>>
  /\ IF Head(queue).due
       THEN job' = Head(queue) /\ queue' = Tail(queue)
       ELSE queue' = Append(Tail(queue), Head(queue)) /\ UNCHANGED job
  /\ UNCHANGED <<media, files, url, clock, up, rm, worker, givenUp, overlapped>>

\* The loop goes on while there are jobs.
JobOver(q) == queue' = q /\ job' = None /\ worker' = IF q = <<>> THEN "idle" ELSE "running"

DeleteBatch ==
  /\ worker = "running" /\ job # None
  /\ files' = files \ {job.key}
  /\ JobOver(queue)
  /\ UNCHANGED <<media, url, clock, up, rm, givenUp, overlapped>>

\* Files that could not be deleted are tried again later, then given up.
DeleteBatchFails ==
  /\ worker = "running" /\ job # None
  /\ IF job.attempts + 1 < MaxRetries
       THEN /\ JobOver(Append(queue, [job EXCEPT !.attempts = @ + 1, !.due = FALSE]))
            /\ UNCHANGED givenUp
       ELSE JobOver(queue) /\ givenUp' = givenUp \cup {job.key}
  /\ UNCHANGED <<media, files, url, clock, up, rm, overlapped>>

\* The backoff of a job ends.
BackoffEnds ==
  \E i \in DOMAIN queue :
    /\ ~queue[i].due
    /\ queue' = [queue EXCEPT ![i].due = TRUE]
    /\ UNCHANGED <<media, files, url, clock, up, rm, worker, job, givenUp, overlapped>>

Worker == TimerFires \/ TakeJob \/ DeleteBatch \/ DeleteBatchFails

-----------------------------------------------------------------------------
(* upload *)

\* A ready row with the same checksum lends its files.
FindByChecksum(u, s, c) ==
  /\ up[u].at = "new" /\ NoteOverlap
  /\ LET same == {m \in media : m.content = c} IN
     \E k \in IF same = {} THEN {None} ELSE {m.key : m \in same} :
       up' = [up EXCEPT ![u].at = "lookup", ![u].slot = s, ![u].content = c, ![u].shared = k]
  /\ UNCHANGED <<media, files, url, clock, rm, queueVars>>

\* The ready row of the slot, which the upload will replace.
FindExisting(u) ==
  /\ up[u].at = "lookup"
  /\ LET rows == {m \in media : m.slot = up[u].slot} IN
     \E p \in IF rows = {} THEN {None} ELSE {m.id : m \in rows} :
       up' = [up EXCEPT ![u].at = "attempt", ![u].prev = p]
  /\ UNCHANGED <<media, files, url, clock, rm, queueVars, overlapped>>

\* The files of an attempt, under a key of the checksum and the time.
attemptKey(u) == IF up[u].shared # None THEN up[u].shared ELSE <<up[u].content, clock>>

StoreFiles(u) ==
  /\ up[u].at = "attempt"
  /\ up' = [up EXCEPT ![u].at = "stored", ![u].key = attemptKey(u)]
  /\ files' = IF up[u].shared # None THEN files ELSE files \cup {attemptKey(u)}
  /\ UNCHANGED <<media, url, clock, rm, queueVars, overlapped>>

\* Some of the files are stored and one upload fails; the error is not
\* retryable, so the catch block deletes nothing.
StoreFails(u) ==
  /\ up[u].at = "attempt" /\ up[u].shared = None
  /\ files' = files \cup {attemptKey(u)}
  /\ up' = [up EXCEPT ![u].at = "error", ![u].key = attemptKey(u)]
  /\ UNCHANGED <<media, url, clock, rm, queueVars, overlapped>>

replaced(u) == {m \in media : m.id = up[u].prev}

\* Mutant: the rows that share the old files are counted before the insert.
unsharedBefore(rows, new, k) == k # None /\ ~(\E m \in rows : m.key = k)

\* No ready row refers to the files of key k any more.
unshared(rows, new, k) == k # None /\ ~(\E m \in rows \cup new : m.key = k)

\* The transaction: the new row, the URL column, the old row out.
CommitUpload(u) ==
  LET new == [id |-> u, slot |-> up[u].slot, content |-> up[u].content, key |-> up[u].key]
      rows == media \ replaced(u)
      old == IF replaced(u) = {} THEN None ELSE (CHOOSE m \in replaced(u) : TRUE).key
  IN
  /\ up[u].at = "stored"
  /\ replaced(u) = {} \/ mayDelete(u)
  /\ media' = rows \cup {new}
  /\ url' = [url EXCEPT ![up[u].slot] = up[u].key]
  /\ clock' = clock + 1
  /\ up' = [up EXCEPT ![u].at = IF unshared(rows, {new}, old) THEN "enqueue" ELSE "done",
                      ![u].old = old]
  /\ UNCHANGED <<files, rm, queueVars, overlapped>>

\* The extension refuses deleteMany: not retryable, nothing is cleaned up.
UploadRefused(u) ==
  /\ up[u].at = "stored" /\ replaced(u) # {} /\ mayBeRefused(u)
  /\ up' = [up EXCEPT ![u].at = "error"]
  /\ UNCHANGED <<media, files, url, clock, rm, queueVars, overlapped>>

\* A serialization failure or deadlock with another request's transaction.
UploadConflicts(u) ==
  /\ up[u].at = "stored"
  /\ (\E v \in Uploads \ {u} : Busy(v)) \/ (\E r \in Removals : Active(r))
  /\ up' = [up EXCEPT ![u].at = "rollback"]
  /\ clock' = clock + 1
  /\ UNCHANGED <<media, files, url, rm, queueVars, overlapped>>

afterConflict(tries) == IF tries = MaxTries THEN "error" ELSE "attempt"

nextTry(tries) == IF tries = MaxTries THEN tries ELSE tries + 1

\* Mutant: the files of the failed attempt stay.
RollbackNothing(u) ==
  /\ up[u].at = "rollback"
  /\ up' = [up EXCEPT ![u].at = afterConflict(up[u].tries), ![u].tries = nextTry(@)]
  /\ UNCHANGED <<media, files, url, clock, rm, queueVars, overlapped>>

\* The attempt's own files are deleted, or queued if that fails.
Rollback(u) ==
  /\ up[u].at = "rollback"
  /\ up' = [up EXCEPT ![u].at = afterConflict(up[u].tries), ![u].tries = nextTry(@)]
  /\ \/ /\ files' = IF up[u].shared = None THEN files \ {up[u].key} ELSE files
        /\ UNCHANGED queueVars
     \/ /\ up[u].shared = None
        /\ enqueue(up[u].key) /\ UNCHANGED <<files, job, givenUp>>
  /\ UNCHANGED <<media, url, clock, rm, overlapped>>

\* enqueueCleanup REPLACE, after the transaction.
EnqueueReplaced(u) ==
  /\ up[u].at = "enqueue"
  /\ enqueue(up[u].old)
  /\ up' = [up EXCEPT ![u].at = "done"]
  /\ UNCHANGED <<media, files, url, clock, rm, job, givenUp, overlapped>>

-----------------------------------------------------------------------------
(* remove *)

FindMedia(r, id) ==
  /\ rm[r].at = "new" /\ NoteOverlap
  /\ LET rows == {m \in media : m.id = id} IN
     rm' = [rm EXCEPT ![r] =
       IF rows = {} THEN [@ EXCEPT !.at = "error"]
       ELSE [@ EXCEPT !.at = "tx", !.id = id, !.key = (CHOOSE m \in rows : TRUE).key]]
  /\ UNCHANGED <<media, files, url, clock, up, queueVars>>

removed(r) == {m \in media : m.id = rm[r].id}

\* The transaction: the URL column is cleared, the row goes.
CommitRemove(r) ==
  LET rows == media \ removed(r) IN
  /\ rm[r].at = "tx"
  /\ removed(r) = {} \/ mayDelete(r)
  /\ media' = rows
  /\ url' = [s \in Slots |-> IF \E m \in removed(r) : m.slot = s THEN None ELSE url[s]]
  /\ clock' = clock + 1
  /\ rm' = [rm EXCEPT ![r].at =
       IF removed(r) # {} /\ unshared(rows, {}, rm[r].key) THEN "enqueue" ELSE "done"]
  /\ UNCHANGED <<files, up, queueVars, overlapped>>

\* The extension refuses deleteMany.
RemoveRefused(r) ==
  /\ rm[r].at = "tx" /\ removed(r) # {} /\ mayBeRefused(r)
  /\ rm' = [rm EXCEPT ![r].at = "error"]
  /\ UNCHANGED <<media, files, url, clock, up, queueVars, overlapped>>

RemoveConflicts(r) ==
  /\ rm[r].at = "tx"
  /\ (\E u \in Uploads : Busy(u)) \/ (\E q \in Removals \ {r} : Active(q))
  /\ rm' = [rm EXCEPT ![r].at = IF rm[r].tries = MaxTries THEN "error" ELSE "tx",
                      ![r].tries = nextTry(@)]
  /\ UNCHANGED <<media, files, url, clock, up, queueVars, overlapped>>

\* enqueueCleanup DELETE, after the transaction.
EnqueueRemoved(r) ==
  /\ rm[r].at = "enqueue"
  /\ enqueue(rm[r].key)
  /\ rm' = [rm EXCEPT ![r].at = "done"]
  /\ UNCHANGED <<media, files, url, clock, up, job, givenUp, overlapped>>

-----------------------------------------------------------------------------
UploadStep(u) ==
  \/ \E s \in Slots, c \in Contents : FindByChecksum(u, s, c)
  \/ FindExisting(u) \/ StoreFiles(u) \/ StoreFails(u)
  \/ CommitUpload(u) \/ UploadRefused(u) \/ UploadConflicts(u) \/ Rollback(u)
  \/ EnqueueReplaced(u)

RemoveStep(r) ==
  \/ \E id \in Uploads : FindMedia(r, id)
  \/ CommitRemove(r) \/ RemoveRefused(r) \/ RemoveConflicts(r) \/ EnqueueRemoved(r)

\* All requests are answered and the queue is empty.
Quiescent ==
  /\ \A u \in Uploads : up[u].at \in {"done", "error"}
  /\ \A r \in Removals : rm[r].at \in {"done", "error"}
  /\ worker = "idle"
  /\ UNCHANGED vars

Next ==
  \/ \E u \in Uploads : UploadStep(u)
  \/ \E r \in Removals : RemoveStep(r)
  \/ Worker \/ BackoffEnds \/ Quiescent

Spec == Init /\ [][Next]_vars

-----------------------------------------------------------------------------
(* Properties *)

\* However uploads and removals of a slot race, its URL column never points
\* to files of a row that is gone: the column moves in the transaction.
UrlHasRow ==
  \A s \in Slots : url[s] # None => \E m \in media : m.slot = s /\ m.key = url[s]

\* "zero orphaned files": stored files belong to a ready row, to an upload
\* that is still under way, or to a cleanup job or one about to be queued;
\* files stay behind only from an upload that was answered with an error, or
\* when the queue logged that it gave them up.
Accounted(k) ==
  \/ \E m \in media : m.key = k
  \/ \E u \in Uploads : up[u].at \in {"stored", "rollback", "error"} /\ up[u].key = k
  \/ \E u \in Uploads : up[u].at = "enqueue" /\ up[u].old = k
  \/ \E r \in Removals : rm[r].at = "enqueue" /\ rm[r].key = k
  \/ \E i \in DOMAIN queue : queue[i].key = k
  \/ job # None /\ job.key = k
NoOrphanedFiles == \A k \in files : Accounted(k) \/ k \in givenUp

\* "exactly one active Media record": until requests overlap, a slot has at
\* most one ready row.
OneActiveRow == ~overlapped => \A m, n \in media : m.slot = n.slot => m = n

\* The refcount keeps shared files: until requests overlap, the files of a
\* ready row exist, whatever the cleanup queue is doing.
RowsHaveFiles == ~overlapped => \A m \in media : m.key \in files

\* The rows of upload and remove: a URL column points to a row of its slot, and until
\* requests overlap a slot has one row, whose file exists.
MediaInv ==
  /\ TypeOK
  /\ UrlHasRow
  /\ OneActiveRow
  /\ RowsHaveFiles

\* enqueue, scheduleProcessing and processQueue: a job is never forgotten;
\* while one is pending the timer is set or the loop is running, whatever
\* arrives, fails or is put back meanwhile.
NoJobForgotten == queue # <<>> \/ job # None => worker # "idle"
=============================================================================
