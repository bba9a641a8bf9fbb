------------------------- MODULE MediaLibraryProofs -------------------------
(***************************************************************************)
(* Theorems about MediaLibrary, for any uploads, removals, slots and       *)
(* limits.  Three facts carry them: a row never changes after its upload   *)
(* committed it; a stored file has an owner at every moment, and the       *)
(* attempt that shares another row's files is not one; and until requests  *)
(* overlap, the keys waiting to be deleted are older than any attempt and  *)
(* belong to no row.                                                       *)
(***************************************************************************)
EXTENDS MediaLibrary, TLAPS

\* An upload whose transaction has committed; nothing changes it any more.
Committed(u) == up[u].at \in {"enqueue", "done"}

\* The row the transaction of u inserts.
RowOf(u) == [id |-> u, slot |-> up[u].slot, content |-> up[u].content, key |-> up[u].key]

RowsInv == \A m \in media : Committed(m.id) /\ m = RowOf(m.id)

\* What upload u knows, whatever runs beside it: the row it will replace was of
\* its slot when it was read, so it is wherever it still exists.
UploadInv(u) ==
  /\ up[u].at # "new" => up[u].slot \in Slots /\ up[u].content \in Contents
  /\ up[u].at \in {"stored", "rollback", "enqueue", "done"} => up[u].key # None
  /\ up[u].at \in {"attempt", "stored", "rollback"} /\ up[u].prev # None =>
       Committed(up[u].prev) /\ up[up[u].prev].slot = up[u].slot
  /\ up[u].at = "stored" /\ up[u].shared # None => up[u].key = up[u].shared
  /\ up[u].at = "enqueue" => up[u].old # None

\* What removal r knows: the files of the row it has read.
RemovalInv(r) ==
  rm[r].at \in {"tx", "enqueue"} =>
    rm[r].id \in Uploads /\ Committed(rm[r].id) /\ rm[r].key = up[rm[r].id].key

\* The keys whose files are to be deleted: queued, at work, or about to be queued.
QueueKeys(q) == {q[i].key : i \in DOMAIN q}
UploadKeys == {up[u].old : u \in {v \in Uploads : up[v].at = "enqueue"}}
RemovalKeys == {rm[r].key : r \in {q \in Removals : rm[q].at = "enqueue"}}
Pending ==
  QueueKeys(queue) \cup (IF job = None THEN {} ELSE {job.key}) \cup UploadKeys \cup RemovalKeys

\* An attempt that stored files of its own answers for them until it commits.
Attempts ==
  {u \in Uploads : up[u].at \in {"stored", "rollback", "error"} /\ up[u].shared = None}

FilesOwned ==
  \A k \in files :
    \/ \E m \in media : m.key = k
    \/ \E u \in Attempts : up[u].key = k
    \/ k \in Pending \cup givenUp

\* Until requests overlap there is one at a time, and it meets no conflict.
OneAtATime ==
  /\ \A u, v \in Uploads : Busy(u) /\ Busy(v) => u = v
  /\ \A q, r \in Removals : Active(q) /\ Active(r) => q = r
  /\ \A u \in Uploads, r \in Removals : ~(Busy(u) /\ Active(r))
  /\ \A u \in Uploads : up[u].at # "rollback"

\* What it has read still holds.
ReadsHold(u) ==
  /\ up[u].at \in {"lookup", "attempt", "stored"} /\ up[u].shared # None =>
       \E m \in media : m.key = up[u].shared
  /\ up[u].at \in {"attempt", "stored"} =>
       \A m \in media : m.slot = up[u].slot => m.id = up[u].prev
  /\ up[u].at = "stored" /\ up[u].shared = None =>
       up[u].key \in files /\ up[u].key[2] = clock

\* The files of the rows exist and are older than the files of an attempt; so
\* are the files waiting to be deleted, and no row needs them.
FilesApart ==
  /\ \A m \in media : m.key \in files /\ m.key[2] < clock
  /\ \A k \in Pending : k[2] < clock /\ \A m \in media : m.key # k

AloneInv ==
  ~overlapped => OneAtATime /\ FilesApart /\ \A u \in Uploads : ReadsHold(u)

\* The inductive invariant.
IInv ==
  /\ TypeOK
  /\ RowsInv
  /\ \A u \in Uploads : UploadInv(u)
  /\ \A r \in Removals : RemovalInv(r)
  /\ NoJobForgotten
  /\ UrlHasRow
  /\ FilesOwned
  /\ AloneInv
  /\ OneActiveRow

-----------------------------------------------------------------------------
(* Lemmas about the queue and the keys. *)

\* A job that is queued adds its key.
LEMMA AppendKeys ==
  ASSUME NEW q \in Seq(Job), NEW j \in Job
  PROVE  /\ Append(q, j) \in Seq(Job) /\ Append(q, j) # << >>
         /\ QueueKeys(Append(q, j)) = QueueKeys(q) \cup {j.key}
<1> DEFINE a == Append(q, j)
<1>1. /\ a \in Seq(Job) /\ Len(a) = Len(q) + 1 /\ Len(q) \in Nat
      /\ DOMAIN a = 1..(Len(q) + 1) /\ DOMAIN q = 1..Len(q)
      /\ \A i \in 1..Len(q) : a[i] = q[i]
      /\ a[Len(q) + 1] = j
  OBVIOUS
<1>2. a # << >>
  BY <1>1
<1>3. QueueKeys(a) = QueueKeys(q) \cup {j.key}
  <2> HIDE DEF a
  <2>1. ASSUME NEW k \in QueueKeys(a) PROVE k \in QueueKeys(q) \cup {j.key}
    BY <1>1 DEF QueueKeys
  <2>2. ASSUME NEW k \in QueueKeys(q) PROVE k \in QueueKeys(a)
    BY <1>1 DEF QueueKeys
  <2>3. j.key \in QueueKeys(a)
    BY <1>1 DEF QueueKeys
  <2> QED BY <2>1, <2>2, <2>3
<1> QED BY <1>1, <1>2, <1>3

\* Taking the first job leaves the keys of the others.
LEMMA TakeKeys ==
  ASSUME NEW q \in Seq(Job), q # << >>
  PROVE  /\ Head(q) \in Job /\ Tail(q) \in Seq(Job)
         /\ QueueKeys(q) = QueueKeys(Tail(q)) \cup {Head(q).key}
<1> DEFINE t == Tail(q)
<1>1. /\ Head(q) = q[1] /\ Head(q) \in Job /\ t \in Seq(Job)
      /\ Len(q) \in Nat \ {0} /\ Len(t) = Len(q) - 1
      /\ DOMAIN t = 1..(Len(q) - 1) /\ DOMAIN q = 1..Len(q)
      /\ \A i \in 1..(Len(q) - 1) : t[i] = q[i + 1]
  OBVIOUS
<1>2. QueueKeys(q) = QueueKeys(t) \cup {Head(q).key}
  <2> HIDE DEF t
  <2>1. ASSUME NEW k \in QueueKeys(q) PROVE k \in QueueKeys(t) \cup {Head(q).key}
    <3>1. PICK i \in 1..Len(q) : k = q[i].key
      BY <1>1 DEF QueueKeys
    <3>2. CASE i = 1
      BY <3>1, <3>2, <1>1
    <3>3. CASE i # 1
      <4>1. i - 1 \in 1..(Len(q) - 1) /\ t[i - 1] = q[i]
        BY <3>3, <1>1
      <4> QED BY <4>1, <3>1, <1>1 DEF QueueKeys
    <3> QED BY <3>2, <3>3
  <2>2. ASSUME NEW k \in QueueKeys(t) PROVE k \in QueueKeys(q)
    <3>1. PICK i \in 1..(Len(q) - 1) : k = t[i].key
      BY <1>1 DEF QueueKeys
    <3>2. i + 1 \in 1..Len(q) /\ t[i] = q[i + 1]
      BY <1>1
    <3> QED BY <3>1, <3>2, <1>1 DEF QueueKeys
  <2>3. Head(q).key \in QueueKeys(q)
    BY <1>1 DEF QueueKeys
  <2> QED BY <2>1, <2>2, <2>3
<1> QED BY <1>1, <1>2

\* The end of a backoff changes no key.
LEMMA DueKeys ==
  ASSUME NEW q \in Seq(Job), NEW i \in DOMAIN q
  PROVE  /\ [q EXCEPT ![i].due = TRUE] \in Seq(Job)
         /\ [q EXCEPT ![i].due = TRUE] # << >>
         /\ QueueKeys([q EXCEPT ![i].due = TRUE]) = QueueKeys(q)
<1> DEFINE e == [q EXCEPT ![i].due = TRUE]
<1>0. q[i] \in Job /\ DOMAIN q = 1..Len(q) /\ Len(q) \in Nat
  OBVIOUS
<1>1. [q[i] EXCEPT !.due = TRUE] \in Job /\ [q[i] EXCEPT !.due = TRUE].key = q[i].key
  BY <1>0 DEF Job
<1>2. /\ e \in Seq(Job) /\ Len(e) = Len(q) /\ DOMAIN e = DOMAIN q
      /\ \A n \in DOMAIN q : e[n].key = q[n].key
  BY <1>0, <1>1
<1>3. e # << >>
  BY <1>0, <1>2
<1> HIDE DEF e
<1>4. QueueKeys(e) = QueueKeys(q)
  BY <1>2 DEF QueueKeys
<1> QED BY <1>2, <1>3, <1>4 DEF e

\* A job that is put back for another attempt is a job for the same files.
LEMMA RetryJob ==
  ASSUME NEW j \in Job, NEW n \in 0 .. MaxRetries - 1
  PROVE  /\ [j EXCEPT !.attempts = n, !.due = FALSE] \in Job
         /\ [j EXCEPT !.attempts = n, !.due = FALSE].key = j.key
BY DEF Job

\* What is pending are keys.
LEMMA PendingType ==
  ASSUME TypeOK, \A u \in Uploads : UploadInv(u), \A r \in Removals : RemovalInv(r)
  PROVE  Pending \subseteq Keys
<1>1. QueueKeys(queue) \subseteq Keys
  <2>1. \A i \in DOMAIN queue : queue[i] \in Job
    <3>1. queue \in Seq(Job)
      BY DEF TypeOK
    <3> QED BY <3>1
  <2> QED BY <2>1 DEF QueueKeys, Job
<1>2. UploadKeys \subseteq Keys
  BY DEF TypeOK, UploadKeys, UploadInv, UploadState
<1>3. RemovalKeys \subseteq Keys
  BY DEF TypeOK, RemovalKeys, RemovalInv, UploadInv, Committed, UploadState
<1>4. job # None => job.key \in Keys
  BY DEF TypeOK, Job
<1> QED BY <1>1, <1>2, <1>3, <1>4 DEF Pending

-----------------------------------------------------------------------------
\* Before the first request there are no rows, files or jobs.
LEMMA InitIInv == Init => IInv
<1> SUFFICES ASSUME Init PROVE IInv
  OBVIOUS
<1> USE NoneAssumption, LimitAssumption DEF Init
<1>1. TypeOK
  <2>1. overlapped \in BOOLEAN
    OBVIOUS
  <2>2. queue \in Seq(Job) /\ up \in [Uploads -> UploadState] /\ rm \in [Removals -> RemovalState]
    BY DEF UploadState, RemovalState, Finished
  <2> QED BY <2>1, <2>2 DEF TypeOK
<1>2. RowsInv /\ (\A u \in Uploads : UploadInv(u)) /\ (\A r \in Removals : RemovalInv(r))
  BY DEF RowsInv, UploadInv, RemovalInv
<1>3. NoJobForgotten /\ UrlHasRow /\ FilesOwned /\ OneActiveRow
  BY DEF NoJobForgotten, UrlHasRow, FilesOwned, OneActiveRow
<1>4. Pending = {}
  BY DEF Pending, QueueKeys, UploadKeys, RemovalKeys
<1>5. AloneInv
  BY <1>4 DEF AloneInv, OneAtATime, FilesApart, ReadsHold, Busy, Active, Finished
<1> QED BY <1>1, <1>2, <1>3, <1>5 DEF IInv

-----------------------------------------------------------------------------
(* The cleanup queue. *)

\* A step of the queue keeps IInv if it deletes only what is pending and drops
\* a key only when its files are gone or given up.
LEMMA QueueKeeps ==
  ASSUME IInv, TypeOK', NoJobForgotten',
         UNCHANGED <<media, url, clock, up, rm, overlapped>>,
         files' \subseteq files, files \ files' \subseteq Pending,
         Pending' \subseteq Pending, givenUp \subseteq givenUp',
         files' \cap Pending \subseteq Pending' \cup givenUp'
  PROVE  IInv'
<1> USE DEF IInv
<1>1. RowsInv' /\ UrlHasRow' /\ OneActiveRow'
  BY DEF RowsInv, Committed, RowOf, UrlHasRow, OneActiveRow
<1>2. (\A u \in Uploads : UploadInv(u)') /\ (\A r \in Removals : RemovalInv(r)')
  BY DEF UploadInv, RemovalInv, Committed
<1>3. FilesOwned'
  BY DEF FilesOwned, Attempts
<1>4. AloneInv'
  <2> SUFFICES ASSUME ~overlapped PROVE OneAtATime' /\ FilesApart' /\ \A u \in Uploads : ReadsHold(u)'
    BY DEF AloneInv
  <2>1. OneAtATime' /\ FilesApart'
    BY DEF AloneInv, OneAtATime, FilesApart, Busy, Active
  <2>2. ASSUME NEW u \in Uploads, up[u].key \in files, up[u].key[2] = clock
        PROVE  up[u].key \in files'
    <3>1. up[u].key \notin Pending
      BY <2>2 DEF AloneInv, FilesApart, TypeOK
    <3> QED BY <2>2, <3>1
  <2> QED BY <2>1, <2>2 DEF AloneInv, ReadsHold
<1> QED BY <1>1, <1>2, <1>3, <1>4

\* processQueue and its timer keep IInv.
LEMMA WorkerSteps ==
  ASSUME IInv, Worker \/ BackoffEnds
  PROVE  IInv'
<1> USE NoneAssumption, LimitAssumption
<1>0. TypeOK /\ queue \in Seq(Job) /\ (job # None => job \in Job) /\ NoJobForgotten
  BY DEF IInv, TypeOK
<1>1. CASE TimerFires
  <2>1. TypeOK' /\ NoJobForgotten' /\ Pending' = Pending
    BY <1>0, <1>1 DEF TimerFires, TypeOK, NoJobForgotten, Pending, UploadKeys, RemovalKeys
  <2> QED BY <1>1, <2>1, QueueKeeps DEF TimerFires
<1>2. CASE TakeJob
  <2>1. /\ Head(queue) \in Job /\ Tail(queue) \in Seq(Job)
        /\ QueueKeys(queue) = QueueKeys(Tail(queue)) \cup {Head(queue).key}
    BY <1>0, <1>2, TakeKeys DEF TakeJob
  <2>2. /\ Append(Tail(queue), Head(queue)) \in Seq(Job)
        /\ QueueKeys(Append(Tail(queue), Head(queue))) = QueueKeys(Tail(queue)) \cup {Head(queue).key}
    BY <2>1, AppendKeys
  <2>3. /\ queue' \in Seq(Job) /\ job' \in Job \cup {None}
        /\ Pending' = Pending
    BY <1>2, <2>1, <2>2 DEF TakeJob, Pending, UploadKeys, RemovalKeys
  <2>4. TypeOK' /\ NoJobForgotten'
    BY <1>0, <1>2, <2>3 DEF TakeJob, TypeOK, NoJobForgotten
  <2> QED BY <1>2, <2>3, <2>4, QueueKeeps DEF TakeJob
<1>3. CASE DeleteBatch
  <2>1. /\ job \in Job /\ job' = None /\ queue' = queue /\ files' = files \ {job.key}
        /\ UNCHANGED <<media, url, clock, up, rm, givenUp, overlapped>>
        /\ worker' = IF queue = << >> THEN "idle" ELSE "running"
    BY <1>0, <1>3 DEF DeleteBatch, JobOver
  <2>2. /\ Pending = Pending' \cup {job.key}
    BY <2>1 DEF Pending, UploadKeys, RemovalKeys
  <2>3. TypeOK' /\ NoJobForgotten'
    BY <1>0, <2>1 DEF TypeOK, NoJobForgotten
  <2> QED BY <2>1, <2>2, <2>3, QueueKeeps
<1>4. CASE DeleteBatchFails
  <2> DEFINE again == [job EXCEPT !.attempts = @ + 1, !.due = FALSE]
  <2>1. CASE job.attempts + 1 < MaxRetries
    <3>1. /\ job \in Job /\ job' = None /\ queue' = Append(queue, again)
          /\ UNCHANGED <<files, media, url, clock, up, rm, givenUp, overlapped>>
          /\ worker' = IF queue' = << >> THEN "idle" ELSE "running"
      BY <1>0, <1>4, <2>1 DEF DeleteBatchFails, JobOver
    <3>2. again \in Job /\ again.key = job.key
      <4>1. job.key \in Keys /\ job.attempts + 1 \in 0 .. MaxRetries - 1
        BY <2>1, <3>1 DEF Job
      <4> QED BY <3>1, <4>1, RetryJob
    <3>3. queue' \in Seq(Job) /\ QueueKeys(queue') = QueueKeys(queue) \cup {job.key}
      BY <1>0, <3>1, <3>2, AppendKeys
    <3>4. Pending' = Pending
      BY <3>1, <3>3 DEF Pending, UploadKeys, RemovalKeys
    <3>5. TypeOK' /\ NoJobForgotten'
      BY <1>0, <3>1, <3>3 DEF TypeOK, NoJobForgotten
    <3> QED BY <3>1, <3>4, <3>5, QueueKeeps
  <2>2. CASE ~(job.attempts + 1 < MaxRetries)
    <3>1. /\ job \in Job /\ job' = None /\ queue' = queue /\ givenUp' = givenUp \cup {job.key}
          /\ UNCHANGED <<files, media, url, clock, up, rm, overlapped>>
          /\ worker' = IF queue = << >> THEN "idle" ELSE "running"
      BY <1>0, <1>4, <2>2 DEF DeleteBatchFails, JobOver
    <3>2. Pending = Pending' \cup {job.key}
      BY <3>1 DEF Pending, UploadKeys, RemovalKeys
    <3>3. TypeOK' /\ NoJobForgotten'
      BY <1>0, <3>1 DEF TypeOK, NoJobForgotten, Job
    <3> QED BY <3>1, <3>2, <3>3, QueueKeeps
  <2> QED BY <2>1, <2>2
<1>5. CASE BackoffEnds
  <2>1. PICK i \in DOMAIN queue :
          /\ queue' = [queue EXCEPT ![i].due = TRUE]
          /\ UNCHANGED <<media, files, url, clock, up, rm, worker, job, givenUp, overlapped>>
    BY <1>5 DEF BackoffEnds
  <2>2. queue' \in Seq(Job) /\ QueueKeys(queue') = QueueKeys(queue) /\ queue # << >>
    <3>1. queue # << >>
      BY <1>0
    <3> QED BY <1>0, <2>1, <3>1, DueKeys
  <2>3. Pending' = Pending
    BY <2>1, <2>2 DEF Pending, UploadKeys, RemovalKeys
  <2>4. TypeOK' /\ NoJobForgotten'
    BY <1>0, <2>1, <2>2 DEF TypeOK, NoJobForgotten
  <2> QED BY <2>1, <2>3, <2>4, QueueKeeps
<1> QED BY <1>1, <1>2, <1>3, <1>4, <1>5 DEF Worker

-----------------------------------------------------------------------------
(* upload, up to its transaction. *)

\* An upload that is not committed disturbs no row and no one's reads of rows.
LEMMA AttemptKeeps ==
  ASSUME IInv, NEW u \in Uploads, ~Committed(u), UploadInv(u)',
         \A v \in Uploads \ {u} : up'[v] = up[v],
         UNCHANGED <<media, url, rm>>, overlapped => overlapped'
  PROVE  /\ RowsInv' /\ UrlHasRow' /\ OneActiveRow'
         /\ \A v \in Uploads : UploadInv(v)'
         /\ \A r \in Removals : RemovalInv(r)'
<1> USE DEF IInv
<1>1. RowsInv'
  BY DEF RowsInv, Committed, RowOf, TypeOK, Row
<1>2. UrlHasRow' /\ OneActiveRow'
  BY DEF UrlHasRow, OneActiveRow
<1>3. \A v \in Uploads \ {u} : UploadInv(v)'
  BY DEF UploadInv, Committed, TypeOK, UploadState
<1>4. \A r \in Removals : RemovalInv(r)'
  BY DEF RemovalInv, Committed
<1> QED BY <1>1, <1>2, <1>3, <1>4

\* What is pending stays so when an upload moves outside "enqueue".
LEMMA PendingKept ==
  ASSUME NEW u \in Uploads, up[u].at # "enqueue", up'[u].at # "enqueue",
         \A v \in Uploads \ {u} : up'[v] = up[v],
         UNCHANGED <<rm, queue, job>>
  PROVE  Pending' = Pending
<1>1. UploadKeys' = UploadKeys
  BY DEF UploadKeys
<1> QED BY <1>1 DEF Pending, RemovalKeys

\* Until requests overlap, a step of the one under way leaves it alone.
LEMMA StillAlone ==
  ASSUME IInv, NEW u \in Uploads, Busy(u), ~overlapped,
         \A v \in Uploads \ {u} : up'[v] = up[v], up'[u].at # "rollback", UNCHANGED rm
  PROVE  /\ OneAtATime'
         /\ \A v \in Uploads : v # u => up[v].at \in Finished
         /\ \A r \in Removals : rm[r].at \in Finished
<1>1. /\ \A v \in Uploads : v # u => up[v].at \in Finished
      /\ \A r \in Removals : rm[r].at \in Finished
  BY DEF IInv, AloneInv, OneAtATime, Busy, Active
<1> QED BY <1>1 DEF OneAtATime, Busy, Active, Finished

\* The lookup of the slot answers with the id of one of its rows, if it has any.
LEMMA PreviousId ==
  ASSUME media \subseteq Row, NEW s,
         NEW p \in IF {m \in media : m.slot = s} = {} THEN {None}
                   ELSE {m.id : m \in {n \in media : n.slot = s}}
  PROVE  /\ p \in Uploads \cup {None}
         /\ p # None => \E m \in media : m.slot = s /\ m.id = p
         /\ p = None => \A m \in media : m.slot # s
<1>1. CASE {m \in media : m.slot = s} = {}
  BY <1>1
<1>2. CASE {m \in media : m.slot = s} # {}
  <2>1. p \in {m.id : m \in {n \in media : n.slot = s}}
    BY <1>2
  <2>2. p # None
    BY <2>1, NoneAssumption DEF Row
  <2> QED BY <2>1, <2>2 DEF Row
<1> QED BY <1>1, <1>2

\* The lookups of an upload.
LEMMA LookupSteps ==
  ASSUME IInv, NEW u \in Uploads,
         (\E s \in Slots, c \in Contents : FindByChecksum(u, s, c)) \/ FindExisting(u)
  PROVE  IInv'
<1> USE NoneAssumption DEF queueVars
<1>0. TypeOK /\ up[u] \in UploadState
  BY DEF IInv, TypeOK
<1>1. ASSUME NEW s \in Slots, NEW c \in Contents, FindByChecksum(u, s, c)
      PROVE  IInv'
  <2> USE <1>1 DEF FindByChecksum
  <2> DEFINE Found(k) ==
        up' = [up EXCEPT ![u].at = "lookup", ![u].slot = s, ![u].content = c, ![u].shared = k]
  <2> DEFINE same == {m \in media : m.content = c}
  <2>0. \E k \in IF same = {} THEN {None} ELSE {m.key : m \in same} : Found(k)
    OBVIOUS
  <2>1. PICK k \in Keys \cup {None} : Found(k) /\ (k # None => \E m \in media : m.key = k)
    <3> HIDE <1>1 DEF Found
    <3>1. CASE same = {}
      BY <2>0, <3>1
    <3>2. CASE same # {}
      <4>1. PICK m \in same : Found(m.key)
        <5>1. \E k \in {m.key : m \in same} : Found(k)
          BY <2>0, <3>2
        <5> QED BY <5>1
      <4> QED BY <1>0, <4>1 DEF TypeOK, Row
    <3> QED BY <3>1, <3>2
  <2> DEFINE new == [up[u] EXCEPT !.at = "lookup", !.slot = s, !.content = c, !.shared = k]
  <2>b. /\ new \in UploadState /\ new.at = "lookup" /\ new.slot = s /\ new.content = c
        /\ new.shared = k
    BY <1>0 DEF UploadState
  <2>c. up' = [up EXCEPT ![u] = new]
    BY <1>0, <2>1 DEF TypeOK
  <2> HIDE DEF new
  <2>2. /\ up'[u].at = "lookup" /\ up'[u].slot = s /\ up'[u].content = c /\ up'[u].shared = k
        /\ up' \in [Uploads -> UploadState]
        /\ \A v \in Uploads \ {u} : up'[v] = up[v]
    BY <1>0, <2>b, <2>c DEF TypeOK
  <2>3. TypeOK'
    <3>1. overlapped' \in BOOLEAN
      BY <1>0 DEF NoteOverlap
    <3> QED BY <1>0, <2>2, <3>1 DEF TypeOK
  <2>4. overlapped => overlapped'
    BY <1>0 DEF NoteOverlap, TypeOK
  <2>5. /\ RowsInv' /\ UrlHasRow' /\ OneActiveRow'
        /\ (\A v \in Uploads : UploadInv(v)') /\ (\A r \in Removals : RemovalInv(r)')
    <3>1. UploadInv(u)' /\ ~Committed(u)
      BY <2>2 DEF UploadInv, Committed
    <3> QED BY <2>2, <2>4, <3>1, AttemptKeeps
  <2>6. Pending' = Pending
    BY <2>2, PendingKept
  <2>7. FilesOwned' /\ NoJobForgotten'
    <3>1. Attempts' = Attempts /\ \A v \in Attempts : up'[v] = up[v]
      BY <2>2 DEF Attempts
    <3> QED BY <2>6, <3>1 DEF IInv, FilesOwned, NoJobForgotten
  <2>8. AloneInv'
    <3> SUFFICES ASSUME ~overlapped'
                 PROVE  OneAtATime' /\ FilesApart' /\ \A v \in Uploads : ReadsHold(v)'
      BY DEF AloneInv
    <3>1. /\ ~overlapped /\ (\A v \in Uploads : ~Busy(v)) /\ (\A r \in Removals : ~Active(r))
      BY DEF NoteOverlap
    <3>2. OneAtATime'
      BY <2>2, <3>1 DEF OneAtATime, Busy, Active, Finished
    <3>3. FilesApart'
      BY <2>6, <3>1 DEF IInv, AloneInv, FilesApart
    <3>4. ReadsHold(u)'
      BY <2>1, <2>2 DEF ReadsHold
    <3>5. \A v \in Uploads \ {u} : ReadsHold(v)'
      BY <2>2, <3>1 DEF ReadsHold, Busy, Finished
    <3> QED BY <3>2, <3>3, <3>4, <3>5
  <2> QED BY <2>3, <2>5, <2>7, <2>8 DEF IInv
<1>2. CASE FindExisting(u)
  <2> USE <1>2 DEF FindExisting
  <2>a. PICK p \in IF {m \in media : m.slot = up[u].slot} = {} THEN {None}
                   ELSE {m.id : m \in {n \in media : n.slot = up[u].slot}} :
          up' = [up EXCEPT ![u].at = "attempt", ![u].prev = p]
    OBVIOUS
  <2>1. /\ p \in Uploads \cup {None}
        /\ p # None => \E m \in media : m.slot = up[u].slot /\ m.id = p
        /\ p = None => \A m \in media : m.slot # up[u].slot
    BY <1>0, PreviousId DEF TypeOK
  <2>2. /\ up'[u].at = "attempt" /\ up'[u].prev = p
        /\ up'[u].slot = up[u].slot /\ up'[u].content = up[u].content /\ up'[u].shared = up[u].shared
        /\ up' \in [Uploads -> UploadState]
        /\ \A v \in Uploads \ {u} : up'[v] = up[v]
    BY <1>0, <2>1, <2>a DEF TypeOK, UploadState, Finished
  <2>3. TypeOK'
    BY <1>0, <2>2 DEF TypeOK
  <2>4. p # None => p # u /\ Committed(p) /\ up[p].slot = up[u].slot
    BY <2>1 DEF IInv, RowsInv, RowOf, Committed
  <2>5. /\ RowsInv' /\ UrlHasRow' /\ OneActiveRow'
        /\ (\A v \in Uploads : UploadInv(v)') /\ (\A r \in Removals : RemovalInv(r)')
    <3>0. UploadInv(u)
      BY DEF IInv
    <3>1. UploadInv(u)' /\ ~Committed(u)
      BY <2>1, <2>2, <2>4, <3>0 DEF UploadInv, Committed
    <3> QED BY <2>2, <3>1, AttemptKeeps
  <2>6. Pending' = Pending
    BY <2>2, PendingKept
  <2>7. FilesOwned' /\ NoJobForgotten'
    <3>1. Attempts' = Attempts /\ \A v \in Attempts : up'[v] = up[v]
      BY <2>2 DEF Attempts
    <3> QED BY <2>6, <3>1 DEF IInv, FilesOwned, NoJobForgotten
  <2>8. AloneInv'
    <3> SUFFICES ASSUME ~overlapped
                 PROVE  OneAtATime' /\ FilesApart' /\ \A v \in Uploads : ReadsHold(v)'
      BY DEF AloneInv
    <3>1. /\ OneAtATime'
          /\ \A v \in Uploads : v # u => up[v].at \in Finished
      BY <2>2, StillAlone DEF Busy, Finished
    <3>2. FilesApart'
      BY <2>6 DEF IInv, AloneInv, FilesApart
    <3>3. \A m \in media : m.slot = up[u].slot => m.id = p
      BY <2>1 DEF IInv, OneActiveRow
    <3>a. ReadsHold(u)
      BY DEF IInv, AloneInv
    <3>4. ReadsHold(u)'
      BY <2>2, <3>3, <3>a DEF ReadsHold
    <3>5. \A v \in Uploads \ {u} : ReadsHold(v)'
      BY <2>2, <3>1 DEF ReadsHold, Finished
    <3> QED BY <3>1, <3>2, <3>4, <3>5
  <2> QED BY <2>3, <2>5, <2>7, <2>8 DEF IInv
<1> QED BY <1>1, <1>2

\* The files of an attempt: stored under a key no other attempt will use once
\* the clock moves on, or borrowed.
LEMMA StoreSteps ==
  ASSUME IInv, NEW u \in Uploads, StoreFiles(u) \/ StoreFails(u)
  PROVE  IInv'
<1> USE NoneAssumption DEF queueVars
<1> DEFINE k == attemptKey(u)
<1>0. TypeOK /\ up[u] \in UploadState /\ UploadInv(u) /\ up[u].at = "attempt"
  BY DEF IInv, TypeOK, StoreFiles, StoreFails
<1>1. /\ k \in Keys /\ (up[u].shared # None => k = up[u].shared)
      /\ up[u].shared = None => k[2] = clock
  BY <1>0 DEF attemptKey, UploadState, UploadInv, TypeOK, Keys
<1> HIDE DEF k
<1>2. /\ up'[u].at \in {"stored", "error"} /\ up'[u].key = k
      /\ up'[u].at = "error" => up[u].shared = None
      /\ up'[u].slot = up[u].slot /\ up'[u].content = up[u].content
      /\ up'[u].shared = up[u].shared /\ up'[u].prev = up[u].prev
      /\ up' \in [Uploads -> UploadState]
      /\ \A v \in Uploads \ {u} : up'[v] = up[v]
      /\ files' = IF up[u].shared # None THEN files ELSE files \cup {k}
      /\ UNCHANGED <<media, url, clock, rm, queue, worker, job, givenUp, overlapped>>
  <2> DEFINE new(at) == [up[u] EXCEPT !.at = at, !.key = k]
  <2>0. ASSUME NEW at \in {"stored", "error"}
        PROVE  /\ new(at) \in UploadState /\ new(at).at = at /\ new(at).key = k
               /\ new(at).slot = up[u].slot /\ new(at).content = up[u].content
               /\ new(at).shared = up[u].shared /\ new(at).prev = up[u].prev
    BY <1>0, <1>1 DEF UploadState, Finished
  <2>1. CASE StoreFiles(u)
    <3>1. up' = [up EXCEPT ![u] = new("stored")]
      BY <1>0, <2>1 DEF StoreFiles, TypeOK, k
    <3>2. up' \in [Uploads -> UploadState] /\ up'[u] = new("stored")
      BY <1>0, <2>0, <3>1 DEF TypeOK
    <3>3. \A v \in Uploads \ {u} : up'[v] = up[v]
      BY <1>0, <3>1 DEF TypeOK
    <3> HIDE DEF new
    <3> QED BY <2>0, <2>1, <3>2, <3>3 DEF StoreFiles, k
  <2>2. CASE StoreFails(u)
    <3>1. up' = [up EXCEPT ![u] = new("error")]
      BY <1>0, <2>2 DEF StoreFails, TypeOK, k
    <3>2. up' \in [Uploads -> UploadState] /\ up'[u] = new("error")
      BY <1>0, <2>0, <3>1 DEF TypeOK
    <3>3. \A v \in Uploads \ {u} : up'[v] = up[v]
      BY <1>0, <3>1 DEF TypeOK
    <3> HIDE DEF new
    <3> QED BY <2>0, <2>2, <3>2, <3>3 DEF StoreFails, k
  <2> QED BY <2>1, <2>2
<1>3. TypeOK'
  BY <1>0, <1>1, <1>2 DEF TypeOK
<1>4. /\ RowsInv' /\ UrlHasRow' /\ OneActiveRow'
      /\ (\A v \in Uploads : UploadInv(v)') /\ (\A r \in Removals : RemovalInv(r)')
  <2>1. up[u].prev # None => up[u].prev \in Uploads /\ up[u].prev # u
    BY <1>0 DEF UploadInv, Committed, UploadState
  <2>2. UploadInv(u)' /\ ~Committed(u)
    BY <1>0, <1>1, <1>2, <2>1 DEF UploadInv, Committed
  <2> QED BY <1>2, <2>2, AttemptKeeps
<1>5. Pending' = Pending
  BY <1>0, <1>2, PendingKept
<1>6. FilesOwned' /\ NoJobForgotten'
  <2>1. /\ Attempts \subseteq Attempts' /\ \A v \in Attempts : up'[v] = up[v]
        /\ up[u].shared = None => u \in Attempts'
    BY <1>0, <1>2 DEF Attempts
  <2> QED BY <1>2, <1>5, <2>1 DEF IInv, FilesOwned, NoJobForgotten
<1>7. AloneInv'
  <2> SUFFICES ASSUME ~overlapped
               PROVE  OneAtATime' /\ FilesApart' /\ \A v \in Uploads : ReadsHold(v)'
    BY <1>2 DEF AloneInv
  <2>1. /\ OneAtATime'
        /\ \A v \in Uploads : v # u => up[v].at \in Finished
    BY <1>0, <1>2, StillAlone DEF Busy, Finished
  <2>2. FilesApart'
    BY <1>2, <1>5 DEF IInv, AloneInv, FilesApart
  <2>3. ReadsHold(u)'
    <3>1. ReadsHold(u)
      BY DEF IInv, AloneInv
    <3> QED BY <1>0, <1>1, <1>2, <3>1 DEF ReadsHold
  <2>4. \A v \in Uploads \ {u} : ReadsHold(v)'
    BY <1>2, <2>1 DEF ReadsHold, Finished
  <2> QED BY <2>1, <2>2, <2>3, <2>4
<1> QED BY <1>3, <1>4, <1>6, <1>7 DEF IInv

\* A refusal or a conflict leaves the attempt's files to it; a conflict needs
\* another request.
LEMMA RefusedSteps ==
  ASSUME IInv, NEW u \in Uploads, UploadRefused(u) \/ UploadConflicts(u)
  PROVE  IInv'
<1> USE NoneAssumption DEF queueVars
<1>0. TypeOK /\ up[u] \in UploadState /\ UploadInv(u) /\ up[u].at = "stored"
  BY DEF IInv, TypeOK, UploadRefused, UploadConflicts
<1>1. /\ up'[u].at \in {"rollback", "error"} /\ (up'[u].at = "rollback" => UploadConflicts(u))
      /\ up'[u].key = up[u].key /\ up'[u].slot = up[u].slot /\ up'[u].content = up[u].content
      /\ up'[u].shared = up[u].shared /\ up'[u].prev = up[u].prev
      /\ up' \in [Uploads -> UploadState]
      /\ \A v \in Uploads \ {u} : up'[v] = up[v]
      /\ clock' \in Nat /\ clock <= clock'
      /\ UNCHANGED <<files, media, url, rm, queue, worker, job, givenUp, overlapped>>
  <2> DEFINE new(at) == [up[u] EXCEPT !.at = at]
  <2>0. ASSUME NEW at \in {"rollback", "error"}
        PROVE  /\ new(at) \in UploadState /\ new(at).at = at /\ new(at).key = up[u].key
               /\ new(at).slot = up[u].slot /\ new(at).content = up[u].content
               /\ new(at).shared = up[u].shared /\ new(at).prev = up[u].prev
    BY <1>0 DEF UploadState, Finished
  <2>1. PICK at \in {"rollback", "error"} :
          up' = [up EXCEPT ![u] = new(at)] /\ (at = "rollback" => UploadConflicts(u))
    BY <1>0 DEF UploadRefused, UploadConflicts, TypeOK
  <2>2. up' \in [Uploads -> UploadState] /\ up'[u] = new(at)
    BY <1>0, <2>0, <2>1 DEF TypeOK
  <2>3. \A v \in Uploads \ {u} : up'[v] = up[v]
    BY <1>0, <2>1 DEF TypeOK
  <2>4. clock' \in Nat /\ clock <= clock'
    BY <1>0 DEF UploadRefused, UploadConflicts, TypeOK
  <2>5. UNCHANGED <<files, media, url, rm, queue, worker, job, givenUp, overlapped>>
    BY DEF UploadRefused, UploadConflicts
  <2> HIDE DEF new
  <2> QED BY <2>0, <2>1, <2>2, <2>3, <2>4, <2>5
<1>2. ~overlapped => up'[u].at = "error"
  <2>1. ASSUME ~overlapped, up'[u].at = "rollback" PROVE FALSE
    <3>1. UploadConflicts(u)
      BY <1>1, <2>1
    <3>2. Busy(u) /\ OneAtATime
      BY <1>0, <2>1 DEF IInv, AloneInv, Busy, Finished
    <3> QED BY <3>1, <3>2 DEF UploadConflicts, OneAtATime
  <2> QED BY <1>1, <2>1
<1>3. TypeOK'
  BY <1>0, <1>1 DEF TypeOK
<1>4. /\ RowsInv' /\ UrlHasRow' /\ OneActiveRow'
      /\ (\A v \in Uploads : UploadInv(v)') /\ (\A r \in Removals : RemovalInv(r)')
  <2>1. up[u].prev # None => up[u].prev \in Uploads /\ up[u].prev # u
    BY <1>0 DEF UploadInv, Committed, UploadState
  <2>2. UploadInv(u)' /\ ~Committed(u)
    BY <1>0, <1>1, <2>1 DEF UploadInv, Committed
  <2> QED BY <1>1, <2>2, AttemptKeeps
<1>5. Pending' = Pending
  BY <1>0, <1>1, PendingKept
<1>6. FilesOwned' /\ NoJobForgotten'
  <2>1. Attempts' = Attempts /\ \A v \in Attempts : up'[v].key = up[v].key
    BY <1>0, <1>1 DEF Attempts
  <2> QED BY <1>1, <1>5, <2>1 DEF IInv, FilesOwned, NoJobForgotten
<1>7. AloneInv'
  <2> SUFFICES ASSUME ~overlapped
               PROVE  OneAtATime' /\ FilesApart' /\ \A v \in Uploads : ReadsHold(v)'
    BY <1>1 DEF AloneInv
  <2>1. /\ OneAtATime'
        /\ \A v \in Uploads : v # u => up[v].at \in Finished
    BY <1>0, <1>1, <1>2, StillAlone DEF Busy, Finished
  <2>2. FilesApart'
    <3>1. /\ media \subseteq Row /\ clock \in Nat /\ clock' \in Nat
          /\ \A k \in Pending : k[2] < clock /\ \A m \in media : m.key # k
          /\ \A m \in media : m.key \in files /\ m.key[2] < clock
      BY <1>0, <1>1 DEF IInv, TypeOK, AloneInv, FilesApart
    <3>2. Pending \subseteq Keys
      BY PendingType DEF IInv
    <3>3. \A k \in Keys : k[2] \in Nat
      BY DEF Keys
    <3> QED BY <1>1, <1>5, <3>1, <3>2, <3>3 DEF FilesApart, Row
  <2>3. \A v \in Uploads : ReadsHold(v)'
    BY <1>1, <1>2, <2>1 DEF ReadsHold, Finished
  <2> QED BY <2>1, <2>2, <2>3
<1> QED BY <1>3, <1>4, <1>6, <1>7 DEF IInv

\* enqueue: the key is pending and the worker will look at it.
LEMMA EnqueueAdds ==
  ASSUME TypeOK, NEW k \in Keys, enqueue(k)
  PROVE  /\ queue' \in Seq(Job) /\ queue' # << >>
         /\ QueueKeys(queue') = QueueKeys(queue) \cup {k}
         /\ worker' \in {"timer", "running"}
<1> DEFINE j == [key |-> k, attempts |-> 0, due |-> TRUE]
<1>1. j \in Job /\ j.key = k
  BY LimitAssumption DEF Job
<1>2. queue \in Seq(Job) /\ queue' = Append(queue, j)
  BY DEF TypeOK, enqueue
<1> HIDE DEF j
<1>3. queue' \in Seq(Job) /\ queue' # << >> /\ QueueKeys(queue') = QueueKeys(queue) \cup {k}
  BY <1>1, <1>2, AppendKeys
<1> QED BY <1>3 DEF TypeOK, enqueue

\* The catch block of an attempt that met a conflict: its own files are
\* deleted or left to the queue.
LEMMA RollbackStep ==
  ASSUME IInv, NEW u \in Uploads, Rollback(u)
  PROVE  IInv'
<1> USE NoneAssumption, LimitAssumption DEF queueVars
<1>0. TypeOK /\ up[u] \in UploadState /\ UploadInv(u) /\ up[u].at = "rollback" /\ overlapped
  BY DEF IInv, TypeOK, Rollback, AloneInv, OneAtATime
<1>1. /\ up'[u].at \in {"attempt", "error"}
      /\ up'[u].key = up[u].key /\ up'[u].slot = up[u].slot /\ up'[u].content = up[u].content
      /\ up'[u].shared = up[u].shared /\ up'[u].prev = up[u].prev
      /\ up' \in [Uploads -> UploadState]
      /\ \A v \in Uploads \ {u} : up'[v] = up[v]
  <2> DEFINE a == afterConflict(up[u].tries)
             t == nextTry(up[u].tries)
             new == [up[u] EXCEPT !.at = a, !.tries = t]
  <2>1. a \in {"attempt", "error"} /\ t \in 1 .. MaxTries
    BY <1>0 DEF afterConflict, nextTry, UploadState
  <2>2. up' = [up EXCEPT ![u] = new]
    BY <1>0 DEF Rollback, TypeOK
  <2> HIDE DEF a, t
  <2>3. /\ new \in UploadState /\ new.at = a /\ new.key = up[u].key
        /\ new.slot = up[u].slot /\ new.content = up[u].content
        /\ new.shared = up[u].shared /\ new.prev = up[u].prev
    BY <1>0, <2>1 DEF UploadState, Finished
  <2> HIDE DEF new
  <2>4. up' \in [Uploads -> UploadState] /\ up'[u] = new
    BY <1>0, <2>2, <2>3 DEF TypeOK
  <2>5. \A v \in Uploads \ {u} : up'[v] = up[v]
    BY <1>0, <2>2 DEF TypeOK
  <2> QED BY <2>1, <2>3, <2>4, <2>5
<1>2. UNCHANGED <<media, url, clock, rm, overlapped, job, givenUp>>
  BY DEF Rollback
<1>3. up[u].key \in Keys
  BY <1>0 DEF UploadInv, UploadState
<1>4. /\ RowsInv' /\ UrlHasRow' /\ OneActiveRow'
      /\ (\A v \in Uploads : UploadInv(v)') /\ (\A r \in Removals : RemovalInv(r)')
  <2>1. up[u].prev # None => up[u].prev \in Uploads /\ up[u].prev # u
    BY <1>0 DEF UploadInv, Committed, UploadState
  <2>2. UploadInv(u)' /\ ~Committed(u)
    BY <1>0, <1>1, <2>1 DEF UploadInv, Committed
  <2> QED BY <1>1, <1>2, <2>2, AttemptKeeps
<1>5. UploadKeys' = UploadKeys /\ RemovalKeys' = RemovalKeys
  BY <1>0, <1>1, <1>2 DEF UploadKeys, RemovalKeys
<1>6. \A v \in Attempts \ {u} : v \in Attempts' /\ up'[v] = up[v]
  BY <1>1 DEF Attempts
<1>7. CASE /\ files' = IF up[u].shared = None THEN files \ {up[u].key} ELSE files
           /\ UNCHANGED <<queue, worker>>
  <2>1. Pending' = Pending
    BY <1>2, <1>5, <1>7 DEF Pending
  <2>2. TypeOK' /\ NoJobForgotten'
    BY <1>0, <1>1, <1>2, <1>7 DEF TypeOK, IInv, NoJobForgotten
  <2>3. u \in Attempts => up[u].key \notin files'
    BY <1>7 DEF Attempts
  <2>4. files' \subseteq files
    BY <1>7
  <2>5. FilesOwned'
    BY <1>2, <1>6, <2>1, <2>3, <2>4 DEF IInv, FilesOwned
  <2> QED BY <1>0, <1>2, <1>4, <2>2, <2>5 DEF IInv, AloneInv
<1>8. CASE enqueue(up[u].key) /\ UNCHANGED files
  <2>1. /\ queue' \in Seq(Job) /\ queue' # << >> /\ worker' \in {"timer", "running"}
        /\ QueueKeys(queue') = QueueKeys(queue) \cup {up[u].key}
    BY <1>0, <1>3, <1>8, EnqueueAdds
  <2>2. Pending' = Pending \cup {up[u].key}
    BY <1>2, <1>5, <2>1 DEF Pending
  <2>3. TypeOK' /\ NoJobForgotten'
    BY <1>0, <1>1, <1>2, <1>8, <2>1 DEF TypeOK, NoJobForgotten
  <2>4. FilesOwned'
    BY <1>2, <1>6, <1>8, <2>2 DEF IInv, FilesOwned
  <2> QED BY <1>0, <1>2, <1>4, <2>3, <2>4 DEF IInv, AloneInv
<1> QED BY <1>7, <1>8 DEF Rollback

-----------------------------------------------------------------------------
(* The transactions. *)

\* The row an id names is unique: it is what the upload committed.
LEMMA RowsById ==
  ASSUME RowsInv, NEW id, NEW rows, rows = {m \in media : m.id = id}
  PROVE  rows = {} \/ (rows = {RowOf(id)} /\ Committed(id) /\ RowOf(id) \in media)
<1>1. \A m \in rows : m = RowOf(id) /\ Committed(id) /\ m \in media
  BY DEF RowsInv
<1> QED BY <1>1

\* The transaction of an upload: the new row takes the place of the old one,
\* whose files are pending as soon as no row needs them.
LEMMA CommitStep ==
  ASSUME IInv, NEW u \in Uploads, CommitUpload(u)
  PROVE  IInv'
<1> USE NoneAssumption DEF queueVars
<1>0. TypeOK /\ up[u] \in UploadState /\ UploadInv(u) /\ up[u].at = "stored" /\ RowsInv
  BY DEF IInv, TypeOK, CommitUpload
<1> DEFINE new == RowOf(u)
           rows == media \ replaced(u)
           old == IF replaced(u) = {} THEN None ELSE (CHOOSE m \in replaced(u) : TRUE).key
           p == up[u].prev
<1>1. /\ media' = rows \cup {new}
      /\ url' = [url EXCEPT ![up[u].slot] = up[u].key]
      /\ clock' = clock + 1
      /\ up' = [up EXCEPT ![u].at = IF unshared(rows, {new}, old) THEN "enqueue" ELSE "done",
                          ![u].old = old]
      /\ UNCHANGED <<files, rm, queue, worker, job, givenUp, overlapped>>
  BY DEF CommitUpload, RowOf
<1>2. /\ up[u].slot \in Slots /\ up[u].content \in Contents /\ up[u].key \in Keys
      /\ p \in Uploads \cup {None} /\ clock \in Nat
      /\ media \subseteq Row /\ files \subseteq Keys
  BY <1>0 DEF UploadInv, UploadState, TypeOK
<1>3. /\ new \in Row /\ new.key = up[u].key /\ new.slot = up[u].slot /\ new.id = u
  BY <1>2 DEF RowOf, Row
<1>4. \/ replaced(u) = {} /\ old = None
      \/ /\ replaced(u) = {RowOf(p)} /\ RowOf(p) \in media
         /\ p \in Uploads /\ Committed(p) /\ up[p].slot = up[u].slot /\ old = up[p].key
  <2>1. CASE replaced(u) = {}
    BY <2>1
  <2>2. CASE replaced(u) # {}
    <3>1. replaced(u) = {RowOf(p)} /\ Committed(p) /\ RowOf(p) \in media
      BY <1>0, <2>2, RowsById DEF replaced
    <3>2. p \in Uploads
      BY <1>2, <3>1 DEF RowOf, Row
    <3>3. (CHOOSE m \in replaced(u) : TRUE) = RowOf(p)
      BY <3>1
    <3>4. up[p].slot = up[u].slot
      <4>1. p # None
        BY <3>2
      <4> QED BY <1>0, <4>1 DEF UploadInv
    <3>5. old = (CHOOSE m \in replaced(u) : TRUE).key
      BY <2>2
    <3>6. old = up[p].key
      <4>1. RowOf(p).key = up[p].key
        BY DEF RowOf
      <4>2. old = RowOf(p).key
        BY <3>3, <3>5
      <4> QED BY <4>1, <4>2
    <3> HIDE DEF old, p
    <3> QED BY <3>1, <3>2, <3>4, <3>6
  <2> QED BY <2>1, <2>2
<1>5. /\ old \in Keys \cup {None}
      /\ \A m \in media : m \notin rows => m.key = old /\ m.slot = up[u].slot /\ m.id = p
  BY <1>2, <1>4 DEF RowOf, Row
<1>a. \A m \in media : m.id = p /\ p # None => m \notin rows
  BY DEF replaced
<1>b. old # None => \E m \in media : m.key = old
  BY <1>4 DEF RowOf
<1>c. rows \subseteq media
  OBVIOUS
<1> HIDE DEF new, rows, old, p
<1>6. /\ up'[u].at \in {"enqueue", "done"} /\ (up'[u].at = "enqueue") = unshared(rows, {new}, old)
      /\ up'[u].key = up[u].key /\ up'[u].slot = up[u].slot /\ up'[u].content = up[u].content
      /\ up'[u].old = old
      /\ up' \in [Uploads -> UploadState]
      /\ \A v \in Uploads \ {u} : up'[v] = up[v]
  <2> DEFINE a == IF unshared(rows, {new}, old) THEN "enqueue" ELSE "done"
             nu == [up[u] EXCEPT !.at = a, !.old = old]
  <2>1. a \in {"enqueue", "done"} /\ (a = "enqueue") = unshared(rows, {new}, old)
    BY DEF unshared
  <2>2. up' = [up EXCEPT ![u] = nu]
    BY <1>0, <1>1 DEF TypeOK
  <2> HIDE DEF a
  <2>3. /\ nu \in UploadState /\ nu.at = a /\ nu.key = up[u].key /\ nu.old = old
        /\ nu.slot = up[u].slot /\ nu.content = up[u].content
    BY <1>0, <1>5, <2>1 DEF UploadState, Finished
  <2> HIDE DEF nu
  <2>4. up' \in [Uploads -> UploadState] /\ up'[u] = nu
    BY <1>0, <2>2, <2>3 DEF TypeOK
  <2>5. \A v \in Uploads \ {u} : up'[v] = up[v]
    BY <1>0, <2>2 DEF TypeOK
  <2> QED BY <2>1, <2>3, <2>4, <2>5
<1>7. TypeOK'
  <2>1. url' \in [Slots -> Keys \cup {None}] /\ clock' \in Nat /\ media' \subseteq Row
    BY <1>0, <1>1, <1>2, <1>3, <1>c DEF TypeOK
  <2> QED BY <1>0, <1>1, <1>6, <2>1 DEF TypeOK
<1>8. \A v \in Uploads : Committed(v) => v # u /\ up'[v] = up[v] /\ Committed(v)'
  BY <1>0, <1>6 DEF Committed
<1>9. RowsInv'
  <2>1. ASSUME NEW m \in rows PROVE Committed(m.id)' /\ m = RowOf(m.id)'
    <3>1. m \in Row /\ m.id \in Uploads /\ Committed(m.id) /\ m = RowOf(m.id)
      BY <1>0, <1>2, <1>c, <2>1 DEF RowsInv, Row
    <3>2. up'[m.id] = up[m.id]
      BY <1>8, <3>1
    <3> QED BY <3>1, <3>2 DEF Committed, RowOf
  <2>2. Committed(u)' /\ new = RowOf(u)'
    BY <1>6 DEF Committed, RowOf, new
  <2> QED BY <1>1, <1>3, <2>1, <2>2 DEF RowsInv
<1>10. \A v \in Uploads : UploadInv(v)'
  <2>1. UploadInv(u)'
    BY <1>0, <1>2, <1>6 DEF UploadInv, unshared
  <2>2. ASSUME NEW v \in Uploads \ {u} PROVE UploadInv(v)'
    <3>1. UploadInv(v) /\ up'[v] = up[v] /\ up[v].prev \in Uploads \cup {None}
      BY <1>0, <1>6 DEF IInv, TypeOK, UploadState
    <3>2. ASSUME NEW q \in Uploads, Committed(q), q = up[v].prev
          PROVE  up'[q] = up[q] /\ up'[q].at \in {"enqueue", "done"}
      BY <1>8, <3>2 DEF Committed
    <3> QED BY <3>1, <3>2 DEF UploadInv, Committed
  <2> QED BY <2>1, <2>2
<1>11. \A r \in Removals : RemovalInv(r)'
  <2> SUFFICES ASSUME NEW r \in Removals PROVE RemovalInv(r)'
    OBVIOUS
  <2>1. RemovalInv(r) /\ rm' = rm
    BY <1>1 DEF IInv
  <2>2. ASSUME NEW q \in Uploads, Committed(q), q = rm[r].id
        PROVE  up'[q] = up[q] /\ up'[q].at \in {"enqueue", "done"}
    BY <1>8, <2>2 DEF Committed
  <2> QED BY <2>1, <2>2 DEF RemovalInv, Committed
<1>12. NoJobForgotten'
  BY <1>1 DEF IInv, NoJobForgotten
<1>13. UrlHasRow'
  <2> SUFFICES ASSUME NEW s \in Slots, url'[s] # None
               PROVE  \E m \in media' : m.slot = s /\ m.key = url'[s]
    BY DEF UrlHasRow
  <2>1. CASE s = up[u].slot
    BY <1>0, <1>1, <1>2, <1>3, <2>1 DEF TypeOK
  <2>2. CASE s # up[u].slot
    BY <1>0, <1>1, <1>2, <1>5, <2>2 DEF TypeOK, IInv, UrlHasRow
  <2> QED BY <2>1, <2>2
<1>14. Pending' = Pending \cup (IF unshared(rows, {new}, old) THEN {old} ELSE {})
  <2>1. UploadKeys' = UploadKeys \cup (IF unshared(rows, {new}, old) THEN {old} ELSE {})
    <3>1. ASSUME NEW k PROVE k \in UploadKeys' <=>
            (k \in UploadKeys \/ (unshared(rows, {new}, old) /\ k = old))
      <4>1. k \in UploadKeys <=> \E v \in Uploads \ {u} : up[v].at = "enqueue" /\ up[v].old = k
        BY <1>0 DEF UploadKeys
      <4>2. k \in UploadKeys' <=>
              \/ \E v \in Uploads \ {u} : up'[v].at = "enqueue" /\ up'[v].old = k
              \/ up'[u].at = "enqueue" /\ up'[u].old = k
        BY DEF UploadKeys
      <4> QED BY <1>6, <4>1, <4>2
    <3> QED BY <3>1
  <2>2. RemovalKeys' = RemovalKeys
    BY <1>1 DEF RemovalKeys
  <2> QED BY <1>1, <2>1, <2>2 DEF Pending
<1>15. FilesOwned'
  <2> SUFFICES ASSUME NEW k \in files
               PROVE  \/ \E m \in media' : m.key = k
                      \/ \E v \in Attempts' : up'[v].key = k
                      \/ k \in Pending' \cup givenUp'
    BY <1>1 DEF FilesOwned
  <2>1. CASE \E m \in media : m.key = k
    <3>1. PICK m \in media : m.key = k
      BY <2>1
    <3>2. CASE m \in rows
      BY <1>1, <3>1, <3>2
    <3>3. CASE m \notin rows
      <4>1. k = old /\ old # None
        BY <1>2, <1>5, <3>1, <3>3
      <4>2. unshared(rows, {new}, old) \/ \E n \in media' : n.key = old
        BY <1>1, <4>1 DEF unshared
      <4> QED BY <1>14, <4>1, <4>2
    <3> QED BY <3>2, <3>3
  <2>2. CASE \E v \in Attempts : up[v].key = k
    <3>1. PICK v \in Attempts : up[v].key = k
      BY <2>2
    <3>2. CASE v = u
      BY <1>1, <1>3, <3>1, <3>2
    <3>3. CASE v # u
      BY <1>6, <3>1, <3>3 DEF Attempts
    <3> QED BY <3>2, <3>3
  <2>3. CASE k \in Pending \cup givenUp
    BY <1>1, <1>14, <2>3
  <2> QED BY <2>1, <2>2, <2>3 DEF IInv, FilesOwned
<1>16. ASSUME ~overlapped PROVE \A m \in media : m.slot = up[u].slot => m \notin rows
  <2>1. \A m \in media : m.slot = up[u].slot => m.id = p
    BY <1>0, <1>16 DEF IInv, AloneInv, ReadsHold, p
  <2>2. \A m \in media : m.id \in Uploads
    BY <1>2 DEF Row
  <2> QED BY <1>a, <2>1, <2>2
<1>17. AloneInv'
  <2> SUFFICES ASSUME ~overlapped
               PROVE  OneAtATime' /\ FilesApart' /\ \A v \in Uploads : ReadsHold(v)'
    BY <1>1 DEF AloneInv
  <2>1. /\ OneAtATime'
        /\ \A v \in Uploads : v # u => up[v].at \in Finished
    BY <1>0, <1>1, <1>6, StillAlone DEF Busy, Finished
  <2>2. \A v \in Uploads : ReadsHold(v)'
    BY <1>6, <2>1 DEF ReadsHold, Finished
  <2>3. /\ \A m \in media : m.key \in files /\ m.key[2] < clock
        /\ \A k \in Pending : k[2] < clock /\ \A m \in media : m.key # k
        /\ ReadsHold(u)
    BY DEF IInv, AloneInv, FilesApart
  <2>4. \A k \in Keys : k[2] \in Nat
    BY DEF Keys
  <2>5. Pending \subseteq Keys
    BY PendingType DEF IInv
  <2>6. up[u].key \in files /\ up[u].key[2] <= clock /\ up[u].key \notin Pending
    <3>1. CASE up[u].shared = None
      BY <1>0, <1>2, <2>3, <3>1 DEF ReadsHold
    <3>2. CASE up[u].shared # None
      <4>1. PICK m \in media : m.key = up[u].key
        BY <1>0, <2>3, <3>2 DEF ReadsHold, UploadInv
      <4>2. m.key[2] < clock /\ m.key[2] \in Nat
        BY <1>2, <2>3, <2>4 DEF Row
      <4> QED BY <1>2, <2>3, <4>1, <4>2
    <3> QED BY <3>1, <3>2
  <2>7. \A m \in media' : m.key \in files' /\ m.key[2] < clock'
    <3>1. ASSUME NEW m \in rows PROVE m.key \in files /\ m.key[2] < clock + 1
      <4>1. m.key \in files /\ m.key[2] < clock /\ m.key[2] \in Nat
        BY <1>2, <1>c, <2>3, <2>4
      <4> QED BY <1>2, <4>1
    <3>2. new.key \in files /\ new.key[2] < clock + 1
      BY <1>2, <1>3, <2>4, <2>6
    <3> QED BY <1>1, <3>1, <3>2
  <2>8. \A k \in Pending' : k[2] < clock' /\ \A m \in media' : m.key # k
    <3>1. ASSUME NEW k \in Pending PROVE k[2] < clock + 1 /\ \A m \in media' : m.key # k
      <4>1. k[2] \in Nat /\ k[2] < clock
        BY <2>3, <2>4, <2>5
      <4>2. \A m \in media' : m.key # k
        BY <1>1, <1>3, <1>c, <2>3, <2>6
      <4> QED BY <1>2, <4>1, <4>2
    <3>2. ASSUME unshared(rows, {new}, old)
          PROVE  old[2] < clock + 1 /\ \A m \in media' : m.key # old
      <4>1. old # None /\ \A m \in media' : m.key # old
        BY <1>1, <3>2 DEF unshared
      <4>2. old[2] \in Nat /\ old[2] < clock
        BY <1>5, <1>b, <2>3, <2>4, <4>1
      <4> QED BY <1>2, <4>1, <4>2
    <3> QED BY <1>1, <1>14, <3>1, <3>2
  <2> QED BY <2>1, <2>2, <2>7, <2>8 DEF FilesApart
<1>18. OneActiveRow'
  BY <1>1, <1>3, <1>16, <1>c DEF IInv, OneActiveRow
<1> QED BY <1>7, <1>9, <1>10, <1>11, <1>12, <1>13, <1>15, <1>17, <1>18 DEF IInv

\* enqueueCleanup REPLACE: the key moves from the upload to the queue.
LEMMA ReplacedStep ==
  ASSUME IInv, NEW u \in Uploads, EnqueueReplaced(u)
  PROVE  IInv'
<1> USE NoneAssumption
<1>0. TypeOK /\ up[u] \in UploadState /\ UploadInv(u) /\ up[u].at = "enqueue"
  BY DEF IInv, TypeOK, EnqueueReplaced
<1>1. /\ up'[u].at = "done" /\ up'[u].key = up[u].key
      /\ up'[u].slot = up[u].slot /\ up'[u].content = up[u].content
      /\ up' \in [Uploads -> UploadState]
      /\ \A v \in Uploads \ {u} : up'[v] = up[v]
  <2> DEFINE new == [up[u] EXCEPT !.at = "done"]
  <2>1. up' = [up EXCEPT ![u] = new]
    BY <1>0 DEF EnqueueReplaced, TypeOK
  <2>2. /\ new \in UploadState /\ new.at = "done" /\ new.key = up[u].key
        /\ new.slot = up[u].slot /\ new.content = up[u].content
    BY <1>0 DEF UploadState, Finished
  <2> HIDE DEF new
  <2>3. up' \in [Uploads -> UploadState] /\ up'[u] = new
    BY <1>0, <2>1, <2>2 DEF TypeOK
  <2>4. \A v \in Uploads \ {u} : up'[v] = up[v]
    BY <1>0, <2>1 DEF TypeOK
  <2> QED BY <2>2, <2>3, <2>4
<1>2. up[u].old \in Keys /\ enqueue(up[u].old)
      /\ UNCHANGED <<media, files, url, clock, rm, job, givenUp, overlapped>>
  BY <1>0 DEF UploadInv, UploadState, EnqueueReplaced
<1>3. /\ queue' \in Seq(Job) /\ queue' # << >> /\ worker' \in {"timer", "running"}
      /\ QueueKeys(queue') = QueueKeys(queue) \cup {up[u].old}
  BY <1>0, <1>2, EnqueueAdds
<1>4. TypeOK' /\ NoJobForgotten'
  BY <1>0, <1>1, <1>2, <1>3 DEF TypeOK, NoJobForgotten
<1>5. Pending' = Pending
  <2>1. UploadKeys = UploadKeys' \cup {up[u].old}
    <3>1. ASSUME NEW k PROVE k \in UploadKeys <=> (k \in UploadKeys' \/ k = up[u].old)
      <4>1. k \in UploadKeys <=>
              \/ \E v \in Uploads \ {u} : up[v].at = "enqueue" /\ up[v].old = k
              \/ k = up[u].old
        BY <1>0 DEF UploadKeys
      <4>2. k \in UploadKeys' <=>
              \E v \in Uploads \ {u} : up'[v].at = "enqueue" /\ up'[v].old = k
        BY <1>1 DEF UploadKeys
      <4> QED BY <1>1, <4>1, <4>2
    <3> QED BY <3>1
  <2>2. RemovalKeys' = RemovalKeys
    BY <1>2 DEF RemovalKeys
  <2> QED BY <1>2, <1>3, <2>1, <2>2 DEF Pending
<1>6. \A v \in Uploads : /\ Committed(v)' = Committed(v) /\ RowOf(v)' = RowOf(v)
                         /\ up'[v].slot = up[v].slot /\ up'[v].key = up[v].key
  BY <1>0, <1>1 DEF Committed, RowOf
<1>7. RowsInv' /\ UrlHasRow' /\ OneActiveRow'
  <2>1. RowsInv'
    <3>1. \A m \in media : m.id \in Uploads /\ Committed(m.id) /\ m = RowOf(m.id)
      BY <1>0 DEF IInv, TypeOK, RowsInv, Row
    <3>2. \A m \in media : Committed(m.id)' /\ RowOf(m.id)' = RowOf(m.id)
      BY <1>6, <3>1
    <3> QED BY <1>2, <3>1, <3>2 DEF RowsInv
  <2> QED BY <1>2, <2>1 DEF IInv, UrlHasRow, OneActiveRow
<1>8. \A v \in Uploads : UploadInv(v)'
  <2>1. UploadInv(u)'
    BY <1>0, <1>1 DEF UploadInv
  <2>2. ASSUME NEW v \in Uploads \ {u} PROVE UploadInv(v)'
    <3>1. UploadInv(v) /\ up'[v] = up[v] /\ up[v].prev \in Uploads \cup {None}
      BY <1>0, <1>1 DEF IInv, TypeOK, UploadState
    <3>2. ASSUME NEW q \in Uploads, Committed(q), q = up[v].prev
          PROVE  up'[q].slot = up[q].slot /\ up'[q].at \in {"enqueue", "done"}
      BY <1>1, <3>2 DEF Committed
    <3> QED BY <3>1, <3>2 DEF UploadInv, Committed
  <2> QED BY <2>1, <2>2
<1>9. \A r \in Removals : RemovalInv(r)'
  <2> SUFFICES ASSUME NEW r \in Removals PROVE RemovalInv(r)'
    OBVIOUS
  <2>1. RemovalInv(r) /\ rm' = rm
    BY <1>2 DEF IInv
  <2>2. ASSUME NEW q \in Uploads, Committed(q), q = rm[r].id
        PROVE  up'[q].key = up[q].key /\ up'[q].at \in {"enqueue", "done"}
    BY <1>1, <2>2 DEF Committed
  <2> QED BY <2>1, <2>2 DEF RemovalInv, Committed
<1>10. FilesOwned'
  <2>1. Attempts' = Attempts /\ \A v \in Attempts : up'[v] = up[v]
    BY <1>0, <1>1 DEF Attempts
  <2> QED BY <1>2, <1>5, <2>1 DEF IInv, FilesOwned
<1>11. AloneInv'
  <2> SUFFICES ASSUME ~overlapped
               PROVE  OneAtATime' /\ FilesApart' /\ \A v \in Uploads : ReadsHold(v)'
    BY <1>2 DEF AloneInv
  <2>1. /\ OneAtATime'
        /\ \A v \in Uploads : v # u => up[v].at \in Finished
    BY <1>0, <1>1, <1>2, StillAlone DEF Busy, Finished
  <2>2. FilesApart'
    BY <1>2, <1>5 DEF IInv, AloneInv, FilesApart
  <2>3. \A v \in Uploads : ReadsHold(v)'
    BY <1>1, <2>1 DEF ReadsHold, Finished
  <2> QED BY <2>1, <2>2, <2>3
<1> QED BY <1>4, <1>7, <1>8, <1>9, <1>10, <1>11 DEF IInv

-----------------------------------------------------------------------------
(* remove *)

\* A removal that leaves the rows and files alone keeps IInv if it keeps what is
\* pending and, until requests overlap, is the only request.
LEMMA RemovalKeeps ==
  ASSUME IInv, TypeOK', NoJobForgotten', NEW r \in Removals, RemovalInv(r)',
         \A q \in Removals \ {r} : rm'[q] = rm[q],
         UNCHANGED <<media, files, url, clock, up, givenUp>>, Pending' = Pending,
         overlapped => overlapped',
         ~overlapped' => OneAtATime'
  PROVE  IInv'
<1>1. overlapped \in BOOLEAN /\ overlapped' \in BOOLEAN
  BY DEF IInv, TypeOK
<1>2. RowsInv' /\ UrlHasRow' /\ OneActiveRow'
  BY DEF IInv, RowsInv, Committed, RowOf, UrlHasRow, OneActiveRow
<1>3. \A v \in Uploads : UploadInv(v)'
  BY DEF IInv, UploadInv, Committed
<1>4. \A q \in Removals : RemovalInv(q)'
  BY DEF IInv, RemovalInv, Committed
<1>5. FilesOwned'
  BY DEF IInv, FilesOwned, Attempts
<1>6. AloneInv'
  BY DEF IInv, AloneInv, FilesApart, ReadsHold
<1> QED BY <1>2, <1>3, <1>4, <1>5, <1>6 DEF IInv

\* The removal under way is alone, and stays alone while it moves.
LEMMA RemovalAlone ==
  ASSUME IInv, NEW r \in Removals, Active(r), ~overlapped,
         \A q \in Removals \ {r} : rm'[q] = rm[q], UNCHANGED up
  PROVE  OneAtATime' /\ \A v \in Uploads : up[v].at \in Finished
<1>1. OneAtATime
  BY DEF IInv, AloneInv
<1>2. \A v \in Uploads : up[v].at \in Finished
  BY <1>1 DEF OneAtATime, Busy
<1>3. \A q \in Removals \ {r} : rm'[q].at \in Finished
  BY <1>1 DEF OneAtATime, Active
<1> QED BY <1>1, <1>2, <1>3 DEF OneAtATime, Busy, Active

\* The lookup of a removal, and its failed transactions.
LEMMA RemovalSteps ==
  ASSUME IInv, NEW r \in Removals,
         (\E id \in Uploads : FindMedia(r, id)) \/ RemoveRefused(r) \/ RemoveConflicts(r)
  PROVE  IInv'
<1> USE NoneAssumption, LimitAssumption DEF queueVars
<1>0. TypeOK /\ rm[r] \in RemovalState /\ RemovalInv(r) /\ RowsInv /\ NoJobForgotten
  BY DEF IInv, TypeOK
<1>1. ASSUME NEW id \in Uploads, FindMedia(r, id) PROVE IInv'
  <2> DEFINE rows == {m \in media : m.id = id}
             new == IF rows = {} THEN [rm[r] EXCEPT !.at = "error"]
                    ELSE [rm[r] EXCEPT !.at = "tx", !.id = id, !.key = (CHOOSE m \in rows : TRUE).key]
  <2>1. /\ rm' = [rm EXCEPT ![r] = new]
        /\ rm[r].at = "new" /\ NoteOverlap
        /\ UNCHANGED <<media, files, url, clock, up, queueVars>>
    BY <1>0, <1>1 DEF FindMedia, TypeOK
  <2>2. /\ new \in RemovalState /\ new.at \in {"tx", "error"}
        /\ new.at = "tx" => new.id = id /\ Committed(id) /\ new.key = up[id].key
    <3>1. CASE rows = {}
      <4>1. new = [rm[r] EXCEPT !.at = "error"]
        BY <3>1
      <4> QED BY <1>0, <4>1 DEF RemovalState, Finished
    <3>2. CASE rows # {}
      <4>1. rows = {RowOf(id)} /\ Committed(id) /\ RowOf(id) \in media
        BY <1>0, <3>2, RowsById
      <4>2. (CHOOSE m \in rows : TRUE) = RowOf(id)
        BY <4>1
      <4>3. RowOf(id).key = up[id].key /\ up[id].key \in Keys
        <5>1. RowOf(id).key = up[id].key
          BY DEF RowOf
        <5> QED BY <1>0, <4>1, <5>1 DEF TypeOK, Row
      <4>4. new = [rm[r] EXCEPT !.at = "tx", !.id = id, !.key = up[id].key]
        BY <3>2, <4>2, <4>3
      <4> QED BY <1>0, <4>1, <4>3, <4>4 DEF RemovalState
    <3> QED BY <3>1, <3>2
  <2> HIDE DEF new, rows
  <2>3. rm' \in [Removals -> RemovalState] /\ rm'[r] = new
        /\ \A q \in Removals \ {r} : rm'[q] = rm[q]
    BY <1>0, <2>1, <2>2 DEF TypeOK
  <2>4. TypeOK' /\ NoJobForgotten'
    <3>1. overlapped' \in BOOLEAN
      BY <1>0, <2>1 DEF NoteOverlap
    <3> QED BY <1>0, <2>1, <2>3, <3>1 DEF TypeOK, NoJobForgotten
  <2>5. overlapped => overlapped'
    BY <1>0, <2>1 DEF NoteOverlap, TypeOK
  <2>6. RemovalInv(r)'
    BY <2>1, <2>2, <2>3 DEF RemovalInv, Committed
  <2>7. Pending' = Pending
    <3>1. RemovalKeys' = RemovalKeys
      BY <2>1, <2>2, <2>3 DEF RemovalKeys
    <3> QED BY <2>1, <3>1 DEF Pending, UploadKeys
  <2>8. ASSUME ~overlapped' PROVE OneAtATime'
    <3>1. ~overlapped /\ (\A v \in Uploads : ~Busy(v)) /\ (\A q \in Removals : ~Active(q))
      BY <2>1, <2>8 DEF NoteOverlap
    <3>2. \A q \in Removals \ {r} : ~Active(q)'
      BY <2>3, <3>1 DEF Active
    <3>3. \A v \in Uploads : ~Busy(v)' /\ up'[v].at # "rollback"
      BY <2>1, <3>1 DEF Busy, Finished
    <3> QED BY <3>2, <3>3 DEF OneAtATime
  <2> QED BY <2>1, <2>3, <2>4, <2>5, <2>6, <2>7, <2>8, RemovalKeeps
<1>2. CASE RemoveRefused(r) \/ RemoveConflicts(r)
  <2>1. /\ rm[r].at = "tx"
        /\ UNCHANGED <<media, files, url, clock, up, queue, worker, job, givenUp, overlapped>>
    BY <1>2 DEF RemoveRefused, RemoveConflicts
  <2>2. PICK a \in {"error", "tx"}, t \in 1 .. MaxTries :
          rm' = [rm EXCEPT ![r] = [rm[r] EXCEPT !.at = a, !.tries = t]]
    <3>1. CASE RemoveRefused(r)
      <4>1. rm' = [rm EXCEPT ![r] = [rm[r] EXCEPT !.at = "error"]]
        BY <1>0, <3>1 DEF RemoveRefused, TypeOK
      <4>2. rm[r].tries \in 1 .. MaxTries
            /\ [rm[r] EXCEPT !.at = "error"] = [rm[r] EXCEPT !.at = "error", !.tries = rm[r].tries]
        BY <1>0 DEF RemovalState
      <4> QED BY <4>1, <4>2
    <3>2. CASE RemoveConflicts(r)
      <4> DEFINE a == IF rm[r].tries = MaxTries THEN "error" ELSE "tx"
                 t == nextTry(rm[r].tries)
      <4>1. a \in {"error", "tx"} /\ t \in 1 .. MaxTries
        BY <1>0 DEF nextTry, RemovalState
      <4>2. rm' = [rm EXCEPT ![r] = [rm[r] EXCEPT !.at = a, !.tries = t]]
        BY <1>0, <3>2 DEF RemoveConflicts, TypeOK
      <4> HIDE DEF a, t
      <4> QED BY <4>1, <4>2
    <3> QED BY <1>2, <3>1, <3>2
  <2> DEFINE new == [rm[r] EXCEPT !.at = a, !.tries = t]
  <2>3. new \in RemovalState /\ new.at = a /\ new.id = rm[r].id /\ new.key = rm[r].key
    BY <1>0, <2>2 DEF RemovalState, Finished
  <2>a. rm' = [rm EXCEPT ![r] = new]
    BY <2>2
  <2> HIDE DEF new
  <2>4. rm' \in [Removals -> RemovalState] /\ rm'[r] = new
        /\ \A q \in Removals \ {r} : rm'[q] = rm[q]
    BY <1>0, <2>a, <2>3 DEF TypeOK
  <2>5. TypeOK' /\ NoJobForgotten'
    BY <1>0, <2>1, <2>4 DEF TypeOK, NoJobForgotten
  <2>6. RemovalInv(r)'
    BY <1>0, <2>1, <2>3, <2>4 DEF RemovalInv, Committed
  <2>7. Pending' = Pending
    <3>1. RemovalKeys' = RemovalKeys
      BY <2>1, <2>2, <2>3, <2>4 DEF RemovalKeys
    <3> QED BY <2>1, <3>1 DEF Pending, UploadKeys
  <2>8. ASSUME ~overlapped PROVE OneAtATime'
    BY <2>1, <2>4, <2>8, RemovalAlone DEF Active, Finished
  <2> QED BY <2>1, <2>4, <2>5, <2>6, <2>7, <2>8, RemovalKeeps
<1> QED BY <1>1, <1>2

\* The transaction of a removal: the files of the row are pending as soon as no
\* other row needs them.
LEMMA CommitRemoveStep ==
  ASSUME IInv, NEW r \in Removals, CommitRemove(r)
  PROVE  IInv'
<1> USE NoneAssumption DEF queueVars
<1>0. TypeOK /\ rm[r] \in RemovalState /\ RemovalInv(r) /\ RowsInv /\ rm[r].at = "tx"
  BY DEF IInv, TypeOK, CommitRemove
<1> DEFINE rows == media \ removed(r)
           k == rm[r].key
           now == removed(r) # {} /\ unshared(rows, {}, k)
           a == IF now THEN "enqueue" ELSE "done"
           new == [rm[r] EXCEPT !.at = a]
<1>1. /\ media' = rows
      /\ url' = [s \in Slots |-> IF \E m \in removed(r) : m.slot = s THEN None ELSE url[s]]
      /\ clock' = clock + 1
      /\ rm' = [rm EXCEPT ![r] = new]
      /\ UNCHANGED <<files, up, queue, worker, job, givenUp, overlapped>>
  BY <1>0 DEF CommitRemove, TypeOK
<1>2. /\ rm[r].id \in Uploads /\ Committed(rm[r].id) /\ k = up[rm[r].id].key /\ k \in Keys
      /\ media \subseteq Row /\ files \subseteq Keys /\ clock \in Nat
  <2>1. rm[r].id \in Uploads /\ Committed(rm[r].id) /\ k = up[rm[r].id].key
    BY <1>0 DEF RemovalInv
  <2>2. k \in Keys
    BY <1>0, <2>1 DEF IInv, UploadInv, Committed, TypeOK, UploadState
  <2> QED BY <1>0, <2>1, <2>2 DEF TypeOK
<1>3. /\ rows \subseteq media
      /\ \A m \in media : m \notin rows => m.key = k /\ m \in removed(r)
      /\ removed(r) # {} => \E m \in media : m.key = k
  <2>1. \A m \in removed(r) : m \in media /\ m.key = k
    BY <1>0, <1>2 DEF removed, RowsInv, RowOf
  <2> QED BY <2>1
<1>4. a \in {"enqueue", "done"} /\ (a = "enqueue") = now
  BY DEF unshared
<1>5. /\ \A m \in rows : \E n \in media : n = m
      /\ now => \A m \in rows : m.key # k
      /\ now => removed(r) # {}
      /\ ~now => \A m \in media : m \in rows \/ \E n \in rows : n.key = m.key
  BY <1>2, <1>3 DEF unshared
<1> HIDE DEF rows, k, now, a
<1>6. new \in RemovalState /\ new.at = a /\ new.id = rm[r].id /\ new.key = k
  BY <1>0, <1>4 DEF RemovalState, Finished, k
<1> HIDE DEF new
<1>7. /\ rm' \in [Removals -> RemovalState] /\ rm'[r] = new
      /\ \A q \in Removals \ {r} : rm'[q] = rm[q]
  BY <1>0, <1>1, <1>6 DEF TypeOK
<1>8. TypeOK' /\ NoJobForgotten'
  <2>1. url' \in [Slots -> Keys \cup {None}] /\ clock' \in Nat /\ media' \subseteq Row
    BY <1>0, <1>1, <1>2, <1>3 DEF TypeOK
  <2> QED BY <1>0, <1>1, <1>7, <2>1 DEF TypeOK, IInv, NoJobForgotten
<1>9. RowsInv' /\ OneActiveRow' /\ \A v \in Uploads : UploadInv(v)'
  BY <1>1, <1>3 DEF IInv, RowsInv, OneActiveRow, UploadInv, Committed, RowOf
<1>10. \A q \in Removals : RemovalInv(q)'
  <2>1. RemovalInv(r)'
    BY <1>1, <1>2, <1>6, <1>7 DEF RemovalInv, Committed
  <2>2. \A q \in Removals \ {r} : RemovalInv(q)'
    BY <1>1, <1>7 DEF IInv, RemovalInv, Committed
  <2> QED BY <2>1, <2>2
<1>11. UrlHasRow'
  <2> SUFFICES ASSUME NEW s \in Slots, url'[s] # None
               PROVE  \E m \in media' : m.slot = s /\ m.key = url'[s]
    BY DEF UrlHasRow
  <2>1. url'[s] = url[s] /\ \A m \in removed(r) : m.slot # s
    BY <1>1
  <2>2. PICK m \in media : m.slot = s /\ m.key = url[s]
    BY <2>1 DEF IInv, UrlHasRow
  <2> QED BY <1>1, <1>3, <2>1, <2>2
<1>12. Pending' = Pending \cup (IF now THEN {k} ELSE {})
  <2>1. RemovalKeys' = RemovalKeys \cup (IF now THEN {k} ELSE {})
    <3>1. ASSUME NEW x PROVE x \in RemovalKeys' <=> (x \in RemovalKeys \/ (now /\ x = k))
      <4>1. x \in RemovalKeys <=> \E q \in Removals \ {r} : rm[q].at = "enqueue" /\ rm[q].key = x
        BY <1>0 DEF RemovalKeys
      <4>2. x \in RemovalKeys' <=>
              \/ \E q \in Removals \ {r} : rm'[q].at = "enqueue" /\ rm'[q].key = x
              \/ rm'[r].at = "enqueue" /\ rm'[r].key = x
        BY DEF RemovalKeys
      <4> QED BY <1>4, <1>6, <1>7, <4>1, <4>2
    <3> QED BY <3>1
  <2>2. UploadKeys' = UploadKeys
    BY <1>1 DEF UploadKeys
  <2> QED BY <1>1, <2>1, <2>2 DEF Pending
<1>13. FilesOwned'
  <2>1. Attempts' = Attempts
    BY <1>1 DEF Attempts
  <2>2. ASSUME NEW m \in media PROVE (\E n \in rows : n.key = m.key) \/ m.key \in Pending'
    BY <1>3, <1>5, <1>12
  <2> QED BY <1>1, <1>12, <2>1, <2>2 DEF IInv, FilesOwned
<1>14. AloneInv'
  <2> SUFFICES ASSUME ~overlapped
               PROVE  OneAtATime' /\ FilesApart' /\ \A v \in Uploads : ReadsHold(v)'
    BY <1>1 DEF AloneInv
  <2>1. OneAtATime' /\ \A v \in Uploads : up[v].at \in Finished
    BY <1>0, <1>1, <1>7, RemovalAlone DEF Active, Finished
  <2>2. \A v \in Uploads : ReadsHold(v)'
    BY <1>1, <2>1 DEF ReadsHold, Finished
  <2>3. /\ \A m \in media : m.key \in files /\ m.key[2] < clock
        /\ \A x \in Pending : x[2] < clock /\ \A m \in media : m.key # x
    BY DEF IInv, AloneInv, FilesApart
  <2>4. \A x \in Keys : x[2] \in Nat
    BY DEF Keys
  <2>5. Pending \subseteq Keys
    BY PendingType DEF IInv
  <2>6. \A m \in media' : m.key \in files' /\ m.key[2] < clock'
    <3>1. ASSUME NEW m \in rows PROVE m.key \in files /\ m.key[2] < clock + 1
      <4>1. m.key \in files /\ m.key[2] < clock /\ m.key[2] \in Nat
        BY <1>2, <1>3, <2>3, <2>4
      <4> QED BY <1>2, <4>1
    <3> QED BY <1>1, <3>1
  <2>7. \A x \in Pending' : x[2] < clock' /\ \A m \in media' : m.key # x
    <3>1. ASSUME NEW x \in Pending PROVE x[2] < clock + 1 /\ \A m \in media' : m.key # x
      <4>1. x[2] \in Nat /\ x[2] < clock
        BY <2>3, <2>4, <2>5
      <4> QED BY <1>1, <1>2, <1>3, <2>3, <4>1
    <3>2. ASSUME now PROVE k[2] < clock + 1 /\ \A m \in media' : m.key # k
      <4>1. k[2] \in Nat /\ k[2] < clock
        BY <1>2, <1>3, <1>5, <2>3, <2>4, <3>2
      <4> QED BY <1>1, <1>2, <1>5, <3>2, <4>1
    <3> QED BY <1>1, <1>12, <3>1, <3>2
  <2> QED BY <2>1, <2>2, <2>6, <2>7 DEF FilesApart
<1> QED BY <1>8, <1>9, <1>10, <1>11, <1>13, <1>14 DEF IInv

\* enqueueCleanup DELETE: the key moves from the removal to the queue.
LEMMA RemovedStep ==
  ASSUME IInv, NEW r \in Removals, EnqueueRemoved(r)
  PROVE  IInv'
<1> USE NoneAssumption
<1>0. TypeOK /\ rm[r] \in RemovalState /\ RemovalInv(r) /\ rm[r].at = "enqueue"
  BY DEF IInv, TypeOK, EnqueueRemoved
<1> DEFINE new == [rm[r] EXCEPT !.at = "done"]
<1>1. /\ rm' = [rm EXCEPT ![r] = new] /\ enqueue(rm[r].key)
      /\ UNCHANGED <<media, files, url, clock, up, job, givenUp, overlapped>>
  BY <1>0 DEF EnqueueRemoved, TypeOK
<1>2. new \in RemovalState /\ new.at = "done"
  BY <1>0 DEF RemovalState, Finished
<1> HIDE DEF new
<1>3. /\ rm' \in [Removals -> RemovalState] /\ rm'[r] = new
      /\ \A q \in Removals \ {r} : rm'[q] = rm[q]
  BY <1>0, <1>1, <1>2 DEF TypeOK
<1>4. rm[r].key \in Keys
  BY <1>0 DEF IInv, RemovalInv, UploadInv, Committed, TypeOK, UploadState
<1>5. /\ queue' \in Seq(Job) /\ queue' # << >> /\ worker' \in {"timer", "running"}
      /\ QueueKeys(queue') = QueueKeys(queue) \cup {rm[r].key}
  BY <1>0, <1>1, <1>4, EnqueueAdds
<1>6. TypeOK' /\ NoJobForgotten'
  BY <1>0, <1>1, <1>3, <1>5 DEF TypeOK, NoJobForgotten
<1>7. Pending' = Pending
  <2>1. RemovalKeys = RemovalKeys' \cup {rm[r].key}
    <3>1. ASSUME NEW k PROVE k \in RemovalKeys <=> (k \in RemovalKeys' \/ k = rm[r].key)
      <4>1. k \in RemovalKeys <=>
              \/ \E q \in Removals \ {r} : rm[q].at = "enqueue" /\ rm[q].key = k
              \/ k = rm[r].key
        BY <1>0 DEF RemovalKeys
      <4>2. k \in RemovalKeys' <=>
              \E q \in Removals \ {r} : rm'[q].at = "enqueue" /\ rm'[q].key = k
        BY <1>2, <1>3 DEF RemovalKeys
      <4> QED BY <1>3, <4>1, <4>2
    <3> QED BY <3>1
  <2>2. UploadKeys' = UploadKeys
    BY <1>1 DEF UploadKeys
  <2> QED BY <1>1, <1>5, <2>1, <2>2 DEF Pending
<1>8. RemovalInv(r)'
  BY <1>2, <1>3 DEF RemovalInv
<1>9. ASSUME ~overlapped PROVE OneAtATime'
  BY <1>0, <1>1, <1>3, <1>9, RemovalAlone DEF Active, Finished
<1> QED BY <1>1, <1>3, <1>6, <1>7, <1>8, <1>9, RemovalKeeps

-----------------------------------------------------------------------------
\* Every step keeps the inductive invariant.
LEMMA NextIInv == IInv /\ [Next]_vars => IInv'
<1> SUFFICES ASSUME IInv, [Next]_vars PROVE IInv'
  OBVIOUS
<1>1. CASE \E u \in Uploads : UploadStep(u)
  BY <1>1, LookupSteps, StoreSteps, RefusedSteps, RollbackStep, CommitStep, ReplacedStep
  DEF UploadStep
<1>2. CASE \E r \in Removals : RemoveStep(r)
  BY <1>2, RemovalSteps, CommitRemoveStep, RemovedStep DEF RemoveStep
<1>3. CASE Worker \/ BackoffEnds
  BY <1>3, WorkerSteps
<1>4. CASE UNCHANGED vars
  BY <1>4 DEF vars, IInv, TypeOK, RowsInv, UploadInv, RemovalInv, Committed, RowOf,
              NoJobForgotten, UrlHasRow, FilesOwned, Attempts, Pending, QueueKeys, UploadKeys,
              RemovalKeys, AloneInv, OneAtATime, FilesApart, ReadsHold, Busy, Active, OneActiveRow
<1> QED BY <1>1, <1>2, <1>3, <1>4 DEF Next, Quiescent

\* The inductive invariant holds in every reachable state.
LEMMA Reachable == Spec => []IInv
BY InitIInv, NextIInv, PTL DEF Spec

\* However uploads and removals race, a URL column points to a row of its slot;
\* until requests overlap a slot has one row, whose files the queue never deletes.
THEOREM MediaCorrect == Spec => []MediaInv
<1>1. IInv => MediaInv
  BY DEF IInv, MediaInv, RowsHaveFiles, AloneInv, FilesApart
<1> QED BY <1>1, Reachable, PTL

\* "Zero orphaned files", with the two exceptions the code has: an upload that
\* was answered with an error, and files the queue gave up.
THEOREM FilesNeverOrphaned == Spec => []NoOrphanedFiles
<1>1. IInv => NoOrphanedFiles
  <2> SUFFICES ASSUME IInv, NEW k \in files PROVE Accounted(k) \/ k \in givenUp
    BY DEF NoOrphanedFiles
  <2>1. \A x \in Pending : Accounted(x)
    BY DEF Pending, QueueKeys, UploadKeys, RemovalKeys, Accounted
  <2>2. (\E m \in media : m.key = k) \/ (\E u \in Attempts : up[u].key = k) => Accounted(k)
    BY DEF Attempts, Accounted
  <2> QED BY <2>1, <2>2 DEF IInv, FilesOwned
<1> QED BY <1>1, Reachable, PTL

\* enqueue, scheduleProcessing and processQueue never leave a job without a
\* timer or a running loop.
THEOREM JobsNeverForgotten == Spec => []NoJobForgotten
<1>1. IInv => NoJobForgotten
  BY DEF IInv
<1> QED BY <1>1, Reachable, PTL
=============================================================================
