------------------------------ MODULE Dispatch ------------------------------
(***************************************************************************)
(* Notification jobs: DispatchService with its in-memory fallback queue,   *)
(* and the BullMQ queue "notifications" that the API process and the       *)
(* worker process both consume.  Every dispatch that falls back starts a   *)
(* drain of the one array, so a drain is named by the job that started it. *)
(* BullMQ itself is external: it hands a waiting job to one consumer,      *)
(* delays a job whose processor threw, and hands out again a job whose     *)
(* consumer died.  A job here is one entry of a queue: a notification whose *)
(* adding to BullMQ succeeds without saying so has two.                    *)
(***************************************************************************)
EXTENDS Naturals, Sequences, FiniteSets

CONSTANTS
  Jobs,          \* entries of the queues: notifications that may be dispatched
  MaxAttempts,   \* maxAttempts of a job and RETRY_CONFIG.attempts: 3 in the code
  MaxSends       \* maxAttempts of sendWithRetry: 5 in the code

ASSUME DispatchAssumption == MaxAttempts \in Nat \ {0} /\ MaxSends \in Nat \ {0}

VARIABLES
  job,       \* where each job is, and what came of it
  queue,     \* DispatchService.queue
  drain,     \* the runs of processInMemoryQueue: the job each one holds
  crashed,   \* which process has died and started again
  fcm        \* FcmService.isAvailable(): the deployment has Firebase credentials

dispatchVars == <<job, queue, drain, crashed, fcm>>

Channels == {"email", "sms", "push", "webhook", "websocket"}
Processes == {"api", "worker"}

\* new; queue, held, timer, dead: the fallback; wait, active, delayed, failed:
\* BullMQ; done: either; lost: in the memory of a process that died.
Places == {"new", "queue", "held", "timer", "dead", "wait", "active", "delayed", "failed",
           "done", "lost"}
Job == [at : Places, channel : Channels, attempts : 0..MaxAttempts, copies : Nat,
        by : Processes \cup {"memory"}]

Off == "off"
Loop == "loop"
ASSUME DrainAssumption == Off \notin Jobs /\ Loop \notin Jobs

DispatchTypeOK ==
  /\ job \in [Jobs -> Job]
  /\ queue \in Seq(Jobs)
  /\ drain \in [Jobs -> Jobs \cup {Off, Loop}]
  /\ crashed \in Processes \cup {"none"}
  /\ fcm \in BOOLEAN

DispatchInit ==
  /\ job = [j \in Jobs |-> [at |-> "new", channel |-> "email", attempts |-> 0, copies |-> 0,
                            by |-> "memory"]]
  /\ queue = << >>
  /\ drain = [j \in Jobs |-> Off]
  /\ crashed = "none"
  /\ fcm \in BOOLEAN

-----------------------------------------------------------------------------
(* One send: what it answers, and how many messages left the building *)

Sent(n) == [success |-> TRUE, throws |-> FALSE, copies |-> n]
Refused == [success |-> FALSE, throws |-> FALSE, copies |-> 0]
Thrown == [success |-> FALSE, throws |-> TRUE, copies |-> 0]

\* An address that bounced is refused.  SendGrid took the mail; or it failed, or
\* is not configured, and the failover or the mock reports a success of its own.
sendEmail == {Sent(1), Sent(0), Refused}

\* A number without a plus throws.  A provider sent it; or all of them failed
\* and the mock at the end reports success.
sendSms == {Sent(1), Sent(0), Thrown}

\* No device, or none that FCM reached: nothing sent.  Without FCM the messages
\* are only logged, and all of them count as sent.
sendPushNotification == {IF fcm THEN Sent(1) ELSE Sent(0), Refused}

\* One target: tries until a 2xx, a 4xx other than 429, or the last attempt.
\* A try that timed out may have been received.
sendWithRetry ==
  [success : {TRUE}, copies : 1..MaxSends] \cup [success : {FALSE}, copies : 0..MaxSends]

\* The tenant's targets for the event: any result at all is a success, no
\* target is a failure.
dispatchEvent ==
  {[success |-> TRUE, throws |-> FALSE, copies |-> r.copies] : r \in sendWithRetry}
    \cup {Refused}

\* A payload without a branch fails; only the API process has a socket server,
\* and a broadcast without one is skipped in silence.
broadcastOrderEvent(process) ==
  {Refused, IF process = "api" THEN Sent(1) ELSE Sent(0)}

\* A repository may throw under push and webhook.  The API catches whatever a
\* channel throws; the worker process lets it through.
processChannel(channel, process) ==
  LET raw == CASE channel = "email" -> sendEmail
               [] channel = "sms" -> sendSms
               [] channel = "push" -> sendPushNotification \cup {Thrown}
               [] channel = "webhook" -> dispatchEvent \cup {Thrown}
               [] channel = "websocket" -> broadcastOrderEvent(process)
  IN IF process = "api" THEN {IF r.throws THEN Refused ELSE r : r \in raw} ELSE raw

-----------------------------------------------------------------------------
(* The fallback *)

\* The job of a notification for a channel, as it enters a queue.
Placed(j, at, channel) == [job[j] EXCEPT !.at = at, !.channel = channel]
FallBack(j) == queue' = Append(queue, j) /\ drain' = [drain EXCEPT ![j] = Loop]

\* dispatch hands the job to BullMQ; when there is no BullMQ, or adding fails,
\* it is pushed to the array and a drain is started.  An add that fails may yet
\* have reached BullMQ: then the notification is in both queues.
dispatch(j, channel) ==
  /\ job[j].at = "new"
  /\ \/ job' = [job EXCEPT ![j] = Placed(j, "wait", channel)] /\ UNCHANGED <<queue, drain>>
     \/ job' = [job EXCEPT ![j] = Placed(j, "queue", channel)] /\ FallBack(j)
     \/ \E twin \in Jobs \ {j} :
          /\ job[twin].at = "new"
          /\ job' = [job EXCEPT ![j] = Placed(j, "queue", channel),
                                ![twin] = Placed(twin, "wait", channel)]
          /\ FallBack(j)
  /\ UNCHANGED crashed

\* Mutant: a drain looks at the head and leaves it in the array.
PeekJob(d) ==
  /\ drain[d] = Loop /\ queue # << >>
  /\ drain' = [drain EXCEPT ![d] = Head(queue)]
  /\ job' = [job EXCEPT ![Head(queue)].at = "held", ![Head(queue)].attempts = @ + 1]
  /\ UNCHANGED <<queue, crashed>>

\* A drain takes the next job and starts its channel.
ShiftJob(d) ==
  /\ drain[d] = Loop /\ queue # << >>
  /\ drain' = [drain EXCEPT ![d] = Head(queue)]
  /\ job' = [job EXCEPT ![Head(queue)].at = "held", ![Head(queue)].attempts = @ + 1]
  /\ queue' = Tail(queue)
  /\ UNCHANGED crashed

DrainEnds(d) ==
  /\ drain[d] = Loop /\ queue = << >>
  /\ drain' = [drain EXCEPT ![d] = Off]
  /\ UNCHANGED <<job, queue, crashed>>

\* A failure waits for its timer or, after the last attempt, is a dead letter.
AfterFailure(attempts) == IF attempts < MaxAttempts THEN "timer" ELSE "dead"

\* Mutant: a drain handles one job.
RoundIsOver == Off

\* The drain goes round: it ends only at an empty array.
NextRound == Loop

FinishJob(d) ==
  /\ drain[d] \in Jobs
  /\ \E r \in processChannel(job[drain[d]].channel, "api") :
       job' = [job EXCEPT ![drain[d]].copies = @ + r.copies,
                          ![drain[d]].at = IF r.success THEN "done"
                                           ELSE AfterFailure(job[drain[d]].attempts)]
  /\ drain' = [drain EXCEPT ![d] = NextRound]
  /\ UNCHANGED <<queue, crashed>>

\* The timer pushes the job back and starts no drain.
RequeueTimer(j) ==
  /\ job[j].at = "timer"
  /\ job' = [job EXCEPT ![j].at = "queue"]
  /\ queue' = Append(queue, j)
  /\ UNCHANGED <<drain, crashed>>

-----------------------------------------------------------------------------
(* BullMQ *)

TakeBullJob(p, j) ==
  /\ job[j].at = "wait"
  /\ job' = [job EXCEPT ![j].at = "active", ![j].by = p]
  /\ UNCHANGED <<queue, drain, crashed>>

\* RETRY_CONFIG: another attempt is due.
RetryDue(made) == made < MaxAttempts

\* A processor that returns completes the job, whatever it returned; one that
\* throws gets it delayed, or failed after the last attempt.
SettleBullJob(j) ==
  /\ job[j].at = "active"
  /\ \E r \in processChannel(job[j].channel, job[j].by) :
       LET made == job[j].attempts + 1 IN
       job' = [job EXCEPT ![j].copies = @ + r.copies,
                          ![j].attempts = IF made > MaxAttempts THEN MaxAttempts ELSE made,
                          ![j].at = IF ~r.throws THEN "done"
                                    ELSE IF RetryDue(made) THEN "delayed" ELSE "failed"]
  /\ UNCHANGED <<queue, drain, crashed>>

BackoffEnds(j) ==
  /\ job[j].at = "delayed"
  /\ job' = [job EXCEPT ![j].at = "wait"]
  /\ UNCHANGED <<queue, drain, crashed>>

\* A process dies and starts again.  Its jobs may have been sent; the array,
\* the timers and the dead letters are gone, BullMQ gives its job out again.
Crash(p) ==
  LET inHand == {j \in Jobs : \/ job[j].at = "active" /\ job[j].by = p
                              \/ job[j].at = "held" /\ p = "api"}
      gone == IF p = "api" THEN {j \in Jobs : job[j].at \in {"queue", "held", "timer", "dead"}} ELSE {}
  IN /\ crashed = "none"
     /\ crashed' = p
     /\ \E sent \in SUBSET inHand :
          job' = [j \in Jobs |->
                   [job[j] EXCEPT !.copies = IF j \in sent THEN @ + 1 ELSE @,
                                  !.at = IF j \in gone THEN "lost"
                                         ELSE IF j \in inHand THEN "wait" ELSE @]]
     /\ queue' = IF p = "api" THEN << >> ELSE queue
     /\ drain' = IF p = "api" THEN [d \in Jobs |-> Off] ELSE drain

DrainStep(d) == ShiftJob(d) \/ DrainEnds(d) \/ FinishJob(d)
BullStep(j) == (\E p \in Processes : TakeBullJob(p, j)) \/ SettleBullJob(j) \/ BackoffEnds(j)

DispatchNext ==
  /\ \/ \E j \in Jobs, channel \in Channels : dispatch(j, channel)
     \/ \E d \in Jobs : DrainStep(d)
     \/ \E j \in Jobs : RequeueTimer(j) \/ BullStep(j)
     \/ \E p \in Processes : Crash(p)
  /\ UNCHANGED fcm

DispatchSpec == DispatchInit /\ [][DispatchNext]_dispatchVars

-----------------------------------------------------------------------------
(* Properties *)

Count(j) == Cardinality({i \in DOMAIN queue : queue[i] = j})
Holders(j) == {d \in Jobs : drain[d] = j}

\* processInMemoryQueue: however many drains run over the one array, a job is
\* in it once or in the hands of one drain or in neither, as its place says: no
\* job is handled twice at once and none falls between two drains.
JobIsInOnePlace ==
  \A j \in Jobs :
    /\ Count(j) = IF job[j].at = "queue" THEN 1 ELSE 0
    /\ Cardinality(Holders(j)) = IF job[j].at = "held" THEN 1 ELSE 0

\* processInMemoryQueue and RETRY_CONFIG: a job is given up only after all its
\* attempts, in the array as in BullMQ.
GivenUpAfterAllAttempts ==
  \A j \in Jobs : job[j].at \in {"dead", "failed"} => job[j].attempts = MaxAttempts

\* processChannel: retries of a job never repeat a message that left.  A webhook target
\* receives an event at most as often as one sendWithRetry sends it, any other
\* channel sends one message, unless a process died with the job in hand.
NotSentAgain ==
  \A j \in Jobs :
    crashed = "none" => job[j].copies <= IF job[j].channel = "webhook" THEN MaxSends ELSE 1

\* processChannel: a broadcast that the API's own queue calls done was made, and a
\* push reached someone when there is an FCM to reach anyone through.  Mail, SMS and
\* webhooks may be done with nobody reached, and so may any job of BullMQ.
DoneReachedSomeone ==
  \A j \in Jobs :
    job[j].at = "done" /\ job[j].by = "memory" /\ job[j].copies = 0
    => job[j].channel \in {"email", "sms", "webhook"} \/ (job[j].channel = "push" /\ ~fcm)

\* The life of a notification job (DispatchService, notifications queue): in one place,
\* given up only after all attempts, not sent again by a retry, and in memory not done
\* before a broadcast or a push that FCM can make has reached someone.
DispatchInv ==
  /\ DispatchTypeOK
  /\ JobIsInOnePlace
  /\ GivenUpAfterAllAttempts
  /\ NotSentAgain
  /\ DoneReachedSomeone

\* dispatch: every job that falls back to the array is tried at least once,
\* also when another job's drain takes it or its own drain takes another job;
\* only the retries may be left waiting.
FirstAttemptHappens ==
  \A j \in Jobs :
    job[j].at = "queue" /\ job[j].attempts = 0 ~> job[j].attempts > 0 \/ job[j].at = "lost"

\* BullMQ jobs come to an end, whichever process takes them.
BullJobsEnd ==
  \A j \in Jobs : job[j].at = "wait" ~> job[j].at \in {"done", "failed"}

\* A job that was queued is tried: at least once from the array of DispatchService,
\* and to its end by BullMQ.
QueuedJobsAreTried ==
  /\ FirstAttemptHappens
  /\ BullJobsEnd
=============================================================================
