------------------------------ MODULE JobQueue ------------------------------
(***************************************************************************)
(* The job queue of the GitHub App (packages/github-app/src/queue.ts) and  *)
(* the worker that drains it (worker.ts), with the process that hosts them *)
(* crashing, restarting and failing to write its queue file.               *)
(*                                                                         *)
(* The server is one JavaScript thread, so every action below is the code  *)
(* that runs between two awaits.  A queue operation mutates the job table  *)
(* in memory and then rewrites the whole queue file synchronously.         *)
(*                                                                         *)
(* Time: claimDueJobs takes the jobs whose nextRunAt has passed, in the    *)
(* order of nextRunAt.  nextRunAt is "now" for a new job and "now + a      *)
(* constant" for a retry, so that order is kept here by two sequences:     *)
(* `ready` (due) and `delayed` (retries whose delay has not elapsed), and  *)
(* no clock is needed.                                                     *)
(***************************************************************************)
EXTENDS Integers, Sequences, FiniteSets

CONSTANTS
  Keys,         \* dedupe keys: webhook delivery ids and scheduler buckets
  NoKey,        \* the dedupeKey of a delivery without a (well-formed) id
  MaxJobs,      \* bound: jobs ever created
  MaxAttempts,  \* queueMaxAttempts, copied into every job
  Concurrency,  \* jobWorkerConcurrency
  FileBacked,   \* TRUE: createFileBackedJobQueue, FALSE: in memory only
  WriteFaults,  \* how rewriting the queue file may fail
  MaxFaults     \* bound: crashes, stops and failed writes together

ASSUME QueueAssumption ==
  /\ NoKey \notin Keys
  /\ MaxJobs \in Nat
  /\ MaxAttempts \in Nat \ {0}
  /\ Concurrency \in Nat \ {0}
  /\ FileBacked \in BOOLEAN
  /\ WriteFaults \subseteq {"error", "torn"}
  /\ MaxFaults \in Nat

VARIABLES
  job,        \* the job table: id -> dedupe key, status, attempts
  ready,      \* queued jobs that are due, oldest nextRunAt first
  delayed,    \* queued jobs that wait for their retry delay
  file,       \* job-queue.json: the table and order of the last good write
  inFlight,   \* the worker's counter of unfinished handlers
  handlers,   \* ids whose processJob call has not settled in this process
  phase,      \* the process: "up", "stopping" (worker stopped), "down"
  created,    \* randomUUID: ids 1..created have been handed out
  faults,     \* faults injected so far
  starts,     \* history: how often processJob was called for an id
  succeeded,  \* history: ids for which processJob resolved
  accepted    \* history: ids whose enqueue returned to its caller

vars == <<job, ready, delayed, file, inFlight, handlers, phase, created,
          faults, starts, succeeded, accepted>>

JobIds == 1..MaxJobs
Active == {"queued", "running"}
Terminal == {"completed", "failed"}
Statuses == {"none"} \cup Active \cup Terminal
Job == [key: Keys \cup {NoKey}, status: Statuses, attempts: 0..MaxAttempts]

NoJob == [key |-> NoKey, status |-> "none", attempts |-> 0]
EmptyTable == [j \in JobIds |-> NoJob]

\* What a missing, unreadable or half-written file loads as.
EmptyFile == [job |-> EmptyTable, ready |-> <<>>, delayed |-> <<>>]

Elements(seq) == {seq[i] : i \in 1..Len(seq)}

-----------------------------------------------------------------------------
(* Writing the file *)

\* A write either succeeds, throws and leaves the old file, or throws after
\* the file was truncated.
WriteResults ==
  {"ok"} \cup (IF FileBacked /\ faults < MaxFaults THEN WriteFaults ELSE {})

\* mutant: a failed write truncates the file
WrittenTruncates(result, contents) == IF result = "error" THEN EmptyFile ELSE contents

\* The file after a write of `contents` that ended with `result`.
Written(result, contents) ==
  IF ~FileBacked \/ result = "error" THEN file
  ELSE IF result = "torn" THEN EmptyFile ELSE contents

Memory == [job |-> job, ready |-> ready, delayed |-> delayed]

SaveForgotten == UNCHANGED file  \* mutant

\* persistQueueState, when it succeeds.
Save == file' = Written("ok", Memory')

CountFault(result) ==
  faults' = IF result = "ok" THEN faults ELSE faults + 1

\* The process is gone, and everything it held in memory with it.
Die ==
  /\ phase' = "down"
  /\ job' = EmptyTable
  /\ ready' = <<>>
  /\ delayed' = <<>>
  /\ inFlight' = 0
  /\ handlers' = {}

-----------------------------------------------------------------------------
(* enqueue *)

\* mutant: only a waiting job counts as active
QueuedHolders(k) == {j \in JobIds : job[j].key = k /\ job[j].status = "queued"}

\* getActiveByDedupeKey: a job with this key that is queued or running.
Holders(k) == {j \in JobIds : job[j].key = k /\ job[j].status \in Active}

\* The key already has an active job: enqueue returns it, and still rewrites
\* the file.
EnqueueDuplicate(k, result) ==
  /\ phase = "up"
  /\ k # NoKey
  /\ Holders(k) # {}
  /\ result \in WriteResults
  /\ file' = Written(result, Memory)
  /\ CountFault(result)
  /\ UNCHANGED <<job, ready, delayed, inFlight, handlers, phase, created,
                 starts, succeeded, accepted>>

\* A new job, due at once.  A failed write throws to the caller although the
\* job is already in the table: dispatchGitHubEvent catches it.
EnqueueNew(k, result) ==
  /\ phase = "up"
  /\ k = NoKey \/ Holders(k) = {}
  /\ created < MaxJobs
  /\ created' = created + 1
  /\ result \in WriteResults
  /\ CountFault(result)
  /\ job' = [job EXCEPT ![created'] =
                [key |-> k, status |-> "queued", attempts |-> 0]]
  /\ ready' = Append(ready, created')
  /\ UNCHANGED <<delayed, inFlight, handlers, phase>>
  /\ file' = Written(result, Memory')
  /\ accepted' = IF result = "ok" THEN accepted \cup {created'} ELSE accepted
  /\ UNCHANGED <<starts, succeeded>>

\* The scheduler's tick calls enqueue from a timer: there the exception of a
\* failed write is uncaught and ends the process.
EnqueueFatal(result) ==
  /\ phase = "up"
  /\ result \in WriteResults \ {"ok"}
  /\ Die
  /\ file' = Written(result, Memory)
  /\ created' = IF created < MaxJobs THEN created + 1 ELSE created
  /\ CountFault(result)
  /\ UNCHANGED <<starts, succeeded, accepted>>

-----------------------------------------------------------------------------
(* the worker's poll *)

Slots == Concurrency - inFlight
BatchSize == IF Len(ready) < Slots THEN Len(ready) ELSE Slots
Batch == {ready[i] : i \in 1..BatchSize}

PollEnabled == phase = "up" /\ inFlight < Concurrency /\ ready # <<>>

\* claimDueJobs marks the batch running and counts the attempt, the file is
\* rewritten, and only then does each processJob start.
Poll ==
  /\ PollEnabled
  /\ job' = [j \in JobIds |->
               IF j \in Batch
               THEN [job[j] EXCEPT !.status = "running", !.attempts = @ + 1]
               ELSE job[j]]
  /\ ready' = SubSeq(ready, BatchSize + 1, Len(ready))
  /\ UNCHANGED <<delayed, phase>>
  /\ Save
  /\ inFlight' = inFlight + BatchSize
  /\ handlers' = handlers \cup Batch
  /\ starts' = [j \in JobIds |-> IF j \in Batch THEN starts[j] + 1 ELSE starts[j]]
  /\ UNCHANGED <<created, faults, succeeded, accepted>>

\* The write of the claim throws inside poll(), whose promise nobody handles:
\* the process ends before any processJob of the batch started.
PollFatal(result) ==
  /\ PollEnabled
  /\ result \in WriteResults \ {"ok"}
  /\ Die
  /\ file' = Written(result, Memory)
  /\ CountFault(result)
  /\ UNCHANGED <<created, starts, succeeded, accepted>>

-----------------------------------------------------------------------------
(* a handler settles *)

RetryOnceMore(j) == job[j].attempts <= MaxAttempts  \* mutant
Retryable(j) == job[j].attempts < MaxAttempts

\* failJob's effect on the table and the order.
FailedTable(j) ==
  [job EXCEPT ![j].status = IF Retryable(j) THEN "queued" ELSE "failed"]
FailedDelayed(j) == IF Retryable(j) THEN Append(delayed, j) ELSE delayed

HandlerLeaks(j) == handlers' = handlers \ {j} /\ UNCHANGED inFlight  \* mutant
HandlerDone(j) ==
  /\ handlers' = handlers \ {j}
  /\ inFlight' = inFlight - 1

\* processJob resolved, completeJob stored it.
Complete(j) ==
  /\ j \in handlers
  /\ job' = [job EXCEPT ![j].status = "completed"]
  /\ UNCHANGED <<ready, delayed, phase>>
  /\ Save
  /\ HandlerDone(j)
  /\ succeeded' = succeeded \cup {j}
  /\ UNCHANGED <<created, faults, starts, accepted>>

\* processJob resolved but completeJob's write threw: the worker's catch block
\* cannot tell, and hands the finished job to failJob.
CompleteUnsaved(j, result) ==
  /\ j \in handlers
  /\ result \in WriteResults \ {"ok"}
  /\ job' = FailedTable(j)
  /\ delayed' = FailedDelayed(j)
  /\ UNCHANGED <<ready, phase>>
  /\ Save
  /\ CountFault(result)
  /\ HandlerDone(j)
  /\ succeeded' = succeeded \cup {j}
  /\ UNCHANGED <<created, starts, accepted>>

\* processJob rejected, failJob stored the retry or the failure.
Fail(j) ==
  /\ j \in handlers
  /\ job' = FailedTable(j)
  /\ delayed' = FailedDelayed(j)
  /\ UNCHANGED <<ready, phase>>
  /\ Save
  /\ HandlerDone(j)
  /\ UNCHANGED <<created, faults, starts, succeeded, accepted>>

\* failJob's own write threw, after a rejected processJob (first = "ok") or
\* after a completeJob whose write threw too: the rejection is unhandled.
FailFatal(j, first, result) ==
  /\ j \in handlers
  /\ first \in WriteResults
  /\ result \in WriteResults \ {"ok"}
  /\ Die
  /\ file' = IF "torn" \in {first, result} THEN EmptyFile ELSE file
  /\ faults' = faults + (IF first = "ok" THEN 1 ELSE 2)
  /\ succeeded' = IF first = "ok" THEN succeeded ELSE succeeded \cup {j}
  /\ UNCHANGED <<created, starts, accepted>>

-----------------------------------------------------------------------------
(* time and the process *)

\* The retry delay of the oldest delayed job has elapsed.
Elapse ==
  /\ phase # "down"
  /\ delayed # <<>>
  /\ ready' = Append(ready, Head(delayed))
  /\ delayed' = Tail(delayed)
  /\ UNCHANGED <<job, file, inFlight, handlers, phase, created, faults,
                 starts, succeeded, accepted>>

\* The process is killed, possibly in the middle of rewriting the file.
Crash(result) ==
  /\ phase # "down"
  /\ faults < MaxFaults
  /\ result \in {"error"} \cup (WriteFaults \cap {"torn"})
  /\ Die
  /\ file' = Written(result, Memory)
  /\ faults' = faults + 1
  /\ UNCHANGED <<created, starts, succeeded, accepted>>

\* server.close: the worker's stop() ends the polling, not the handlers.
Stop ==
  /\ phase = "up"
  /\ faults < MaxFaults
  /\ phase' = "stopping"
  /\ faults' = faults + 1
  /\ UNCHANGED <<job, ready, delayed, file, inFlight, handlers, created,
                 starts, succeeded, accepted>>

\* A stopped process ends when its event loop has nothing left to run.
Exit ==
  /\ phase = "stopping"
  /\ handlers = {}
  /\ Die
  /\ UNCHANGED <<file, created, faults, starts, succeeded, accepted>>

\* createFileBackedJobQueue loads the file as it is: a job that was running
\* when the process died is loaded as running, and nobody handles it.
Restart ==
  /\ phase = "down"
  /\ phase' = "up"
  /\ job' = file.job
  /\ ready' = file.ready
  /\ delayed' = file.delayed
  /\ UNCHANGED <<file, inFlight, handlers, created, faults, starts,
                 succeeded, accepted>>

-----------------------------------------------------------------------------

Init ==
  /\ job = EmptyTable
  /\ ready = <<>>
  /\ delayed = <<>>
  /\ file = EmptyFile
  /\ inFlight = 0
  /\ handlers = {}
  /\ phase = "up"
  /\ created = 0
  /\ faults = 0
  /\ starts = [j \in JobIds |-> 0]
  /\ succeeded = {}
  /\ accepted = {}

Faulty == {"error", "torn"}

Settle(j) ==
  \/ Complete(j)
  \/ Fail(j)
  \/ \E result \in Faulty : CompleteUnsaved(j, result)
  \/ \E result \in Faulty, first \in {"ok"} \cup Faulty :
        FailFatal(j, first, result)

Next ==
  \/ \E k \in Keys \cup {NoKey}, result \in {"ok"} \cup Faulty :
        EnqueueNew(k, result) \/ EnqueueDuplicate(k, result)
  \/ \E result \in Faulty : EnqueueFatal(result)
  \/ Poll
  \/ \E result \in Faulty : PollFatal(result)
  \/ \E j \in JobIds : Settle(j)
  \/ Elapse
  \/ \E result \in Faulty : Crash(result)
  \/ Stop
  \/ Exit
  \/ Restart

\* The poll timer keeps firing, time passes, handlers settle, and a process
\* that ended is started again.  Deliveries, crashes and stops are not fair.
Fairness ==
  /\ WF_vars(Poll)
  /\ WF_vars(Elapse)
  /\ \A j \in JobIds : WF_vars(Complete(j) \/ Fail(j))
  /\ WF_vars(Exit)
  /\ WF_vars(Restart)

Spec == Init /\ [][Next]_vars
FairSpec == Spec /\ Fairness

-----------------------------------------------------------------------------
(* Properties *)

FileType == [job: [JobIds -> Job], ready: Seq(JobIds), delayed: Seq(JobIds)]

\* Type invariant of the queue, its file and the worker.
TypeOK ==
  /\ job \in [JobIds -> Job]
  /\ ready \in Seq(JobIds)
  /\ delayed \in Seq(JobIds)
  /\ file \in FileType
  /\ inFlight \in Int
  /\ handlers \subseteq JobIds
  /\ phase \in {"up", "stopping", "down"}
  /\ created \in 0..MaxJobs
  /\ faults \in Nat
  /\ starts \in [JobIds -> 0..MaxAttempts]
  /\ succeeded \subseteq JobIds
  /\ accepted \subseteq JobIds

\* Two jobs of one delivery are never active together, whatever is redelivered,
\* retried, crashed or reloaded (queue.ts getActiveByDedupeKey).
OneActivePerKey ==
  \A i, j \in JobIds :
     /\ job[i].status \in Active /\ job[j].status \in Active
     /\ job[i].key = job[j].key /\ job[i].key # NoKey
     => i = j

\* Everything is of its type, and the remediation handler runs at most
\* maxAttempts times for a job, also when the process crashes between the claim
\* and the handler's end and reloads an older table: the claim is on disk before
\* the handler starts.
AttemptBudget ==
  /\ TypeOK
  /\ \A j \in JobIds :
     /\ starts[j] <= MaxAttempts
     /\ job[j].status # "none" => starts[j] <= job[j].attempts
     /\ FileBacked /\ file.job[j].status # "none"
          => starts[j] <= file.job[j].attempts

\* An enqueue that returned is never lost: the file knows the job from then on,
\* through every crash and every write that fails without truncating the file.
AcceptedSurvives ==
  \A j \in accepted : file.job[j].status # "none"

\* A final status is on disk before anyone can see it in memory, so a crash
\* cannot bring a finished job back.
TerminalIsDurable ==
  \A j \in JobIds :
     job[j].status \in Terminal => file.job[j].status = job[j].status

\* A running job that no handler works on, as a crash leaves it.
Orphan(j) == phase # "down" /\ job[j].status = "running" /\ j \notin handlers

\* The file never contradicts memory: a job it knows is as it is in memory.
FileAgrees ==
  phase # "down" =>
    \A j \in JobIds : file.job[j].status # "none" => file.job[j] = job[j]

\* Where a job is in its life, as the abstract ledger sees it: from memory while
\* the process lives, from the file while it is down.
Life(j) ==
  LET table == IF phase = "down" THEN file.job ELSE job
      status == table[j].status
  IN  IF status = "queued" THEN "waiting"
      ELSE IF status = "running"
      THEN (IF j \in handlers THEN "active" ELSE "stranded")
      ELSE IF status \in Terminal THEN "settled"
      ELSE IF j \in 1..created THEN "gone" ELSE "unknown"

Ledger == INSTANCE AttemptLedger
            WITH Jobs <- JobIds, MaxRuns <- MaxAttempts,
                 life <- [j \in JobIds |-> Life(j)], runs <- starts

\* The queue, its file and the worker implement the attempt ledger.
ImplementsLedger == Ledger!Spec

\* A stored job is finished in the end, in spite of failures, retries, crashes
\* and other jobs that compete for the slots, or a crash strands it: it is
\* marked running and nobody works on it.
SettlesOrStrands ==
  \A j \in JobIds :
     file.job[j].status \in Active
       ~> (file.job[j].status \in Terminal \/ Orphan(j))

\* The documented durability: a job that was stored is eventually finished,
\* whatever restarts happen in between.
StoredJobSettles ==
  \A j \in JobIds :
     file.job[j].status \in Active ~> file.job[j].status \in Terminal

=============================================================================
