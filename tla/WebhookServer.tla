--------------------------- MODULE WebhookServer ---------------------------
(***************************************************************************)
(* Webhook intake of the GitHub App: handleRequest (server.ts) with the    *)
(* dispatcher (events.ts), the store of processed deliveries and           *)
(* installations (state.ts), the scheduler (scheduler.ts) and, composed    *)
(* with them, the job queue and worker of JobQueue.                        *)
(*                                                                         *)
(* From the duplicate check to the dispatch a request runs without giving  *)
(* up the thread, and nothing else runs before its delivery is marked:     *)
(* `open` is the delivery between the two, where only a kill can come in.  *)
(***************************************************************************)
EXTENDS Integers, Sequences, FiniteSets

CONSTANTS
  Triggers,       \* delivery ids of events that ask for a remediation
  Notices,        \* delivery ids of `installation` events
  Buckets,        \* dedupe keys of the scheduler's ticks
  NoKey,          \* a delivery without a (well-formed) id
  Installations,
  InstallOf,      \* the installation a delivery comes from
  MaxTracked,     \* maxTrackedDeliveries
  MaxJobs, MaxAttempts, Concurrency, FileBacked, WriteFaults, MaxFaults

VARIABLES
  job, ready, delayed, file, inFlight, handlers, phase, created, faults,
  starts, succeeded, accepted,     \* the queue, see JobQueue
  recent,     \* deliveryOrder: processed deliveries, oldest first
  installs,   \* installation -> unknown, active or inactive
  stateFile,  \* github-app-state.json
  open,       \* the delivery that is dispatched but not yet marked
  forgotten,  \* history: deliveries whose mark was evicted or lost
  suspended   \* history: installations whose suspension was acknowledged, and
              \* that no event tried to activate since

queueVars == <<job, ready, delayed, file, inFlight, handlers, phase, created,
               faults, starts, succeeded, accepted>>
storeVars == <<recent, installs, stateFile, open, forgotten, suspended>>
vars == <<queueVars, storeVars>>

Keys == Triggers \cup Buckets
Deliveries == Triggers \cup Notices
Nobody == "nobody"

Queue == INSTANCE JobQueue

\* What the queue assumes, and that deliveries and buckets have their own names.
ASSUME ServerAssumption ==
  /\ MaxJobs \in Nat /\ MaxFaults \in Nat
  /\ MaxAttempts \in Nat \ {0} /\ Concurrency \in Nat \ {0}
  /\ FileBacked \in BOOLEAN /\ WriteFaults \subseteq {"error", "torn"}
  /\ Triggers \cap Notices = {}
  /\ (Triggers \cup Notices) \cap Buckets = {}
  /\ NoKey \notin Deliveries \cup Buckets
  /\ Nobody \notin Deliveries \cup {NoKey}
  /\ MaxTracked \in Nat \ {0}
  /\ InstallOf \in [Deliveries \cup {NoKey} -> Installations]

Elements(seq) == {seq[i] : i \in 1..Len(seq)}
Unknown == [i \in Installations |-> "unknown"]
EmptyState == [recent |-> <<>>, installs |-> Unknown]

\* hasProcessedDelivery
Seen(d) == d \in Elements(recent)

-----------------------------------------------------------------------------
(* The store of deliveries and installations *)

\* FileAppStateStore.persist rewrites the whole file after every change.
Persist(result, contents) ==
  stateFile' = IF ~FileBacked \/ result = "error" THEN stateFile
               ELSE IF result = "torn" THEN EmptyState ELSE contents

\* markDeliveryProcessed: remember the newest MaxTracked deliveries.
WithMark(d) ==
  LET order == IF Seen(d) THEN recent ELSE Append(recent, d)
  IN  IF Len(order) > MaxTracked THEN Tail(order) ELSE order

\* Memory is lost with the process; so are the marks that are not on disk.
LoseMemory(disk) ==
  /\ recent' = <<>>
  /\ installs' = Unknown
  /\ open' = Nobody
  /\ forgotten' = forgotten \cup
       (((Elements(recent) \cup {open}) \cap Deliveries) \ Elements(disk.recent))

-----------------------------------------------------------------------------
(* A webhook request *)

\* A request that passed the checks of its headers, body and signature, and
\* whose delivery is not known yet.
FreshUnchecked(d) == phase = "up" /\ open = Nobody  \* mutant
Fresh(d) == phase = "up" /\ open = Nobody /\ ~Seen(d)

NotInactive(d) == installs[InstallOf[d]] # "inactive"  \* mutant
Active(d) == installs[InstallOf[d]] = "active"

\* A trigger from an active installation is queued.  A failed write of the
\* queue file is caught by the dispatcher, which answers "handled" as well.
Trigger(d, result) ==
  /\ Fresh(d)
  /\ Active(d)
  /\ Queue!EnqueueNew(d, result) \/ Queue!EnqueueDuplicate(d, result)
  /\ open' = IF d = NoKey THEN Nobody ELSE d
  /\ UNCHANGED <<recent, installs, stateFile, forgotten, suspended>>

MarkIgnored(d) == d   \* mutant: an ignored delivery is marked too
AnswerIgnored(d) == Nobody

\* Any other trigger is ignored, and its delivery is not marked.
Ignore(d) ==
  /\ Fresh(d)
  /\ ~Active(d)
  /\ open' = AnswerIgnored(d)
  /\ UNCHANGED <<queueVars, recent, installs, stateFile, forgotten, suspended>>

\* A lifecycle event changes the installation.  When the state file cannot be
\* written the request ends with status 500, its delivery is not marked.
Notice(d, status, result) ==
  /\ Fresh(d)
  /\ result \in Queue!WriteResults
  /\ installs' = [installs EXCEPT ![InstallOf[d]] = status]
  /\ Persist(result, [recent |-> recent, installs |-> installs'])
  /\ open' = IF result = "ok" THEN d ELSE Nobody
  /\ suspended' = IF status = "active" THEN suspended \ {InstallOf[d]}
                  ELSE IF result = "ok" THEN suspended \cup {InstallOf[d]}
                  ELSE suspended
  /\ Queue!CountFault(result)
  /\ UNCHANGED <<job, ready, delayed, file, inFlight, handlers, phase, created,
                 starts, succeeded, accepted, recent, forgotten>>

\* markDeliveryProcessed of the open delivery; memory keeps the mark also when
\* the file does not.
Mark(result) ==
  /\ phase = "up"
  /\ open # Nobody
  /\ result \in Queue!WriteResults
  /\ recent' = WithMark(open)
  /\ Persist(result, [recent |-> recent', installs |-> installs])
  /\ open' = Nobody
  /\ forgotten' = forgotten \cup (Elements(recent) \ Elements(recent'))
  /\ Queue!CountFault(result)
  /\ UNCHANGED <<job, ready, delayed, file, inFlight, handlers, phase, created,
                 starts, succeeded, accepted, installs, suspended>>

-----------------------------------------------------------------------------
(* The scheduler, the worker and the process *)

\* A tick enqueues a job under the key of the current bucket.
Tick(b) ==
  /\ open = Nobody
  /\ Queue!EnqueueNew(b, "ok") \/ Queue!EnqueueDuplicate(b, "ok")
  /\ UNCHANGED storeVars

\* A job's handler starts or settles, or its retry falls due.
Work ==
  /\ open = Nobody
  /\ \/ Queue!Poll
     \/ Queue!Elapse
     \/ \E j \in Queue!JobIds :
           \/ Queue!Complete(j)
           \/ Queue!Fail(j)
           \/ \E result \in Queue!Faulty : Queue!CompleteUnsaved(j, result)
  /\ UNCHANGED storeVars

\* An uncaught write error of the queue ends the process.
Abort ==
  /\ open = Nobody
  /\ \E result \in Queue!Faulty :
        \/ Buckets # {} /\ Queue!EnqueueFatal(result)
        \/ Queue!PollFatal(result)
        \/ \E j \in Queue!JobIds, first \in {"ok"} \cup Queue!Faulty :
              Queue!FailFatal(j, first, result)
  /\ LoseMemory(stateFile)
  /\ UNCHANGED <<stateFile, suspended>>

\* A kill, at any time; it tears at most the file that is being written.
Kill ==
  \/ /\ \E result \in Queue!Faulty : Queue!Crash(result)
     /\ LoseMemory(stateFile)
     /\ UNCHANGED <<stateFile, suspended>>
  \/ /\ "torn" \in WriteFaults
     /\ Queue!Crash("error")
     /\ stateFile' = EmptyState
     /\ LoseMemory(EmptyState)
     /\ UNCHANGED suspended

Stop == open = Nobody /\ Queue!Stop /\ UNCHANGED storeVars

Exit ==
  /\ Queue!Exit
  /\ LoseMemory(stateFile)
  /\ UNCHANGED <<stateFile, suspended>>

\* hydrateFromDisk, and the queue's own loading.
Restart ==
  /\ Queue!Restart
  /\ recent' = stateFile.recent
  /\ installs' = stateFile.installs
  /\ UNCHANGED <<stateFile, open, forgotten, suspended>>

Init ==
  /\ Queue!Init
  /\ recent = <<>>
  /\ installs = Unknown
  /\ stateFile = EmptyState
  /\ open = Nobody
  /\ forgotten = {}
  /\ suspended = {}

Next ==
  \/ \E d \in Triggers \cup {NoKey}, result \in {"ok"} \cup Queue!Faulty :
        Trigger(d, result)
  \/ \E d \in Triggers : Ignore(d)
  \/ \E d \in Notices, status \in {"active", "inactive"},
        result \in {"ok"} \cup Queue!Faulty : Notice(d, status, result)
  \/ \E result \in {"ok"} \cup Queue!Faulty : Mark(result)
  \/ \E b \in Buckets : Tick(b)
  \/ Work
  \/ Abort
  \/ Kill
  \/ Stop
  \/ Exit
  \/ Restart

Spec == Init /\ [][Next]_vars

-----------------------------------------------------------------------------
(* Properties *)

\* Type invariant of the delivery and installation store.
TypeOK ==
  /\ recent \in Seq(Deliveries) /\ Len(recent) <= MaxTracked
  /\ installs \in [Installations -> {"unknown", "active", "inactive"}]
  /\ stateFile.recent \in Seq(Deliveries)
  /\ DOMAIN stateFile.installs = Installations
  /\ open \in Deliveries \cup {Nobody}
  /\ forgotten \subseteq Deliveries

JobsOf(d) == {j \in Queue!JobIds : job[j].key = d}

\* When a trigger delivery is marked as processed it has a job, which is in the
\* queue file already unless something failed before: no kill between the two
\* writes can lose the delivery, and an ignored delivery is never marked.
ProcessedHasJob ==
  [][\A d \in (Elements(recent') \ Elements(recent)) \cap Triggers :
        phase = "up" =>
          \E j \in Queue!JobIds :
             /\ job'[j].key = d
             /\ faults' = 0 => file'.job[j].key = d]_vars

\* A redelivery leads to a second job only after the mark of the delivery was
\* evicted from the store or lost with the process: while the mark is known the
\* store refuses it, before that the first job is active and the queue does.
SecondJobNeedsForgetting ==
  /\ TypeOK
  /\ \A d \in Triggers : Cardinality(JobsOf(d)) > 1 => d \in forgotten

\* No job is created for an installation whose suspension (or deletion) was
\* acknowledged and that no event activated since, across kills, restarts,
\* failed writes and torn files.
SuspendedStaysOut ==
  [][\A d \in Triggers, j \in Queue!JobIds :
        /\ created' = j /\ created' # created /\ phase' = "up"
        /\ job'[j].key = d
        => InstallOf[d] \notin suspended]_vars

=============================================================================
