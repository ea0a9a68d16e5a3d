------------------------ MODULE WebhookServerProofs -------------------------
(***************************************************************************)
(* Proofs about WebhookServer for any deliveries, installations, buckets,  *)
(* limits and write faults: one job per delivery until its mark is         *)
(* forgotten, marks that have a job, and suspensions that hold.  What the  *)
(* queue does comes from the invariant of JobQueueProofs, which holds here *)
(* because each action of the composition is one of the queue, or a failed *)
(* write of the other file.                                                *)
(***************************************************************************)
EXTENDS WebhookServer, SequenceTheorems, FiniteSetTheorems, TLAPS

QP == INSTANCE JobQueueProofs

-----------------------------------------------------------------------------
(* The queue of the composition is the one of JobQueueProofs *)

\* The queue's assumption follows from the one of the composition.
LEMMA QueueAssumed == QP!QueueAssumption
BY ServerAssumption DEF QP!QueueAssumption, Keys, Deliveries

\* The two instances of JobQueue have the same tables, faults and writes.
LEMMA SameQueue ==
  /\ QP!JobIds = Queue!JobIds
  /\ Queue!EmptyTable = QP!EmptyTable /\ Queue!EmptyFile = QP!EmptyFile
  /\ Queue!Faulty = QP!Faulty /\ Queue!WriteResults = QP!WriteResults
  /\ \A result, contents : Queue!Written(result, contents)
                             = QP!Written(result, contents)
  /\ \A result : Queue!CountFault(result) <=> QP!CountFault(result)
  /\ Queue!Memory = QP!Memory /\ Queue!Memory' = QP!Memory'
  /\ Queue!Die <=> QP!Die
  /\ Queue!Save <=> QP!Save
<1>1. /\ QP!JobIds = Queue!JobIds
      /\ Queue!EmptyTable = QP!EmptyTable /\ Queue!EmptyFile = QP!EmptyFile
  BY DEF QP!JobIds, Queue!JobIds, Queue!EmptyTable, QP!EmptyTable,
         Queue!NoJob, QP!NoJob, Queue!EmptyFile, QP!EmptyFile
<1>2. /\ Queue!Faulty = QP!Faulty /\ Queue!WriteResults = QP!WriteResults
      /\ \A result : Queue!CountFault(result) <=> QP!CountFault(result)
  BY DEF Queue!Faulty, QP!Faulty, Queue!WriteResults, QP!WriteResults,
         Queue!CountFault, QP!CountFault
<1>3. \A result, contents : Queue!Written(result, contents)
                              = QP!Written(result, contents)
  BY <1>1 DEF Queue!Written, QP!Written
<1>4. Queue!Memory = QP!Memory /\ Queue!Memory' = QP!Memory'
  BY DEF Queue!Memory, QP!Memory
<1>5. Queue!Die <=> QP!Die
  BY <1>1 DEF Queue!Die, QP!Die
<1>6. Queue!Save <=> QP!Save
  BY <1>3, <1>4 DEF Queue!Save, QP!Save
<1> QED
  BY <1>1, <1>2, <1>3, <1>4, <1>5, <1>6

\* What enqueues is the queue's.
LEMMA EnqueueIsQueues ==
  ASSUME NEW k \in Keys \cup {NoKey}, NEW result \in {"ok"} \cup Queue!Faulty
  PROVE  /\ Queue!EnqueueNew(k, result) => QP!EnqueueNew(k, result)
         /\ Queue!EnqueueDuplicate(k, result) => QP!EnqueueDuplicate(k, result)
         /\ Queue!EnqueueFatal(result) => QP!EnqueueFatal(result)
<1>1. Queue!Holders(k) = QP!Holders(k)
  BY SameQueue DEF Queue!Holders, QP!Holders, Queue!Active, QP!Active
<1> QED
  BY <1>1, SameQueue
  DEF Queue!EnqueueNew, QP!EnqueueNew, Queue!EnqueueDuplicate,
      QP!EnqueueDuplicate, Queue!EnqueueFatal, QP!EnqueueFatal

\* The worker's polls are the queue's.
LEMMA PollIsQueues ==
  /\ Queue!Poll => QP!Poll
  /\ \A result : Queue!PollFatal(result) => QP!PollFatal(result)
<1>1. /\ Queue!PollEnabled <=> QP!PollEnabled
      /\ Queue!Batch = QP!Batch /\ Queue!BatchSize = QP!BatchSize
  BY DEF Queue!PollEnabled, QP!PollEnabled, Queue!Batch, QP!Batch,
         Queue!BatchSize, QP!BatchSize, Queue!Slots, QP!Slots
<1> QED
  BY <1>1, SameQueue DEF Queue!Poll, QP!Poll, Queue!PollFatal, QP!PollFatal

\* The ends of handlers are the queue's.
LEMMA SettleIsQueues ==
  ASSUME NEW j \in Queue!JobIds, NEW result \in Queue!Faulty,
         NEW first \in {"ok"} \cup Queue!Faulty
  PROVE  /\ Queue!Complete(j) => QP!Complete(j)
         /\ Queue!Fail(j) => QP!Fail(j)
         /\ Queue!CompleteUnsaved(j, result) => QP!CompleteUnsaved(j, result)
         /\ Queue!FailFatal(j, first, result) => QP!FailFatal(j, first, result)
<1>1. Queue!HandlerDone(j) <=> QP!HandlerDone(j)
  BY DEF Queue!HandlerDone, QP!HandlerDone
<1>2. /\ Queue!FailedTable(j) = QP!FailedTable(j)
      /\ Queue!FailedDelayed(j) = QP!FailedDelayed(j)
  BY DEF Queue!FailedTable, QP!FailedTable, Queue!FailedDelayed,
         QP!FailedDelayed, Queue!Retryable, QP!Retryable
<1> QED
  BY <1>1, <1>2, SameQueue
  DEF Queue!Complete, QP!Complete, Queue!Fail, QP!Fail,
      Queue!CompleteUnsaved, QP!CompleteUnsaved, Queue!FailFatal, QP!FailFatal

\* Time, death and return of the process are the queue's.
LEMMA ProcessIsQueues ==
  /\ Queue!Elapse => QP!Elapse
  /\ \A result : Queue!Crash(result) => QP!Crash(result)
  /\ Queue!Stop => QP!Stop
  /\ Queue!Exit => QP!Exit
  /\ Queue!Restart => QP!Restart
  /\ Queue!Init => QP!Init
BY SameQueue
DEF Queue!Elapse, QP!Elapse, Queue!Crash, QP!Crash, Queue!Stop, QP!Stop,
    Queue!Exit, QP!Exit, Queue!Restart, QP!Restart, Queue!Init, QP!Init

\* A failed write of the other file changes the number of faults only.
FaultOnly ==
  /\ faults' \in Nat
  /\ UNCHANGED <<job, ready, delayed, file, inFlight, handlers, phase, created,
                 starts, succeeded, accepted>>

LEMMA FaultStep == QP!IInv /\ FaultOnly => QP!IInv'
BY DEF FaultOnly, QP!IInv, QP!TypeOK, QP!Sound, QP!Listed, QP!BudgetLeft, QP!CountsStarts,
       QP!UniqueActive, QP!Fresh, QP!DeadIsEmpty, QP!HandlersRun,
       QP!FileAgrees, QP!NoFileInMemory

\* So the queue's invariant holds in the composition.
LEMMA QueueInit == Init => QP!IInv
<1>1. Init => QP!Init
  BY ProcessIsQueues DEF Init
<1> QED
  BY <1>1, QP!InitInv, QueueAssumed

\* A step of the composition is one of the queue, or leaves the queue alone.
LEMMA QueueStep == QP!IInv /\ [Next]_vars => QP!Next \/ FaultOnly
<1> SUFFICES ASSUME QP!IInv, [Next]_vars PROVE QP!Next \/ FaultOnly
  OBVIOUS
<1> USE SameQueue
<1>2. ASSUME NEW d \in Triggers \cup {NoKey},
             NEW result \in {"ok"} \cup Queue!Faulty, Trigger(d, result)
      PROVE  QP!Next
  <2>1. d \in Keys \cup {NoKey}
    BY DEF Keys
  <2>2. QP!EnqueueNew(d, result) \/ QP!EnqueueDuplicate(d, result)
    BY <1>2, <2>1, EnqueueIsQueues DEF Trigger
  <2> QED
    BY <2>1, <2>2 DEF QP!Next
<1>3. ASSUME NEW b \in Buckets, Tick(b) PROVE QP!Next
  <2>1. b \in Keys \cup {NoKey}
    BY DEF Keys
  <2>2. QP!EnqueueNew(b, "ok") \/ QP!EnqueueDuplicate(b, "ok")
    BY <1>3, <2>1, EnqueueIsQueues DEF Tick
  <2> QED
    BY <2>1, <2>2 DEF QP!Next
<1>4. ASSUME Work PROVE QP!Next
  <2>1. CASE Queue!Poll \/ Queue!Elapse
    <3>1. QP!Poll \/ QP!Elapse
      BY <2>1, PollIsQueues, ProcessIsQueues
    <3> QED
      BY <3>1 DEF QP!Next
  <2>2. ASSUME NEW j \in Queue!JobIds,
               \/ Queue!Complete(j) \/ Queue!Fail(j)
               \/ \E result \in Queue!Faulty : Queue!CompleteUnsaved(j, result)
        PROVE  QP!Next
    <3>1. "error" \in Queue!Faulty
      BY DEF Queue!Faulty
    <3>2. QP!Settle(j)
      BY <2>2, <3>1, SettleIsQueues DEF QP!Settle
    <3> QED
      BY <3>2 DEF QP!Next
  <2> QED
    BY <1>4, <2>1, <2>2 DEF Work
<1>5. ASSUME Abort PROVE QP!Next
  <2>1. PICK result \in Queue!Faulty :
          \/ Queue!EnqueueFatal(result)
          \/ Queue!PollFatal(result)
          \/ \E j \in Queue!JobIds, first \in {"ok"} \cup Queue!Faulty :
                Queue!FailFatal(j, first, result)
    BY <1>5 DEF Abort
  <2>2. CASE Queue!EnqueueFatal(result)
    <3>1. QP!EnqueueFatal(result)
      BY <2>2, EnqueueIsQueues
    <3> QED
      BY <3>1 DEF QP!Next
  <2>3. CASE Queue!PollFatal(result)
    <3>1. QP!PollFatal(result)
      BY <2>3, PollIsQueues
    <3> QED
      BY <3>1 DEF QP!Next
  <2>4. ASSUME NEW j \in Queue!JobIds, NEW first \in {"ok"} \cup Queue!Faulty,
               Queue!FailFatal(j, first, result)
        PROVE  QP!Next
    <3>1. QP!FailFatal(j, first, result)
      BY <2>4, SettleIsQueues
    <3>2. QP!Settle(j)
      BY <3>1 DEF QP!Settle
    <3> QED
      BY <3>2 DEF QP!Next
  <2> QED
    BY <2>1, <2>2, <2>3, <2>4
<1>6. ASSUME Kill \/ Stop \/ Exit \/ Restart PROVE QP!Next
  <2>1. \/ \E result \in Queue!Faulty : QP!Crash(result)
        \/ QP!Stop \/ QP!Exit \/ QP!Restart
    BY <1>6, ProcessIsQueues DEF Kill, Stop, Exit, Restart, Queue!Faulty
  <2> QED
    BY <2>1 DEF QP!Next
<1>7. ASSUME NEW d \in Notices, NEW status \in {"active", "inactive"},
             NEW result \in {"ok"} \cup Queue!Faulty, Notice(d, status, result)
      PROVE  FaultOnly
  BY <1>7 DEF Notice, Queue!CountFault, QP!IInv, QP!TypeOK, FaultOnly
<1>8. ASSUME NEW result \in {"ok"} \cup Queue!Faulty, Mark(result)
      PROVE  FaultOnly
  BY <1>8 DEF Mark, Queue!CountFault, QP!IInv, QP!TypeOK, FaultOnly
<1>9. ASSUME UNCHANGED queueVars PROVE FaultOnly
  BY <1>9 DEF queueVars, QP!IInv, QP!TypeOK, FaultOnly
<1>10. \A d : Ignore(d) => UNCHANGED queueVars
  BY DEF Ignore
<1>11. UNCHANGED vars => UNCHANGED queueVars
  BY DEF vars
<1> QED
  BY <1>2, <1>3, <1>4, <1>5, <1>6, <1>7, <1>8, <1>9, <1>10, <1>11
  DEF Next

\* So the queue's invariant is kept by every step of the composition.
LEMMA QueueNext == QP!IInv /\ [Next]_vars => QP!IInv'
<1>1. QP!IInv /\ QP!Next => QP!IInv'
  BY QP!NextInv, QueueAssumed
<1> QED
  BY <1>1, QueueStep, FaultStep

\* The queue behind the server implements the attempt ledger too: whatever is
\* delivered, redelivered or ticked, with kills, stops and failing writes of
\* either file, a job starts at most MaxAttempts times and never again after it
\* settled, and only a crash strands or loses one.
THEOREM LedgerIsKept == Spec => QP!ImplementsLedger
<1>1. Init => QP!Init
  BY ProcessIsQueues DEF Init
<1>2. QP!Init => QP!Ledger!Init
  BY DEF QP!Init, QP!Ledger!Init, QP!Life, QP!EmptyTable, QP!NoJob, QP!Terminal
<1>3. QP!IInv /\ [Next]_vars =>
        [QP!Ledger!Next]_<<[j \in QP!JobIds |-> QP!Life(j)], starts>>
  <2>1. QP!IInv /\ QP!Next => QP!Ledger!Next
    BY QP!NextRefines, QueueAssumed
  <2>2. ASSUME FaultOnly
        PROVE  UNCHANGED <<[j \in QP!JobIds |-> QP!Life(j)], starts>>
    BY <2>2 DEF FaultOnly, QP!Life
  <2> QED
    BY <2>1, <2>2, QueueStep
<1> QED
  BY <1>1, <1>2, <1>3, QueueInit, QueueNext, PTL
  DEF Spec, QP!ImplementsLedger, QP!Ledger!Spec

-----------------------------------------------------------------------------
(* The inductive invariant, by parts *)

JobIds == Queue!JobIds

\* The jobs and marks a delivery meets: in memory, or on disk while the process
\* is down.
Table == IF phase = "down" THEN file.job ELSE job
Known == IF phase = "down" THEN Elements(stateFile.recent)
         ELSE Elements(recent) \cup {open}

States == {"unknown", "active", "inactive"}

\* The types, of the state file too.
Stored ==
  /\ TypeOK
  /\ stateFile \in [recent : Seq(Deliveries),
                    installs : [Installations -> States]]
  /\ Len(stateFile.recent) <= MaxTracked
  /\ ~FileBacked => stateFile = EmptyState

\* A delivery is open only while the process is up.
OpenIsUp == open # Nobody => phase = "up"

\* Who has no job has no key in the tables.
Blank ==
  \A j \in JobIds : /\ job[j].status = "none" => job[j].key = NoKey
                    /\ file.job[j].status = "none" => file.job[j].key = NoKey

\* A trigger whose mark was not forgotten has one job, and its mark is known.
Single ==
  \A d \in Triggers \ forgotten, i, j \in JobIds :
     Table[i].key = d /\ Table[j].key = d => i = j /\ d \in Known

\* The open delivery has its job, without a fault in the file too.
Dispatched ==
  open \in Triggers =>
    \E j \in JobIds : /\ job[j].key = open
                      /\ FileBacked /\ faults = 0 => file.job[j].key = open

\* A suspended installation is active neither in memory nor in the file.
Suspended ==
  /\ suspended \subseteq Installations
  /\ \A i \in suspended : /\ installs[i] # "active"
                          /\ stateFile.installs[i] # "active"

SInv == Stored /\ OpenIsUp /\ Blank /\ Single /\ Dispatched /\ Suspended

IInv == QP!IInv /\ SInv

-----------------------------------------------------------------------------
(* What the queue's steps do to keys and file *)

\* The parts of the queue's invariant that the proofs use.
LEMMA QueueFacts ==
  ASSUME QP!IInv
  PROVE  /\ job \in [JobIds -> QP!Job] /\ file.job \in [JobIds -> QP!Job]
         /\ handlers \subseteq JobIds
         /\ phase \in {"up", "stopping", "down"}
         /\ created \in 0..MaxJobs /\ faults \in Nat
         /\ phase = "down" => job = Queue!EmptyTable /\ handlers = {}
         /\ phase # "down" =>
              \A j \in JobIds :
                file.job[j].status # "none" => file.job[j] = job[j]
         /\ \A j \in JobIds : j > created => job[j].status = "none"
<1>1. JobIds = QP!JobIds
  BY SameQueue DEF JobIds
<1>2. /\ job \in [JobIds -> QP!Job] /\ file \in QP!FileType
      /\ handlers \subseteq JobIds
      /\ phase \in {"up", "stopping", "down"}
      /\ created \in 0..MaxJobs /\ faults \in Nat
  BY <1>1 DEF QP!IInv, QP!TypeOK
<1>3. file.job \in [JobIds -> QP!Job]
  BY <1>1, <1>2 DEF QP!FileType
<1>4. phase = "down" => job = Queue!EmptyTable /\ handlers = {}
  BY SameQueue DEF QP!IInv, QP!DeadIsEmpty
<1>5. phase # "down" =>
        \A j \in JobIds : file.job[j].status # "none" => file.job[j] = job[j]
  BY <1>1 DEF QP!IInv, QP!FileAgrees
<1>6. \A j \in JobIds : j > created => job[j].status = "none"
  BY <1>1 DEF QP!IInv, QP!Fresh
<1> QED
  BY <1>2, <1>3, <1>4, <1>5, <1>6

\* An empty table has no jobs and no keys.
LEMMA EmptyTableFacts ==
  /\ Queue!EmptyFile.job = Queue!EmptyTable
  /\ \A j \in JobIds : /\ Queue!EmptyTable[j].status = "none"
                       /\ Queue!EmptyTable[j].key = NoKey
BY DEF Queue!EmptyFile, Queue!EmptyTable, Queue!NoJob, JobIds

\* A write of the queue file leaves the old jobs, none, or the new ones.
LEMMA WrittenJobs ==
  ASSUME NEW result, NEW contents
  PROVE  /\ Queue!Written(result, contents).job
              \in {file.job, Queue!EmptyTable, contents.job}
         /\ result = "ok" /\ FileBacked
              => Queue!Written(result, contents) = contents
BY EmptyTableFacts DEF Queue!Written

\* Every step of a living queue but a new job leaves the keys as they are.
LEMMA LiveStep ==
  ASSUME QP!IInv,
         \/ \E k, result : Queue!EnqueueDuplicate(k, result)
         \/ Queue!Poll \/ Queue!Elapse \/ Queue!Stop
         \/ \E j \in JobIds :
               \/ Queue!Complete(j)
               \/ Queue!Fail(j)
               \/ \E result \in Queue!Faulty : Queue!CompleteUnsaved(j, result)
  PROVE  /\ phase # "down" /\ phase' # "down"
         /\ created' = created
         /\ \A j \in JobIds :
              /\ job'[j].key = job[j].key
              /\ job'[j].status = "none" => job[j].status = "none"
         /\ file'.job \in {file.job, Queue!EmptyTable, job, job'}
<1> USE DEF JobIds
<1>1. job \in [JobIds -> QP!Job]
  BY QueueFacts
<1>2. ASSUME NEW k, NEW result, Queue!EnqueueDuplicate(k, result)
      PROVE  /\ phase # "down" /\ phase' # "down" /\ job' = job
             /\ created' = created
             /\ file'.job \in {file.job, Queue!EmptyTable, job, job'}
  BY <1>2, WrittenJobs DEF Queue!EnqueueDuplicate, Queue!Memory
<1>3. Queue!Elapse \/ Queue!Stop =>
        /\ phase # "down" /\ phase' # "down" /\ UNCHANGED <<job, file, created>>
  BY DEF Queue!Elapse, Queue!Stop
<1>4. ASSUME Queue!Save
      PROVE  file'.job \in {file.job, Queue!EmptyTable, job, job'}
  <2>1. Queue!Memory'.job = job'
    BY DEF Queue!Memory
  <2>2. file' = file \/ file' = Queue!EmptyFile \/ file' = Queue!Memory'
    BY <1>4 DEF Queue!Save, Queue!Written
  <2> QED
    BY <2>1, <2>2, EmptyTableFacts
<1>5. ASSUME Queue!Poll
      PROVE  /\ phase # "down" /\ phase' # "down" /\ created' = created
             /\ Queue!Save
             /\ \A j \in JobIds :
                  /\ job'[j].key = job[j].key
                  /\ job'[j].status = "none" => job[j].status = "none"
  BY <1>1, <1>5 DEF Queue!Poll, Queue!PollEnabled, QP!Job
<1>6. ASSUME NEW j \in JobIds,
             \/ Queue!Complete(j) \/ Queue!Fail(j)
             \/ \E result \in Queue!Faulty : Queue!CompleteUnsaved(j, result)
      PROVE  /\ phase # "down" /\ phase' # "down" /\ created' = created
             /\ Queue!Save
             /\ \A i \in JobIds :
                  /\ job'[i].key = job[i].key
                  /\ job'[i].status = "none" => job[i].status = "none"
  <2>1. /\ j \in handlers /\ phase' = phase /\ created' = created
        /\ Queue!Save
        /\ \E s \in {"completed", "queued", "failed"} :
             job' = [job EXCEPT ![j].status = s]
    BY <1>6 DEF Queue!Complete, Queue!Fail, Queue!CompleteUnsaved,
                Queue!FailedTable
  <2> QED
    BY <1>1, <2>1, QueueFacts DEF QP!Job
<1> QED
  BY <1>1, <1>2, <1>3, <1>4, <1>5, <1>6

\* A new job has a fresh id.
LEMMA NewStep ==
  ASSUME QP!IInv, NEW k \in Keys \cup {NoKey}, NEW result,
         Queue!EnqueueNew(k, result)
  PROVE  /\ phase = "up" /\ phase' = "up"
         /\ created' = created + 1 /\ created' \in JobIds
         /\ job[created'].status = "none"
         /\ job' = [job EXCEPT ![created'] =
                      [key |-> k, status |-> "queued", attempts |-> 0]]
         /\ file'.job \in {file.job, Queue!EmptyTable, job'}
         /\ FileBacked /\ faults' = 0 => file'.job = job'
<1>1. /\ phase = "up" /\ phase' = "up"
      /\ created' = created + 1 /\ created < MaxJobs
      /\ job' = [job EXCEPT ![created'] =
                   [key |-> k, status |-> "queued", attempts |-> 0]]
      /\ file' = Queue!Written(result, Queue!Memory')
      /\ Queue!CountFault(result)
  BY DEF Queue!EnqueueNew
<1>2. created' \in JobIds /\ created' > created
  BY <1>1, QueueFacts, ServerAssumption DEF JobIds, Queue!JobIds
<1>3. Queue!Memory'.job = job'
  BY DEF Queue!Memory
<1>4. file' \in {file, Queue!EmptyFile, Queue!Memory'}
  BY <1>1 DEF Queue!Written
<1>5. FileBacked /\ faults' = 0 => file' = Queue!Memory'
  BY <1>1, QueueFacts DEF Queue!Written, Queue!CountFault
<1> QED
  BY <1>1, <1>2, <1>3, <1>4, <1>5, QueueFacts, EmptyTableFacts

\* A process that dies leaves the queue file as it was, or cut off.
LEMMA DeadStep ==
  ASSUME QP!IInv,
         \/ \E result \in Queue!Faulty :
              \/ Queue!EnqueueFatal(result) \/ Queue!PollFatal(result)
              \/ Queue!Crash(result)
              \/ \E j \in JobIds, first \in {"ok"} \cup Queue!Faulty :
                    Queue!FailFatal(j, first, result)
         \/ Queue!Exit
  PROVE  /\ phase # "down" /\ phase' = "down"
         /\ job' = Queue!EmptyTable
         /\ file'.job \in {file.job, Queue!EmptyTable}
<1>1. Queue!Die => phase' = "down" /\ job' = Queue!EmptyTable
  BY DEF Queue!Die
<1>2. ASSUME NEW result \in Queue!Faulty, NEW contents
      PROVE  Queue!Written(result, contents) \in {file, Queue!EmptyFile}
  BY DEF Queue!Written, Queue!Faulty
<1>3. ASSUME NEW result \in Queue!Faulty,
             \/ Queue!EnqueueFatal(result) \/ Queue!PollFatal(result)
             \/ Queue!Crash(result)
      PROVE  phase # "down" /\ Queue!Die /\ file' \in {file, Queue!EmptyFile}
  BY <1>2, <1>3 DEF Queue!EnqueueFatal, Queue!PollFatal, Queue!PollEnabled,
                    Queue!Crash
<1>4. ASSUME NEW result, NEW j \in JobIds, NEW first,
             Queue!FailFatal(j, first, result)
      PROVE  phase # "down" /\ Queue!Die /\ file' \in {file, Queue!EmptyFile}
  BY <1>4, QueueFacts DEF Queue!FailFatal
<1>5. Queue!Exit => phase # "down" /\ Queue!Die /\ file' = file
  BY DEF Queue!Exit
<1> QED
  BY <1>1, <1>3, <1>4, <1>5, EmptyTableFacts

-----------------------------------------------------------------------------
(* The store of deliveries *)

\* The elements of a sequence are in its type.
LEMMA ElementsType ==
  ASSUME NEW S, NEW seq \in Seq(S)
  PROVE  Elements(seq) \subseteq S
BY DEF Elements

\* Marking keeps the newest deliveries and the marked one among them.
LEMMA MarkFacts ==
  ASSUME Stored, NEW d \in Deliveries
  PROVE  /\ WithMark(d) \in Seq(Deliveries)
         /\ Len(WithMark(d)) <= MaxTracked
         /\ d \in Elements(WithMark(d))
         /\ Elements(WithMark(d)) \subseteq Elements(recent) \cup {d}
<1>1. recent \in Seq(Deliveries) /\ Len(recent) <= MaxTracked
      /\ Len(recent) \in Nat
  BY DEF Stored, TypeOK
<1>2. CASE Seen(d)
  <2>1. ~(Len(recent) > MaxTracked)
    BY <1>1, ServerAssumption
  <2>2. WithMark(d) = recent
    BY <1>2, <2>1 DEF WithMark
  <2> QED
    BY <1>1, <1>2, <2>2 DEF Seen
<1>3. CASE ~Seen(d)
  <2> DEFINE order == Append(recent, d)
  <2>1. /\ order \in Seq(Deliveries) /\ order # <<>>
        /\ Len(order) = Len(recent) + 1
        /\ \A i \in 1..Len(recent) : order[i] = recent[i]
        /\ order[Len(recent) + 1] = d
    BY <1>1, AppendProperties
  <2>2. /\ Tail(order) \in Seq(Deliveries)
        /\ Len(Tail(order)) = Len(order) - 1
        /\ \A i \in 1..Len(Tail(order)) : Tail(order)[i] = order[i + 1]
    BY <2>1, HeadTailProperties
  <2>3. WithMark(d) = IF Len(order) > MaxTracked THEN Tail(order) ELSE order
    BY <1>3 DEF WithMark
  <2> HIDE DEF order
  <2>4. Elements(order) \subseteq Elements(recent) \cup {d}
    BY <1>1, <2>1 DEF Elements
  <2>5. CASE Len(order) > MaxTracked
    <3>1. Len(recent) = MaxTracked /\ Len(recent) >= 1
      BY <1>1, <2>1, <2>5, ServerAssumption
    <3>2. Tail(order)[Len(recent)] = d /\ Len(Tail(order)) = Len(recent)
      BY <1>1, <2>1, <2>2, <3>1
    <3>3. d \in Elements(Tail(order))
      BY <1>1, <3>1, <3>2 DEF Elements
    <3>4. Elements(Tail(order)) \subseteq Elements(order)
      <4> SUFFICES ASSUME NEW i \in 1..Len(Tail(order))
                   PROVE  Tail(order)[i] \in Elements(order)
        BY DEF Elements
      <4>1. i + 1 \in 1..Len(order)
        BY <1>1, <2>1, <2>2
      <4> QED
        BY <2>2, <4>1 DEF Elements
    <3> QED
      BY <1>1, <2>2, <2>3, <2>4, <2>5, <3>1, <3>2, <3>3, <3>4
  <2>6. CASE ~(Len(order) > MaxTracked)
    <3>1. d \in Elements(order)
      BY <1>1, <2>1 DEF Elements
    <3> QED
      BY <1>1, <2>1, <2>3, <2>4, <2>6, <3>1, ServerAssumption
  <2> QED
    BY <2>5, <2>6
<1> QED
  BY <1>2, <1>3

-----------------------------------------------------------------------------
(* The steps *)

\* Keys that stay, and marks that stay or are forgotten, keep a delivery single.
LEMMA SingleStep ==
  ASSUME Single, forgotten \subseteq forgotten',
         \A d \in Triggers \ forgotten', j \in JobIds :
            /\ Table'[j].key = d => Table[j].key = d
            /\ Table[j].key = d /\ d \in Known => d \in Known'
  PROVE  Single'
BY DEF Single

\* Steps of the queue in a living process, with no delivery open.
LEMMA KeysStay ==
  ASSUME IInv, UNCHANGED storeVars,
         phase # "down", phase' # "down", open = Nobody,
         \A j \in JobIds :
            /\ job'[j].key = job[j].key
            /\ job'[j].status = "none" => job[j].status = "none",
         file'.job \in {file.job, Queue!EmptyTable, job, job'}
  PROVE  SInv'
<1> USE DEF storeVars
<1>1. Stored' /\ OpenIsUp' /\ Suspended'
  BY DEF IInv, SInv, Stored, TypeOK, OpenIsUp, Suspended
<1>2. Blank'
  BY EmptyTableFacts DEF IInv, SInv, Blank
<1>3. Single'
  <2>1. \A j \in JobIds : Table'[j].key = Table[j].key
    BY DEF Table
  <2>2. Known' = Known
    BY DEF Known
  <2> QED
    BY <2>1, <2>2, SingleStep DEF IInv, SInv
<1>4. Dispatched'
  BY ServerAssumption DEF Dispatched, Deliveries
<1> QED
  BY <1>1, <1>2, <1>3, <1>4 DEF SInv

\* The process dies: what it knew and did not store is forgotten.
LEMMA DieStep ==
  ASSUME IInv, phase # "down", phase' = "down", job' = Queue!EmptyTable,
         file'.job \in {file.job, Queue!EmptyTable},
         stateFile' \in {stateFile, EmptyState}, LoseMemory(stateFile'),
         UNCHANGED suspended
  PROVE  SInv'
<1>1. /\ recent' = <<>> /\ installs' = Unknown /\ open' = Nobody
      /\ forgotten' = forgotten \cup
           (((Elements(recent) \cup {open}) \cap Deliveries)
              \ Elements(stateFile'.recent))
  BY DEF LoseMemory
<1>2. /\ EmptyState \in [recent : Seq(Deliveries),
                         installs : [Installations -> States]]
      /\ Len(EmptyState.recent) = 0
      /\ \A i \in Installations : EmptyState.installs[i] = "unknown"
  BY DEF EmptyState, Unknown, States
<1>3. Stored'
  <2>1. /\ stateFile' \in [recent : Seq(Deliveries),
                           installs : [Installations -> States]]
        /\ Len(stateFile'.recent) <= MaxTracked
        /\ ~FileBacked => stateFile' = EmptyState
    BY <1>2, ServerAssumption DEF IInv, SInv, Stored
  <2>2. recent' \in Seq(Deliveries) /\ Len(recent') <= MaxTracked
    BY <1>1, ServerAssumption
  <2>3. installs' \in [Installations -> {"unknown", "active", "inactive"}]
    BY <1>1 DEF Unknown
  <2>4. forgotten' \subseteq Deliveries
    BY <1>1 DEF IInv, SInv, Stored, TypeOK
  <2>5. DOMAIN stateFile'.installs = Installations
        /\ stateFile'.recent \in Seq(Deliveries)
    BY <2>1
  <2> QED
    BY <1>1, <2>1, <2>2, <2>3, <2>4, <2>5 DEF Stored, TypeOK
<1>4. Blank'
  BY EmptyTableFacts DEF IInv, SInv, Blank
<1>5. Suspended'
  BY <1>1, <1>2 DEF IInv, SInv, Suspended, Unknown
<1>6. Single'
  <2>1. ASSUME NEW d \in Triggers \ forgotten', NEW j \in JobIds
        PROVE  /\ Table'[j].key = d => Table[j].key = d
               /\ Table[j].key = d /\ d \in Known => d \in Known'
    <3>1. d # NoKey /\ d \in Deliveries
      BY ServerAssumption DEF Deliveries
    <3>2. Table'[j].key = d => file.job[j].key = d
      BY <3>1, EmptyTableFacts DEF Table
    <3>3. file.job[j].key = d => job[j].key = d
      BY <3>1, QueueFacts DEF IInv, SInv, Blank
    <3>4. d \in Known => d \in Known'
      BY <1>1, <3>1 DEF Known
    <3> QED
      BY <3>2, <3>3, <3>4 DEF Table
  <2> QED
    BY <1>1, <2>1, SingleStep DEF IInv, SInv
<1>7. OpenIsUp' /\ Dispatched'
  BY <1>1, ServerAssumption DEF OpenIsUp, Dispatched, Deliveries
<1> QED
  BY <1>3, <1>4, <1>5, <1>6, <1>7 DEF SInv

\* A delivery whose mark is not known gets its job, and is open until it is
\* marked.
LEMMA TriggerStep ==
  ASSUME IInv, NEW d \in Triggers \cup {NoKey},
         NEW result \in {"ok"} \cup Queue!Faulty, Trigger(d, result)
  PROVE  SInv'
<1>1. /\ phase = "up" /\ open = Nobody /\ d \notin Elements(recent)
      /\ open' = IF d = NoKey THEN Nobody ELSE d
      /\ UNCHANGED <<recent, installs, stateFile, forgotten, suspended>>
  BY DEF Trigger, Fresh, Seen
<1>2. open' \in Deliveries \cup {Nobody}
  BY <1>1 DEF Deliveries
<1>3. Stored' /\ Suspended'
  BY <1>1, <1>2 DEF IInv, SInv, Stored, TypeOK, Suspended
<1>4. CASE Queue!EnqueueDuplicate(d, result)
  <2>1. /\ phase' = "up" /\ job' = job /\ created' = created
        /\ file'.job \in {file.job, Queue!EmptyTable, job}
        /\ d # NoKey
        /\ \E j \in JobIds : job[j].key = d
    BY <1>4, WrittenJobs
    DEF Queue!EnqueueDuplicate, Queue!Memory, Queue!Holders, JobIds
  <2>2. OpenIsUp'
    BY <2>1 DEF OpenIsUp
  <2>3. Blank'
    BY <2>1, EmptyTableFacts DEF IInv, SInv, Blank
  <2>4. Single'
    <3>1. \A e \in Triggers : e # Nobody
      BY ServerAssumption DEF Deliveries
    <3>2. Table' = Table /\ \A e \in Triggers : e \in Known => e \in Known'
      BY <1>1, <2>1, <3>1 DEF Table, Known
    <3> QED
      BY <1>1, <3>2, SingleStep DEF IInv, SInv
  <2>5. FileBacked /\ faults' = 0 => file'.job = job
    <3>1. Queue!Memory.job = job
      BY DEF Queue!Memory
    <3>2. /\ file' = Queue!Written(result, Queue!Memory)
          /\ result # "ok" => faults' # 0
      BY <1>4, QueueFacts
      DEF Queue!EnqueueDuplicate, Queue!CountFault, IInv
    <3> QED
      BY <3>1, <3>2 DEF Queue!Written
  <2>6. Dispatched'
    BY <1>1, <2>1, <2>5 DEF Dispatched
  <2> QED
    BY <1>3, <2>2, <2>3, <2>4, <2>6 DEF SInv
<1>5. CASE Queue!EnqueueNew(d, result)
  <2> DEFINE new == [key |-> d, status |-> "queued", attempts |-> 0]
  <2>1. /\ phase' = "up"
        /\ created' \in JobIds /\ job[created'].status = "none"
        /\ job' = [job EXCEPT ![created'] = new]
        /\ file'.job \in {file.job, Queue!EmptyTable, job'}
        /\ FileBacked /\ faults' = 0 => file'.job = job'
    BY <1>5, NewStep DEF Keys, IInv
  <2>2. /\ job'[created'] = new
        /\ \A j \in JobIds \ {created'} : job'[j] = job[j]
    BY <2>1, QueueFacts DEF IInv
  <2>3. OpenIsUp'
    BY <2>1 DEF OpenIsUp
  <2>4. Blank'
    <3>1. \A j \in JobIds : job'[j].status = "none" => job'[j].key = NoKey
      BY <2>2 DEF IInv, SInv, Blank
    <3> QED
      BY <2>1, <3>1, EmptyTableFacts DEF IInv, SInv, Blank
  <2>5. Single'
    <3> SUFFICES ASSUME NEW e \in Triggers \ forgotten,
                        NEW i \in JobIds, NEW j \in JobIds,
                        job'[i].key = e, job'[j].key = e
                 PROVE  i = j /\ e \in Elements(recent) \cup {open'}
      BY <1>1, <2>1 DEF Single, Table, Known
    <3>1. e # NoKey /\ e # Nobody
      BY ServerAssumption DEF Deliveries
    <3>2. \A x, y \in JobIds :
            job[x].key = e /\ job[y].key = e
            => x = y /\ e \in Elements(recent)
      BY <1>1, <3>1 DEF IInv, SInv, Single, Table, Known
    <3>3. CASE e = d
      <4>1. \A x \in JobIds : job[x].key # e
        BY <1>1, <3>2, <3>3
      <4> QED
        BY <1>1, <2>2, <3>1, <3>3, <4>1
    <3>4. CASE e # d
      BY <2>2, <3>2, <3>4
    <3> QED
      BY <3>3, <3>4
  <2>6. Dispatched'
    <3>1. open' \in Triggers => open' = d
      BY <1>1, ServerAssumption DEF Deliveries
    <3>2. job'[created'].key = d
      BY <2>2
    <3>3. FileBacked /\ faults' = 0 => file'.job[created'].key = d
      BY <2>1, <3>2
    <3> QED
      BY <2>1, <3>1, <3>2, <3>3 DEF Dispatched
  <2> QED
    BY <1>3, <2>3, <2>4, <2>5, <2>6 DEF SInv
<1> QED
  BY <1>4, <1>5 DEF Trigger

\* A tick adds a job of its bucket, or none.
LEMMA TickStep ==
  ASSUME IInv, NEW b \in Buckets, Tick(b)
  PROVE  SInv'
<1>1. open = Nobody /\ UNCHANGED storeVars
  BY DEF Tick
<1>2. CASE Queue!EnqueueDuplicate(b, "ok")
  BY <1>1, <1>2, LiveStep, KeysStay DEF IInv
<1>3. CASE Queue!EnqueueNew(b, "ok")
  <2> USE DEF storeVars
  <2> DEFINE new == [key |-> b, status |-> "queued", attempts |-> 0]
  <2>1. /\ phase = "up" /\ phase' = "up"
        /\ created' \in JobIds /\ job[created'].status = "none"
        /\ job' = [job EXCEPT ![created'] = new]
        /\ file'.job \in {file.job, Queue!EmptyTable, job'}
    BY <1>3, NewStep DEF Keys, IInv
  <2>2. /\ job'[created'] = new
        /\ \A j \in JobIds \ {created'} : job'[j] = job[j]
    BY <2>1, QueueFacts DEF IInv
  <2>3. Stored' /\ Suspended' /\ OpenIsUp'
    BY <1>1, <2>1 DEF IInv, SInv, Stored, TypeOK, Suspended, OpenIsUp
  <2>4. Blank'
    <3>1. \A j \in JobIds : job'[j].status = "none" => job'[j].key = NoKey
      BY <2>2 DEF IInv, SInv, Blank
    <3> QED
      BY <2>1, <3>1, EmptyTableFacts DEF IInv, SInv, Blank
  <2>5. Single'
    <3>1. \A e \in Triggers : e # b
      BY ServerAssumption DEF Deliveries
    <3>2. \A e \in Triggers, j \in JobIds :
            Table'[j].key = e => Table[j].key = e
      BY <2>1, <2>2, <3>1 DEF Table
    <3>3. Known' = Known
      BY <1>1, <2>1 DEF Known
    <3> QED
      BY <1>1, <3>2, <3>3, SingleStep DEF IInv, SInv
  <2>6. Dispatched'
    BY <1>1, ServerAssumption DEF Dispatched, Deliveries
  <2> QED
    BY <2>3, <2>4, <2>5, <2>6 DEF SInv
<1> QED
  BY <1>2, <1>3 DEF Tick

\* What a write leaves in the state file.
LEMMA PersistFacts ==
  ASSUME IInv, NEW result \in {"ok"} \cup Queue!Faulty,
         result \in Queue!WriteResults,
         NEW contents \in [recent : Seq(Deliveries),
                           installs : [Installations -> States]],
         Len(contents.recent) <= MaxTracked, Persist(result, contents)
  PROVE  /\ stateFile' \in [recent : Seq(Deliveries),
                            installs : [Installations -> States]]
         /\ Len(stateFile'.recent) <= MaxTracked
         /\ ~FileBacked => stateFile' = EmptyState
         /\ stateFile' \in {stateFile, EmptyState, contents}
         /\ result = "ok" /\ FileBacked => stateFile' = contents
<1>1. /\ EmptyState \in [recent : Seq(Deliveries),
                         installs : [Installations -> States]]
      /\ Len(EmptyState.recent) <= MaxTracked
  BY ServerAssumption DEF EmptyState, Unknown, States
<1>2. /\ stateFile' \in {stateFile, EmptyState, contents}
      /\ ~FileBacked => stateFile' = stateFile
      /\ result = "ok" /\ FileBacked => stateFile' = contents
  BY DEF Persist
<1> QED
  BY <1>1, <1>2 DEF IInv, SInv, Stored

\* A lifecycle event changes its installation in memory and, if it can be
\* written, in the file; only then a suspension is acknowledged.
LEMMA NoticeStep ==
  ASSUME IInv, NEW d \in Notices, NEW status \in {"active", "inactive"},
         NEW result \in {"ok"} \cup Queue!Faulty, Notice(d, status, result)
  PROVE  SInv'
<1> DEFINE who == InstallOf[d]
           contents == [recent |-> recent, installs |-> installs']
<1>1. /\ phase = "up" /\ phase' = "up" /\ open = Nobody
      /\ result \in Queue!WriteResults
      /\ installs' = [installs EXCEPT ![who] = status]
      /\ Persist(result, contents)
      /\ open' = IF result = "ok" THEN d ELSE Nobody
      /\ suspended' = IF status = "active" THEN suspended \ {who}
                      ELSE IF result = "ok" THEN suspended \cup {who}
                      ELSE suspended
      /\ UNCHANGED <<job, file, recent, forgotten>>
  BY DEF Notice, Fresh
<1>2. who \in Installations /\ d \in Deliveries /\ d \notin Triggers
  BY ServerAssumption DEF Deliveries
<1>3. /\ installs' \in [Installations -> States] /\ installs'[who] = status
      /\ \A i \in Installations \ {who} : installs'[i] = installs[i]
  BY <1>1, <1>2 DEF IInv, SInv, Stored, TypeOK, States
<1>4. contents \in [recent : Seq(Deliveries),
                    installs : [Installations -> States]]
      /\ Len(contents.recent) <= MaxTracked
      /\ contents.installs = installs'
  BY <1>3 DEF IInv, SInv, Stored, TypeOK
<1> HIDE DEF contents
<1>5. /\ stateFile' \in [recent : Seq(Deliveries),
                         installs : [Installations -> States]]
      /\ Len(stateFile'.recent) <= MaxTracked
      /\ ~FileBacked => stateFile' = EmptyState
      /\ stateFile' \in {stateFile, EmptyState, contents}
      /\ result = "ok" /\ FileBacked => stateFile' = contents
  BY <1>1, <1>4, PersistFacts
<1>6. Stored'
  BY <1>1, <1>2, <1>3, <1>5 DEF IInv, SInv, Stored, TypeOK, States
<1>7. OpenIsUp' /\ Blank'
  BY <1>1 DEF IInv, SInv, OpenIsUp, Blank
<1>8. Single'
  <2>1. \A e \in Triggers : e # Nobody
    BY ServerAssumption DEF Deliveries
  <2>2. Table' = Table /\ \A e \in Triggers : e \in Known => e \in Known'
    BY <1>1, <2>1 DEF Table, Known
  <2> QED
    BY <1>1, <2>2, SingleStep DEF IInv, SInv
<1>9. Dispatched'
  BY <1>1, <1>2, ServerAssumption DEF Dispatched, Deliveries
<1>10. Suspended'
  <2>1. suspended' \subseteq Installations
    BY <1>1, <1>2 DEF IInv, SInv, Suspended
  <2> SUFFICES ASSUME NEW i \in suspended'
               PROVE  /\ installs'[i] # "active"
                      /\ stateFile'.installs[i] # "active"
    BY <2>1 DEF Suspended
  <2>2. i \in Installations
    BY <2>1
  <2>3. EmptyState.installs[i] # "active"
    BY <2>2 DEF EmptyState, Unknown
  <2>4. CASE i \in suspended /\ (i # who \/ status = "inactive")
    <3>1. installs'[i] # "active" /\ stateFile.installs[i] # "active"
      BY <1>3, <2>2, <2>4 DEF IInv, SInv, Suspended
    <3> QED
      BY <1>4, <1>5, <2>3, <3>1
  <2>5. CASE i = who /\ status = "inactive" /\ result = "ok"
    <3>1. installs'[i] # "active"
      BY <1>3, <2>5
    <3> QED
      BY <1>4, <1>5, <2>3, <2>5, <3>1
  <2> QED
    BY <1>1, <2>4, <2>5
<1> QED
  BY <1>6, <1>7, <1>8, <1>9, <1>10 DEF SInv

\* The open delivery becomes known; the mark it pushes out is forgotten.
LEMMA MarkStep ==
  ASSUME IInv, NEW result \in {"ok"} \cup Queue!Faulty, Mark(result)
  PROVE  SInv'
<1> DEFINE contents == [recent |-> recent', installs |-> installs]
<1>1. /\ phase = "up" /\ phase' = "up" /\ open # Nobody /\ open' = Nobody
      /\ result \in Queue!WriteResults
      /\ recent' = WithMark(open)
      /\ Persist(result, contents)
      /\ forgotten' = forgotten \cup (Elements(recent) \ Elements(recent'))
      /\ UNCHANGED <<job, file, installs, suspended>>
  BY DEF Mark
<1>2. open \in Deliveries
  BY <1>1 DEF IInv, SInv, Stored, TypeOK
<1>3. /\ recent' \in Seq(Deliveries) /\ Len(recent') <= MaxTracked
      /\ open \in Elements(recent')
  BY <1>1, <1>2, MarkFacts DEF IInv, SInv
<1>4. contents \in [recent : Seq(Deliveries),
                    installs : [Installations -> States]]
      /\ Len(contents.recent) <= MaxTracked
      /\ contents.installs = installs
  BY <1>3 DEF IInv, SInv, Stored, TypeOK, States
<1> HIDE DEF contents
<1>5. /\ stateFile' \in [recent : Seq(Deliveries),
                         installs : [Installations -> States]]
      /\ Len(stateFile'.recent) <= MaxTracked
      /\ ~FileBacked => stateFile' = EmptyState
      /\ stateFile' \in {stateFile, EmptyState, contents}
  BY <1>1, <1>4, PersistFacts
<1>6. Stored'
  <2>1. Elements(recent) \subseteq Deliveries
    BY ElementsType DEF IInv, SInv, Stored, TypeOK
  <2> QED
    BY <1>1, <1>3, <1>5, <2>1 DEF IInv, SInv, Stored, TypeOK
<1>7. OpenIsUp' /\ Blank'
  BY <1>1 DEF IInv, SInv, OpenIsUp, Blank
<1>8. Single'
  <2>1. Table' = Table
    BY <1>1 DEF Table
  <2>2. \A e \in Triggers \ forgotten' : e \in Known => e \in Known'
    BY <1>1, <1>3 DEF Known
  <2> QED
    BY <1>1, <2>1, <2>2, SingleStep DEF IInv, SInv
<1>9. Dispatched'
  BY <1>1, ServerAssumption DEF Dispatched, Deliveries
<1>10. Suspended'
  <2>1. \A i \in Installations : EmptyState.installs[i] # "active"
    BY DEF EmptyState, Unknown
  <2> QED
    BY <1>1, <1>4, <1>5, <2>1 DEF IInv, SInv, Suspended
<1> QED
  BY <1>6, <1>7, <1>8, <1>9, <1>10 DEF SInv

\* Memory becomes what the two files say.
LEMMA RestartStep ==
  ASSUME IInv, Restart
  PROVE  SInv'
<1>1. /\ phase = "down" /\ phase' = "up" /\ job' = file.job /\ file' = file
      /\ recent' = stateFile.recent /\ installs' = stateFile.installs
      /\ UNCHANGED <<stateFile, open, forgotten, suspended>>
  BY DEF Restart, Queue!Restart
<1>2. open = Nobody
  BY <1>1 DEF IInv, SInv, OpenIsUp
<1>3. Stored'
  BY <1>1 DEF IInv, SInv, Stored, TypeOK, States
<1>4. OpenIsUp' /\ Blank' /\ Suspended'
  BY <1>1, <1>2 DEF IInv, SInv, OpenIsUp, Blank, Suspended
<1>5. Single'
  <2>1. Table' = Table /\ Known \subseteq Known'
    BY <1>1 DEF Table, Known
  <2> QED
    BY <1>1, <2>1, SingleStep DEF IInv, SInv
<1>6. Dispatched'
  BY <1>1, <1>2, ServerAssumption DEF Dispatched, Deliveries
<1> QED
  BY <1>3, <1>4, <1>5, <1>6 DEF SInv

\* Nothing has been delivered.
LEMMA InitInv == Init => IInv
<1> SUFFICES ASSUME Init PROVE SInv
  BY QueueInit DEF IInv
<1>1. /\ phase = "up" /\ job = Queue!EmptyTable /\ file = Queue!EmptyFile
      /\ recent = <<>> /\ installs = Unknown /\ stateFile = EmptyState
      /\ open = Nobody /\ forgotten = {} /\ suspended = {}
  BY DEF Init, Queue!Init
<1>2. Stored
  <2>1. stateFile \in [recent : Seq(Deliveries),
                       installs : [Installations -> States]]
        /\ stateFile.recent = <<>>
    BY <1>1 DEF EmptyState, Unknown, States
  <2>2. DOMAIN stateFile.installs = Installations
        /\ installs \in [Installations -> {"unknown", "active", "inactive"}]
    BY <1>1, <2>1 DEF Unknown
  <2> QED
    BY <1>1, <2>1, <2>2, ServerAssumption DEF Stored, TypeOK
<1>3. OpenIsUp /\ Blank /\ Suspended
  BY <1>1, EmptyTableFacts DEF OpenIsUp, Blank, Suspended
<1>4. \A d \in Triggers : d # NoKey /\ d # Nobody
  BY ServerAssumption DEF Deliveries
<1>5. Single /\ Dispatched
  BY <1>1, <1>4, EmptyTableFacts DEF Single, Dispatched, Table
<1> QED
  BY <1>2, <1>3, <1>5 DEF SInv

\* Each step keeps the invariant.
LEMMA NextInv == IInv /\ [Next]_vars => IInv'
<1> SUFFICES ASSUME IInv, [Next]_vars PROVE SInv'
  BY QueueNext DEF IInv
<1> USE DEF JobIds
<1>1. ASSUME NEW d, Ignore(d) PROVE SInv'
  <2>1. open' = Nobody
        /\ UNCHANGED <<queueVars, recent, installs, stateFile, forgotten,
                       suspended>>
    BY <1>1 DEF Ignore, AnswerIgnored
  <2>2. open = Nobody
    BY <1>1 DEF Ignore, Fresh
  <2>3. UNCHANGED <<job, file, phase, faults, storeVars>>
    BY <2>1, <2>2 DEF queueVars, storeVars
  <2>4. Stored' /\ OpenIsUp' /\ Blank' /\ Suspended'
    BY <2>3
    DEF IInv, SInv, Stored, TypeOK, OpenIsUp, Blank, Suspended, storeVars
  <2>5. Single' /\ Dispatched'
    BY <2>3 DEF IInv, SInv, Single, Table, Known, Dispatched, storeVars
  <2> QED
    BY <2>4, <2>5 DEF SInv
<1>2. ASSUME Work PROVE SInv'
  BY <1>2, LiveStep, KeysStay DEF Work, IInv
<1>3. ASSUME Stop PROVE SInv'
  BY <1>3, LiveStep, KeysStay DEF Stop, IInv
<1>4. ASSUME Abort PROVE SInv'
  <2>1. LoseMemory(stateFile) /\ UNCHANGED <<stateFile, suspended>>
    BY <1>4 DEF Abort
  <2>2. LoseMemory(stateFile')
    BY <2>1 DEF LoseMemory
  <2>3. /\ phase # "down" /\ phase' = "down" /\ job' = Queue!EmptyTable
        /\ file'.job \in {file.job, Queue!EmptyTable}
    BY <1>4, DeadStep DEF Abort, IInv
  <2> QED
    BY <2>1, <2>2, <2>3, DieStep
<1>5. ASSUME Kill PROVE SInv'
  <2>1. /\ phase # "down" /\ phase' = "down" /\ job' = Queue!EmptyTable
        /\ file'.job \in {file.job, Queue!EmptyTable}
    BY <1>5, DeadStep DEF Kill, IInv, Queue!Faulty
  <2>2. UNCHANGED suspended /\ stateFile' \in {stateFile, EmptyState}
        /\ LoseMemory(stateFile')
    BY <1>5 DEF Kill, LoseMemory
  <2> QED
    BY <2>1, <2>2, DieStep
<1>6. ASSUME Exit PROVE SInv'
  <2>1. LoseMemory(stateFile') /\ UNCHANGED <<stateFile, suspended>>
    BY <1>6 DEF Exit, LoseMemory
  <2>2. /\ phase # "down" /\ phase' = "down" /\ job' = Queue!EmptyTable
        /\ file'.job \in {file.job, Queue!EmptyTable}
    BY <1>6, DeadStep DEF Exit, IInv
  <2> QED
    BY <2>1, <2>2, DieStep
<1>7. ASSUME UNCHANGED vars PROVE SInv'
  <2>1. UNCHANGED <<job, file, phase, faults, storeVars>>
    BY <1>7 DEF vars, queueVars
  <2>2. Stored' /\ OpenIsUp' /\ Blank' /\ Suspended'
    BY <2>1
    DEF IInv, SInv, Stored, TypeOK, OpenIsUp, Blank, Suspended, storeVars
  <2>3. Single' /\ Dispatched'
    BY <2>1 DEF IInv, SInv, Single, Table, Known, Dispatched, storeVars
  <2> QED
    BY <2>2, <2>3 DEF SInv
<1> QED
  BY <1>1, <1>2, <1>3, <1>4, <1>5, <1>6, <1>7, TriggerStep, NoticeStep,
     MarkStep, TickStep, RestartStep
  DEF Next

\* The invariant holds of every reachable state.
LEMMA Invariance == Spec => []IInv
BY InitInv, NextInv, PTL DEF Spec

-----------------------------------------------------------------------------
(* The theorems *)

\* A delivery gets a second job only after its mark was evicted from the store
\* or lost with the process, whatever is redelivered, killed, torn and reloaded.
THEOREM OneJobPerDelivery == Spec => []SecondJobNeedsForgetting
<1>1. ASSUME IInv, NEW d \in Triggers \ forgotten
      PROVE  ~(Cardinality(JobsOf(d)) > 1)
  <2>1. \A i, j \in JobsOf(d) : i = j
    <3>1. phase = "down" => JobsOf(d) = {}
      BY <1>1, QueueFacts, EmptyTableFacts, ServerAssumption
      DEF IInv, JobsOf, JobIds, Deliveries
    <3> QED
      BY <1>1, <3>1 DEF IInv, SInv, Single, Table, JobsOf, JobIds
  <2>2. Cardinality(JobsOf(d)) \in {0, 1}
    <3>1. CASE JobsOf(d) = {}
      BY <3>1, FS_EmptySet
    <3>2. CASE JobsOf(d) # {}
      <4>1. PICK i \in JobsOf(d) : JobsOf(d) = {i}
        BY <2>1, <3>2
      <4> QED
        BY <4>1, FS_Singleton
    <3> QED
      BY <3>1, <3>2
  <2> QED
    BY <2>2
<1>2. IInv => SecondJobNeedsForgetting
  BY <1>1 DEF IInv, SInv, Stored, SecondJobNeedsForgetting
<1> QED
  BY <1>2, Invariance, PTL

\* A trigger is marked as processed only when it has a job, and without a fault
\* the job is in the queue file by then: no kill between the two writes loses
\* the delivery.
THEOREM MarksHaveJobs == FileBacked => (Spec => ProcessedHasJob)
<1> SUFFICES ASSUME FileBacked PROVE Spec => ProcessedHasJob
  OBVIOUS
<1>1. ASSUME IInv, [Next]_vars, phase = "up",
             NEW d \in (Elements(recent') \ Elements(recent)) \cap Triggers
      PROVE  \E j \in Queue!JobIds :
                /\ job'[j].key = d
                /\ faults' = 0 => file'.job[j].key = d
  <2>1. recent' # recent
    BY <1>1
  <2>2. recent' # <<>>
    BY <1>1 DEF Elements
  <2>3. PICK result \in {"ok"} \cup Queue!Faulty : Mark(result)
    BY <1>1, <2>1, <2>2
    DEF Next, Trigger, Ignore, Notice, Tick, Work, Abort, Kill, Stop, Exit,
        Restart, Queue!Restart, LoseMemory, storeVars, vars
  <2>4. /\ open # Nobody /\ recent' = WithMark(open)
        /\ UNCHANGED <<job, file>> /\ Queue!CountFault(result)
    BY <2>3 DEF Mark
  <2>5. open \in Deliveries
    BY <1>1, <2>4 DEF IInv, SInv, Stored, TypeOK
  <2>6. d = open
    BY <1>1, <2>4, <2>5, MarkFacts DEF IInv, SInv
  <2>7. faults' = 0 => faults = 0
    BY <1>1, <2>4, QueueFacts DEF Queue!CountFault, IInv
  <2> QED
    BY <1>1, <2>4, <2>6, <2>7 DEF IInv, SInv, Dispatched, JobIds
<1>2. IInv /\ [Next]_vars =>
        [\A d \in (Elements(recent') \ Elements(recent)) \cap Triggers :
           phase = "up" =>
             \E j \in Queue!JobIds :
                /\ job'[j].key = d
                /\ faults' = 0 => file'.job[j].key = d]_vars
  BY <1>1
<1> QED
  BY <1>2, Invariance, PTL DEF Spec, ProcessedHasJob

\* No job is created for an installation whose suspension was acknowledged and
\* that no event activated since.
THEOREM SuspensionsHold == Spec => SuspendedStaysOut
<1>1. ASSUME IInv, [Next]_vars, NEW d \in Triggers, NEW j \in Queue!JobIds,
             created' = j, created' # created, phase' = "up", job'[j].key = d
      PROVE  InstallOf[d] \notin suspended
  <2>1. /\ ~Work /\ ~Stop /\ ~Restart /\ ~UNCHANGED vars
        /\ \A e : ~Ignore(e)
        /\ \A e, status, result : ~Notice(e, status, result)
        /\ \A result : ~Mark(result)
    <3>1. Work \/ Stop => created' = created
      BY <1>1, LiveStep DEF Work, Stop, IInv, JobIds
    <3> QED
      BY <1>1, <3>1
      DEF Restart, Queue!Restart, vars, queueVars, Ignore, Notice, Mark
  <2>2. ~Abort /\ ~Kill /\ ~Exit
    <3>1. Abort \/ Kill \/ Exit => phase' = "down"
      BY <1>1, DeadStep DEF Abort, Kill, Exit, IInv, JobIds, Queue!Faulty
    <3> QED
      BY <1>1, <3>1
  <2>3. ASSUME NEW b \in Buckets, Tick(b) PROVE FALSE
    <3>1. Queue!EnqueueNew(b, "ok")
      BY <1>1, <2>3 DEF Tick, Queue!EnqueueDuplicate
    <3>2. job'[created'].key = b
      BY <1>1, <3>1, NewStep, QueueFacts DEF Keys, IInv
    <3> QED
      BY <1>1, <3>2, ServerAssumption
  <2>4. PICK e \in Triggers \cup {NoKey}, result \in {"ok"} \cup Queue!Faulty :
          Trigger(e, result)
    BY <1>1, <2>1, <2>2, <2>3 DEF Next
  <2>5. Queue!EnqueueNew(e, result) /\ Active(e)
    BY <1>1, <2>4 DEF Trigger, Queue!EnqueueDuplicate
  <2>6. job'[created'].key = e
    <3>1. e \in Keys \cup {NoKey} /\ QP!IInv
      BY <1>1 DEF Keys, IInv
    <3>2. /\ created' \in JobIds
          /\ job' = [job EXCEPT ![created'] =
                       [key |-> e, status |-> "queued", attempts |-> 0]]
      BY <2>5, <3>1, NewStep
    <3> QED
      BY <3>1, <3>2, QueueFacts
  <2>7. d = e
    BY <1>1, <2>6
  <2>8. installs[InstallOf[d]] = "active"
    BY <2>5, <2>7 DEF Active
  <2> QED
    BY <1>1, <2>8 DEF IInv, SInv, Suspended
<1>2. IInv /\ [Next]_vars =>
        [\A d \in Triggers, j \in Queue!JobIds :
           /\ created' = j /\ created' # created /\ phase' = "up"
           /\ job'[j].key = d
           => InstallOf[d] \notin suspended]_vars
  BY <1>1
<1> QED
  BY <1>2, Invariance, PTL DEF Spec, SuspendedStaysOut

=============================================================================
