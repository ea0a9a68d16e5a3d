------------------------- MODULE StatusChecksProofs -------------------------
(***************************************************************************)
(* Proofs about StatusChecks for any deliveries, number of jobs, attempts  *)
(* and handlers: the checkouts that are removed, the repository that a     *)
(* success has seen, and the check that tells a delivery's end.  What the  *)
(* queue does comes from the invariant of JobQueueProofs, which holds here *)
(* because each action of the composition is one of the queue.             *)
(***************************************************************************)
EXTENDS StatusChecks, TLAPS

QP == INSTANCE JobQueueProofs

USE DEF setupVars, dirVars

-----------------------------------------------------------------------------
(* The queue of the composition is the one of JobQueueProofs *)

\* The queue's assumption follows from the one of the composition.
LEMMA QueueAssumed == QP!QueueAssumption
BY ChecksAssumption DEF QP!QueueAssumption, FileBacked, WriteFaults

\* The two instances of JobQueue write the same file.
LEMMA SameFile ==
  /\ JobIds = QP!JobIds /\ JobIds = Queue!JobIds
  /\ Queue!EmptyTable = QP!EmptyTable
  /\ \A result, contents : Queue!Written(result, contents)
                             = QP!Written(result, contents)
  /\ Queue!Memory = QP!Memory
  /\ Queue!Memory' = QP!Memory'
BY DEF JobIds, QP!JobIds, Queue!JobIds, Queue!EmptyTable, QP!EmptyTable,
       Queue!NoJob, QP!NoJob, Queue!Written, QP!Written, Queue!EmptyFile,
       QP!EmptyFile, Queue!Memory, QP!Memory

\* A request's enqueue is one of the queue.
LEMMA EnqueueIsQueues ==
  ASSUME NEW k \in Keys
  PROVE  /\ Queue!EnqueueNew(k, "ok") => QP!EnqueueNew(k, "ok")
         /\ Queue!EnqueueDuplicate(k, "ok") => QP!EnqueueDuplicate(k, "ok")
<1>1. Queue!Holders(k) = QP!Holders(k)
  BY SameFile DEF Queue!Holders, QP!Holders, Queue!Active, QP!Active
<1>2. Queue!WriteResults = QP!WriteResults
  BY DEF Queue!WriteResults, QP!WriteResults
<1>3. Queue!CountFault("ok") <=> QP!CountFault("ok")
  BY DEF Queue!CountFault, QP!CountFault
<1> QED
  BY <1>1, <1>2, <1>3, SameFile
  DEF Queue!EnqueueNew, QP!EnqueueNew, Queue!EnqueueDuplicate,
      QP!EnqueueDuplicate

\* The worker's poll is one of the queue.
LEMMA PollIsQueues == Queue!Poll => QP!Poll
BY SameFile
DEF Queue!Poll, QP!Poll, Queue!PollEnabled, QP!PollEnabled, Queue!Batch,
    QP!Batch, Queue!BatchSize, QP!BatchSize, Queue!Slots, QP!Slots,
    Queue!Save, QP!Save

\* The end of a handler is one of the queue.
LEMMA SettleIsQueues ==
  ASSUME NEW j \in JobIds
  PROVE  /\ Queue!Complete(j) => QP!Complete(j)
         /\ Queue!Fail(j) => QP!Fail(j)
<1>1. Queue!Save <=> QP!Save
  BY SameFile DEF Queue!Save, QP!Save
<1>2. Queue!HandlerDone(j) <=> QP!HandlerDone(j)
  BY DEF Queue!HandlerDone, QP!HandlerDone
<1>3. /\ Queue!FailedTable(j) = QP!FailedTable(j)
      /\ Queue!FailedDelayed(j) = QP!FailedDelayed(j)
  BY DEF Queue!FailedTable, QP!FailedTable, Queue!FailedDelayed,
         QP!FailedDelayed, Queue!Retryable, QP!Retryable
<1> QED
  BY <1>1, <1>2, <1>3
  DEF Queue!Complete, QP!Complete, Queue!Fail, QP!Fail

\* Time, death and return of the process are those of the queue.
LEMMA ProcessIsQueues ==
  /\ Queue!Elapse => QP!Elapse
  /\ Queue!Crash("error") => QP!Crash("error")
  /\ Queue!Restart => QP!Restart
  /\ Queue!Init => QP!Init
BY SameFile
DEF Queue!Elapse, QP!Elapse, Queue!Crash, QP!Crash, Queue!Die, QP!Die,
    Queue!Restart, QP!Restart, Queue!Init, QP!Init, Queue!EmptyFile,
    QP!EmptyFile

\* Every step of the composition is a step of the queue, or leaves it alone.
LEMMA QueueStep == [Next]_vars => [QP!Next]_(QP!vars)
<1> USE SameFile
<1>1. ASSUME NEW k \in Keys, Request(k) PROVE QP!Next
  <2>1. \/ QP!EnqueueNew(k, "ok")
        \/ QP!EnqueueDuplicate(k, "ok")
    BY <1>1, EnqueueIsQueues DEF Request
  <2> QED
    BY <2>1 DEF QP!Next
<1>2. Start => QP!Next
  <2>1. Start => QP!Poll
    BY PollIsQueues DEF Start
  <2> QED
    BY <2>1 DEF QP!Next
<1>3. ASSUME NEW j \in JobIds, Resolve(j) \/ Reject(j) PROVE QP!Next
  <2>1. QP!Settle(j)
    BY <1>3, SettleIsQueues DEF Resolve, Reject, QP!Settle
  <2> QED
    BY <2>1 DEF QP!Next
<1>4. Elapse \/ Crash \/ Restart => QP!Next
  <2>1. Elapse \/ Crash \/ Restart =>
          QP!Elapse \/ QP!Crash("error") \/ QP!Restart
    BY ProcessIsQueues DEF Elapse, Crash, Restart
  <2> QED
    BY <2>1 DEF QP!Next, QP!Faulty
<1>5. ASSUME NEW j \in JobIds, Step(j), ~Resolve(j), ~Reject(j)
      PROVE  UNCHANGED queueVars
  BY <1>5 DEF Step, Token, Announce, Configure, Heal, CheckOut, Audit, Scan,
              Report
<1>6. ASSUME NEW check, NEW k, Arrive(check, k) PROVE UNCHANGED queueVars
  BY <1>6 DEF Arrive
<1>7. UNCHANGED queueVars => UNCHANGED QP!vars
  BY DEF queueVars, QP!vars
<1>8. UNCHANGED vars => UNCHANGED queueVars
  BY DEF vars
<1> QED
  BY <1>1, <1>2, <1>3, <1>4, <1>5, <1>6, <1>7, <1>8 DEF Next

\* So the queue's invariant holds in the composition.
LEMMA QueueInit == Init => QP!IInv
<1>1. Init => QP!Init
  BY ProcessIsQueues DEF Init
<1> QED
  BY <1>1, QP!InitInv, QueueAssumed

\* The queue's invariant is kept by every step of the composition.
LEMMA QueueNext == QP!IInv /\ [Next]_vars => QP!IInv'
BY QueueStep, QP!NextInv, QueueAssumed

\* The queue that the checks run on implements the attempt ledger too: no step
\* of a delivery, a check or a report starts a job that has no attempt left,
\* restarts one that settled, or brings a lost one back.
THEOREM LedgerIsKept == Spec => QP!ImplementsLedger
<1>1. Init => QP!Init
  BY ProcessIsQueues DEF Init
<1>2. QP!Init => QP!Ledger!Init
  BY DEF QP!Init, QP!Ledger!Init, QP!Life, QP!EmptyTable, QP!NoJob, QP!Terminal
<1>3. QP!IInv /\ [Next]_vars =>
        [QP!Ledger!Next]_<<[j \in QP!JobIds |-> QP!Life(j)], starts>>
  BY QueueStep, QP!NextRefines, QueueAssumed
<1> QED
  BY <1>1, <1>2, <1>3, QueueInit, QueueNext, PTL
  DEF Spec, QP!ImplementsLedger, QP!Ledger!Spec

-----------------------------------------------------------------------------
(* The inductive invariant, by parts *)

\* Only deliveries and ticks are queued: every job has a key, in the file too.
Keyed ==
  \A j \in JobIds :
     /\ job[j].status # "none" => KeyOf(j) \in Keys
     /\ file.job[j].status # "none" => file.job[j].key \in Keys

\* A job without a handler has no step to take, no token, and no tree.
Idle == \A j \in JobIds \ handlers : stage[j] = "none" /\ ~token[j]

\* A handler is at a step, of an attempt that was counted.
Busy == \A j \in handlers : stage[j] # "none" /\ job[j].attempts > 0

BeforeToken == {"token", "reject"}

\* Only with credentials there is a token.  Where they are configured, a handler
\* past its first step has one unless it has no installation.
Granted ==
  /\ \A j \in JobIds : token[j] => credentials
  /\ \A j \in handlers :
       stage[j] \notin BeforeToken /\ HasInstallation(KeyOf(j))
         => (credentials => token[j])

\* So with credentials nothing stands in for a repository.
Genuine == \A j \in JobIds : credentials => tree[j] # "empty"

\* What a handler works on after the checkout, and what it may report.
Trees ==
  \A j \in handlers :
     /\ stage[j] = "heal" => KeyOf(j) \in Checks
     /\ stage[j] = "audit" => tree[j] \in {"clone", "empty", "configured"}
     /\ stage[j] = "scan" => tree[j] \in {"clone", "configured"}
     /\ stage[j] \in {"report", "resolve"} =>
          KeyOf(j) \in Checks \/ tree[j] \in {"clone", "configured"}
     /\ stage[j] = "resolve" => outcome[j] \in {"success", "partial"}

\* A checkout belongs to the attempt that audits or scans it, or was left behind
\* by a failing removal or fallback.
Owned ==
  faults = 0 =>
    \A d \in dirs : \/ /\ d[1] \in handlers /\ stage[d[1]] \in {"audit", "scan"}
                       /\ Dir(d[1]) = d
                    \/ d \in undeleted
                    \/ d \in broken /\ ~credentials

\* Without a fault the process lives, ids not handed out have no key, and no
\* job of a delivery is active after a later one of it was accepted.
Ordered ==
  faults = 0 =>
    /\ phase = "up"
    /\ \A j \in JobIds : j > created => KeyOf(j) = NoKey
    /\ \A i, j \in JobIds :
         i < j /\ KeyOf(i) = KeyOf(j) /\ KeyOf(i) \in Keys
           => job[i].status \notin {"queued", "running"}

\* A check that came late is there to be seen.
Visible == \A k \in late : shown[k] # "none"

Latest(j) == \A i \in JobIds : i > j => KeyOf(i) # KeyOf(j)

\* The check of a delivery whose last job is about to end or has ended.
Tells(j) ==
  LET k == KeyOf(j) IN
  /\ stage[j] = "resolve" \/ job[j].status = "completed" =>
       shown[k] \in {"success", "neutral"} \/ k \in late
  /\ job[j].status = "failed" =>
       \/ shown[k] = "failure" \/ k \in late
       \/ <<"failure", k>> \in pending

Told ==
  faults = 0 /\ credentials =>
    \A j \in JobIds : Latest(j) /\ KeyOf(j) \in Commits \ lost => Tells(j)

HInv ==
  /\ TypeOK
  /\ Keyed /\ Idle /\ Busy /\ Granted /\ Genuine /\ Trees /\ Owned
  /\ Ordered /\ Visible /\ Told

IInv == QP!IInv /\ HInv

-----------------------------------------------------------------------------
(* What the queue's invariant says of the composition *)

\* The parts of it that the proofs below use, in the names of the composition.
LEMMA QueueFacts ==
  ASSUME QP!IInv
  PROVE  /\ job \in [JobIds -> QP!Job]
         /\ \A j \in JobIds : /\ job[j].attempts \in 0..MaxAttempts
                              /\ KeyOf(j) \in Keys \cup {NoKey}
         /\ handlers \subseteq JobIds
         /\ \A j \in handlers : job[j].status = "running"
         /\ created \in 0..MaxJobs /\ faults \in Nat
         /\ phase = "down" => handlers = {}
         /\ \A j \in JobIds : j > created => job[j].status = "none"
<1>1. JobIds = QP!JobIds
  BY SameFile
<1>2. /\ job \in [JobIds -> QP!Job] /\ handlers \subseteq JobIds
      /\ created \in 0..MaxJobs /\ faults \in Nat
  BY <1>1 DEF QP!IInv, QP!TypeOK
<1>3. \A j \in JobIds : /\ job[j].attempts \in 0..MaxAttempts
                        /\ KeyOf(j) \in Keys \cup {NoKey}
  BY <1>2 DEF QP!Job, KeyOf
<1>4. /\ \A j \in handlers : job[j].status = "running"
      /\ phase = "down" => handlers = {}
      /\ \A j \in JobIds : j > created => job[j].status = "none"
  BY <1>1 DEF QP!IInv, QP!HandlersRun, QP!DeadIsEmpty, QP!Fresh
<1> QED
  BY <1>2, <1>3, <1>4

\* A request adds one queued job of its delivery, or changes no job.
LEMMA RequestFacts ==
  ASSUME QP!IInv, NEW k \in Keys, Request(k)
  PROVE  /\ handlers' = handlers /\ faults' = faults /\ phase' = phase
         /\ succeeded' = succeeded
         /\ \/ job' = job /\ created' = created
            \/ /\ created' = created + 1 /\ created' \in JobIds
               /\ job[created'].status = "none"
               /\ \A j \in JobIds :
                    job[j].key = k => job[j].status \notin {"queued", "running"}
               /\ job' = [job EXCEPT ![created'] =
                            [key |-> k, status |-> "queued", attempts |-> 0]]
<1>1. k # NoKey
  BY ChecksAssumption
<1>2. CASE Queue!EnqueueDuplicate(k, "ok")
  BY <1>2 DEF Queue!EnqueueDuplicate, Queue!CountFault
<1>3. CASE Queue!EnqueueNew(k, "ok")
  <2>1. /\ handlers' = handlers /\ faults' = faults /\ phase' = phase
        /\ succeeded' = succeeded
        /\ created < MaxJobs /\ created' = created + 1
        /\ job' = [job EXCEPT ![created'] =
                     [key |-> k, status |-> "queued", attempts |-> 0]]
    BY <1>3 DEF Queue!EnqueueNew, Queue!CountFault
  <2>2. created' \in JobIds /\ created' > created
    BY <2>1, QueueFacts, ChecksAssumption DEF JobIds
  <2>3. Queue!Holders(k) = {}
    BY <1>1, <1>3 DEF Queue!EnqueueNew
  <2>4. \A j \in JobIds :
          job[j].key = k => job[j].status \notin {"queued", "running"}
    BY <2>3, SameFile DEF Queue!Holders, Queue!Active
  <2> QED
    BY <2>1, <2>2, <2>4, QueueFacts
<1> QED
  BY <1>2, <1>3 DEF Request

\* The claimed jobs were queued, so nobody handled them; each becomes running
\* and has one attempt more.
LEMMA StartFacts ==
  ASSUME QP!IInv, Start
  PROVE  /\ faults' = faults /\ phase' = phase /\ created' = created
         /\ succeeded' = succeeded
         /\ handlers \subseteq handlers' /\ handlers' \subseteq JobIds
         /\ \A j \in JobIds : IF j \in handlers' \ handlers
              THEN /\ job[j].status = "queued" /\ job'[j].status = "running"
                   /\ job'[j].attempts = job[j].attempts + 1
                   /\ job'[j].key = job[j].key
              ELSE job'[j] = job[j]
<1>1. /\ faults' = faults /\ phase' = phase /\ created' = created
      /\ succeeded' = succeeded /\ handlers' = handlers \cup Queue!Batch
      /\ job' = [j \in JobIds |->
                   IF j \in Queue!Batch
                   THEN [job[j] EXCEPT !.status = "running", !.attempts = @ + 1]
                   ELSE job[j]]
  BY SameFile DEF Start, Queue!Poll
<1>2. ready \in Seq(JobIds)
      /\ \A i \in 1..Len(ready) : job[ready[i]].status = "queued"
  BY SameFile DEF QP!IInv, QP!TypeOK, QP!Sound, QP!Listed
<1>3. ASSUME NEW j \in Queue!Batch
      PROVE  j \in JobIds /\ job[j].status = "queued"
  <2>1. Queue!BatchSize \in Int => Queue!BatchSize <= Len(ready)
    BY <1>2 DEF Queue!BatchSize
  <2>2. inFlight \in Int
    BY DEF QP!IInv, QP!TypeOK
  <2>3. Queue!BatchSize \in Int
    BY <1>2, <2>2, ChecksAssumption DEF Queue!BatchSize, Queue!Slots
  <2>4. PICK i \in 1..Queue!BatchSize : j = ready[i]
    BY DEF Queue!Batch
  <2> QED
    BY <1>2, <2>1, <2>3, <2>4
<1>4. \A j \in Queue!Batch : j \notin handlers
  BY <1>3, QueueFacts
<1>5. ASSUME NEW j \in JobIds, j \in Queue!Batch
      PROVE  /\ job'[j].status = "running"
             /\ job'[j].attempts = job[j].attempts + 1
             /\ job'[j].key = job[j].key
  BY <1>1, <1>5, QueueFacts DEF QP!Job
<1> QED
  BY <1>1, <1>3, <1>4, <1>5, QueueFacts

\* The end of a handler changes the status of its job and nothing of others.
LEMMA SettleFacts ==
  ASSUME QP!IInv, NEW j \in handlers, Resolve(j) \/ Reject(j)
  PROVE  /\ faults' = faults /\ phase' = phase /\ created' = created
         /\ handlers' = handlers \ {j}
         /\ \A i \in JobIds : KeyOf(i)' = KeyOf(i)
         /\ \A i \in JobIds \ {j} : job'[i] = job[i]
         /\ Resolve(j) => /\ job'[j].status = "completed"
                          /\ succeeded' = succeeded \cup {j}
         /\ Reject(j) => /\ job'[j].status \in {"queued", "failed"}
                         /\ succeeded' = succeeded
<1>1. job \in [JobIds -> QP!Job] /\ j \in JobIds
  BY QueueFacts
<1>2. CASE Resolve(j)
  <2>1. /\ faults' = faults /\ phase' = phase /\ created' = created
        /\ handlers' = handlers \ {j} /\ succeeded' = succeeded \cup {j}
        /\ job' = [job EXCEPT ![j].status = "completed"]
    BY <1>2 DEF Resolve, Queue!Complete, Queue!HandlerDone
  <2>2. ~Reject(j)
    BY <1>2 DEF Resolve, Reject, Settles, At
  <2> QED
    BY <1>1, <2>1, <2>2 DEF QP!Job, KeyOf
<1>3. CASE Reject(j)
  <2>1. /\ faults' = faults /\ phase' = phase /\ created' = created
        /\ handlers' = handlers \ {j} /\ succeeded' = succeeded
        /\ job' = [job EXCEPT ![j].status =
                     IF Queue!Retryable(j) THEN "queued" ELSE "failed"]
    BY <1>3 DEF Reject, Queue!Fail, Queue!HandlerDone, Queue!FailedTable
  <2>2. ~Resolve(j)
    BY <1>3 DEF Resolve, Reject, Settles, At
  <2> QED
    BY <1>1, <2>1, <2>2 DEF QP!Job, KeyOf
<1> QED
  BY <1>2, <1>3

-----------------------------------------------------------------------------
(* Steps of a handler between its start and its end *)

\* A step that leaves the queue alone keeps what is said of the jobs.
LEMMA OwnStep ==
  ASSUME IInv, NEW j \in JobIds, At(j, "token") \/ stage[j] # "none",
         j \in handlers, NEW s \in Stages \ {"none"},
         stage' = [stage EXCEPT ![j] = s],
         UNCHANGED <<queueVars, setupVars>>,
         token' = token \/ token' = [token EXCEPT ![j] = TRUE]
  PROVE  Keyed' /\ Idle' /\ Busy' /\ Ordered'
<1> USE DEF queueVars
<1>1. \A i \in JobIds \ {j} : stage'[i] = stage[i] /\ token'[i] = token[i]
  BY DEF IInv, HInv, TypeOK
<1>2. stage'[j] = s
  BY DEF IInv, HInv, TypeOK
<1>3. Idle'
  BY <1>1 DEF IInv, HInv, Idle
<1>4. Busy'
  BY <1>1, <1>2, QueueFacts DEF IInv, HInv, Busy
<1>5. Ordered'
  BY DEF IInv, HInv, Ordered, KeyOf
<1>6. Keyed'
  BY DEF IInv, HInv, Keyed, KeyOf
<1> QED
  BY <1>3, <1>4, <1>5, <1>6

\* A step that sends nothing and does not lead to the end keeps what the checks
\* tell.
LEMMA QuietStep ==
  ASSUME IInv, NEW j \in JobIds, NEW s \in Stages \ {"resolve"},
         stage' = [stage EXCEPT ![j] = s],
         UNCHANGED <<queueVars, setupVars, pending, shown, late>>,
         lost \subseteq lost'
  PROVE  Told' /\ Visible'
<1> USE DEF queueVars
<1>1. Visible'
  BY DEF IInv, HInv, Visible
<1>2. SUFFICES ASSUME faults = 0, credentials, NEW i \in JobIds, Latest(i)',
                      KeyOf(i)' \in Commits \ lost'
               PROVE  Tells(i)'
  BY <1>1 DEF Told
<1>3. KeyOf(i)' = KeyOf(i) /\ Latest(i)
  BY <1>2 DEF Latest, KeyOf
<1>4. Tells(i)
  BY <1>2, <1>3 DEF IInv, HInv, Told
<1>5. stage'[i] = "resolve" => stage[i] = "resolve"
  BY DEF IInv, HInv, TypeOK
<1> QED
  BY <1>3, <1>4, <1>5 DEF Tells

\* A handler that asks for its token, gets it or not.
LEMMA TokenStep ==
  ASSUME IInv, NEW j \in JobIds, Token(j)
  PROVE  HInv'
<1> USE DEF queueVars
<1>1. PICK s \in {"announce", "reject"} : stage' = [stage EXCEPT ![j] = s]
  BY DEF Token, GoTo
<1>2. /\ j \in handlers /\ stage[j] = "token"
      /\ UNCHANGED <<queueVars, setupVars, tree, outcome, dirVars, pending,
                     shown, late>>
      /\ token' = token \/ token' = [token EXCEPT ![j] = TRUE]
      /\ lost \subseteq lost' /\ lost' \subseteq lost \cup {KeyOf(j)}
  BY DEF Token, At
<1>3. /\ stage'[j] = s
      /\ \A i \in JobIds \ {j} : stage'[i] = stage[i] /\ token'[i] = token[i]
  BY <1>1, <1>2 DEF IInv, HInv, TypeOK
<1>4. /\ token'[j] => credentials
      /\ s = "announce" /\ HasInstallation(KeyOf(j)) /\ credentials => token'[j]
  BY <1>1, <1>2, <1>3 DEF Token, GoTo, IInv, HInv, TypeOK, Granted
<1>5. Keyed' /\ Idle' /\ Busy' /\ Ordered' /\ Told' /\ Visible'
  BY <1>1, <1>2, OwnStep, QuietStep DEF Stages
<1>6. TypeOK'
  <2>1. stage' \in [JobIds -> Stages]
    BY <1>1 DEF IInv, HInv, TypeOK, Stages
  <2>2. token' \in [JobIds -> BOOLEAN]
    BY <1>2 DEF IInv, HInv, TypeOK
  <2>3. KeyOf(j) \in Keys
    BY <1>2, QueueFacts DEF IInv, HInv, Keyed
  <2> QED
    BY <1>2, <2>1, <2>2, <2>3 DEF IInv, HInv, TypeOK
<1>7. Granted' /\ Genuine'
  <2>1. (\A i \in JobIds : token'[i] => credentials) /\ Genuine'
    BY <1>2, <1>3, <1>4 DEF IInv, HInv, Granted, Genuine
  <2>2. \A i \in handlers \ {j} :
          /\ stage'[i] = stage[i] /\ token'[i] = token[i]
          /\ KeyOf(i)' = KeyOf(i)
    BY <1>2, <1>3, QueueFacts DEF IInv, KeyOf
  <2>3. /\ stage'[j] \in {"announce", "reject"} /\ KeyOf(j)' = KeyOf(j)
        /\ stage'[j] # "reject" /\ HasInstallation(KeyOf(j)) /\ credentials
             => token'[j]
    BY <1>2, <1>3, <1>4 DEF KeyOf
  <2> QED
    BY <1>2, <2>1, <2>2, <2>3
    DEF IInv, HInv, Granted, BeforeToken
<1>8. Trees'
  BY <1>1, <1>2, <1>3 DEF IInv, HInv, Trees, KeyOf
<1>9. Owned'
  BY <1>1, <1>2, <1>3 DEF IInv, HInv, Owned, Dir
<1> QED
  BY <1>5, <1>6, <1>7, <1>8, <1>9 DEF HInv

\* A step after the token keeps what is said of tokens.
LEMMA GrantedStep ==
  ASSUME IInv, NEW j \in handlers, NEW s \in Stages \ {"none"},
         stage' = [stage EXCEPT ![j] = s],
         UNCHANGED <<queueVars, setupVars, token>>,
         stage[j] # "token", stage[j] # "reject"
  PROVE  Granted'
<1> USE DEF queueVars
<1>1. \A i \in handlers \ {j} : stage'[i] = stage[i]
  BY QueueFacts DEF IInv, HInv, TypeOK
<1>2. stage'[j] = s /\ \A i \in handlers : KeyOf(i)' = KeyOf(i)
  BY QueueFacts DEF IInv, HInv, TypeOK, KeyOf
<1>3. HasInstallation(KeyOf(j)) /\ credentials => token[j]
  BY DEF IInv, HInv, Granted, BeforeToken
<1> QED
  BY <1>1, <1>2, <1>3 DEF IInv, HInv, Granted, BeforeToken

\* What a handler works on changes only in its own steps.
LEMMA TreesStep ==
  ASSUME IInv, NEW j \in handlers, NEW s \in Stages \ {"none"},
         stage' = [stage EXCEPT ![j] = s],
         UNCHANGED queueVars,
         tree' = tree \/ tree' = [tree EXCEPT ![j] = tree'[j]],
         outcome' = outcome \/ outcome' = [outcome EXCEPT ![j] = outcome'[j]],
         s = "heal" => KeyOf(j) \in Checks,
         s = "audit" => tree'[j] \in {"clone", "empty", "configured"},
         s = "scan" => tree'[j] \in {"clone", "configured"},
         s \in {"report", "resolve"} =>
           KeyOf(j) \in Checks \/ tree'[j] \in {"clone", "configured"},
         s = "resolve" => outcome'[j] \in {"success", "partial"}
  PROVE  Trees'
<1> USE DEF queueVars
<1>1. \A i \in handlers \ {j} :
        /\ stage'[i] = stage[i] /\ tree'[i] = tree[i]
        /\ outcome'[i] = outcome[i]
  BY QueueFacts DEF IInv, HInv, TypeOK
<1>2. stage'[j] = s /\ \A i \in handlers : KeyOf(i)' = KeyOf(i)
  BY QueueFacts DEF IInv, HInv, TypeOK, KeyOf
<1> QED
  BY <1>1, <1>2 DEF IInv, HInv, Trees

\* A step that leads to s accounts for the checkout of its attempt: the audit and
\* the scan go on with it, and else it is gone or left behind.
Accounts(j, s) ==
  \/ UNCHANGED dirVars /\ (stage[j] \in {"audit", "scan"} => s = "scan")
  \/ /\ dirs' \subseteq dirs \cup {Dir(j)}
     /\ undeleted \subseteq undeleted' /\ undeleted' \subseteq undeleted \cup {Dir(j)}
     /\ broken \subseteq broken' /\ broken' \subseteq broken \cup {Dir(j)}
     /\ Dir(j) \in dirs' => \/ s = "audit"
                            \/ Dir(j) \in undeleted'
                            \/ Dir(j) \in broken' /\ ~credentials

\* A checkout stays as long as its handler audits and scans it.
LEMMA OwnedStep ==
  ASSUME IInv, NEW j \in handlers, NEW s \in Stages \ {"none"},
         stage' = [stage EXCEPT ![j] = s],
         UNCHANGED <<queueVars, setupVars>>,
         Accounts(j, s)
  PROVE  Owned'
<1> USE DEF queueVars
<1>1. \A i \in handlers \ {j} : stage'[i] = stage[i]
  BY QueueFacts DEF IInv, HInv, TypeOK
<1>2. stage'[j] = s /\ \A i \in JobIds : Dir(i)' = Dir(i)
  BY QueueFacts DEF IInv, HInv, TypeOK, Dir
<1> SUFFICES ASSUME faults = 0, NEW d \in dirs'
             PROVE  \/ /\ d[1] \in handlers /\ stage'[d[1]] \in {"audit", "scan"}
                       /\ Dir(d[1])' = d
                    \/ d \in undeleted'
                    \/ d \in broken' /\ ~credentials
  BY DEF Owned
<1>3. j \in JobIds /\ Dir(j)[1] = j
  BY QueueFacts DEF IInv, Dir
<1>4. CASE d \in dirs /\ d # Dir(j)
  <2>1. \/ /\ d[1] \in handlers /\ stage[d[1]] \in {"audit", "scan"}
           /\ Dir(d[1]) = d
        \/ d \in undeleted
        \/ d \in broken /\ ~credentials
    BY <1>4 DEF IInv, HInv, Owned
  <2>2. undeleted \subseteq undeleted' /\ broken \subseteq broken'
    BY DEF Accounts
  <2>3. d[1] \in handlers => d[1] \in JobIds
    BY QueueFacts DEF IInv
  <2>4. Dir(d[1]) = d => d[1] # j
    BY <1>4
  <2> QED
    BY <1>1, <1>2, <2>1, <2>2, <2>3, <2>4
<1>5. CASE d = Dir(j) /\ UNCHANGED dirVars
                     /\ (stage[j] \in {"audit", "scan"} => s = "scan")
  <2>1. \/ stage[j] \in {"audit", "scan"}
        \/ d \in undeleted
        \/ d \in broken /\ ~credentials
    BY <1>3, <1>5 DEF IInv, HInv, Owned
  <2> QED
    BY <1>2, <1>3, <1>5, <2>1
<1>6. CASE d = Dir(j) /\ ~(UNCHANGED dirVars
                     /\ (stage[j] \in {"audit", "scan"} => s = "scan"))
  BY <1>2, <1>3, <1>6 DEF Accounts
<1> QED
  BY <1>4, <1>5, <1>6 DEF Accounts

\* The types of a handler's variables along its steps.
LEMMA TypeStep ==
  ASSUME IInv, NEW j \in handlers, NEW s \in Stages \ {"none"},
         stage' = [stage EXCEPT ![j] = s],
         UNCHANGED <<queueVars, setupVars, token, pending>>,
         \/ tree' = tree
         \/ \E t \in {"none", "clone", "empty", "configured"} :
              tree' = [tree EXCEPT ![j] = t],
         \/ outcome' = outcome
         \/ \E o \in {"success", "partial", "failed"} :
              outcome' = [outcome EXCEPT ![j] = o],
         Accounts(j, s),
         shown' \in [Keys -> Shown],
         late' \subseteq Commits, lost' \subseteq Keys
  PROVE  TypeOK'
<1> USE DEF queueVars
<1>1. stage' \in [JobIds -> Stages] /\ token' \in [JobIds -> BOOLEAN]
  BY DEF IInv, HInv, TypeOK
<1>2. tree' \in [JobIds -> {"none", "clone", "empty", "configured"}]
  BY DEF IInv, HInv, TypeOK
<1>3. outcome' \in [JobIds -> {"success", "partial", "failed"}]
  BY DEF IInv, HInv, TypeOK
<1>4. job[j].attempts \in 1..MaxAttempts /\ j \in JobIds
  BY QueueFacts, ChecksAssumption DEF IInv, HInv, Busy
<1>5. dirs' \cup broken' \cup undeleted' \subseteq JobIds \X (1..MaxAttempts)
  BY <1>4 DEF IInv, HInv, TypeOK, Accounts, Dir
<1> QED
  BY <1>1, <1>2, <1>3, <1>5 DEF IInv, HInv, TypeOK

\* The four kinds of step after the announcement: no request, no resolution.
LEMMA ConfigureStep ==
  ASSUME IInv, NEW j \in JobIds, Configure(j)
  PROVE  HInv'
<1>1. PICK s \in {"heal", "checkout", "reject"} :
        /\ stage' = [stage EXCEPT ![j] = s]
        /\ s = "heal" => KeyOf(j) \in Checks
  BY DEF Configure, GoTo
<1>2. /\ j \in handlers /\ stage[j] = "configure"
      /\ UNCHANGED <<queueVars, setupVars, token, tree, outcome, dirVars,
                     checkVars>>
  BY DEF Configure, At
<1>3. Keyed' /\ Idle' /\ Busy' /\ Ordered' /\ Told' /\ Visible'
  BY <1>1, <1>2, OwnStep, QuietStep DEF Stages, checkVars
<1>4. Accounts(j, s)
  BY <1>2 DEF Accounts
<1>5. Granted' /\ Genuine' /\ Trees' /\ Owned'
  BY <1>1, <1>2, <1>4, GrantedStep, TreesStep, OwnedStep
  DEF Stages, IInv, HInv, Genuine
<1>6. TypeOK'
  BY <1>1, <1>2, <1>4, TypeStep DEF Stages, checkVars, IInv, HInv, TypeOK
<1> QED
  BY <1>3, <1>5, <1>6 DEF HInv

\* The steps of the handler's work: from its configuration to its report.
LEMMA WorkStep ==
  ASSUME IInv, NEW j \in handlers,
         stage[j] \in {"heal", "checkout", "audit", "scan"},
         NEW s \in {"audit", "scan", "report", "reject"},
         stage' = [stage EXCEPT ![j] = s],
         UNCHANGED <<queueVars, setupVars, token, checkVars>>,
         \/ tree' = tree
         \/ \E t \in {"none", "clone", "empty", "configured"} :
              tree' = [tree EXCEPT ![j] = t],
         \/ outcome' = outcome
         \/ \E o \in {"success", "partial", "failed"} :
              outcome' = [outcome EXCEPT ![j] = o],
         s = "audit" => tree'[j] \in {"clone", "empty", "configured"},
         s = "scan" => tree'[j] \in {"clone", "configured"},
         s = "report" =>
           KeyOf(j) \in Checks \/ tree'[j] \in {"clone", "configured"},
         credentials => tree' = tree \/ tree'[j] # "empty",
         Accounts(j, s)
  PROVE  HInv'
<1>1. j \in JobIds /\ s \in Stages \ {"none", "resolve"}
  BY QueueFacts DEF IInv, Stages
<1>2. Genuine'
  <2>1. \A i \in JobIds \ {j} : tree'[i] = tree[i]
    BY DEF IInv, HInv, TypeOK
  <2> QED
    BY <2>1 DEF IInv, HInv, Genuine
<1>3. Keyed' /\ Idle' /\ Busy' /\ Ordered' /\ Told' /\ Visible'
  BY <1>1, OwnStep, QuietStep DEF checkVars
<1>4. Granted'
  BY <1>1, GrantedStep
<1>5. Owned'
  BY <1>1, OwnedStep
<1>6. /\ tree' = tree \/ tree' = [tree EXCEPT ![j] = tree'[j]]
      /\ outcome' = outcome \/ outcome' = [outcome EXCEPT ![j] = outcome'[j]]
  BY <1>1 DEF IInv, HInv, TypeOK
<1>7. Trees'
  BY <1>1, <1>6, TreesStep
<1>8. TypeOK'
  <2>1. shown' \in [Keys -> Shown] /\ late' \subseteq Commits
        /\ lost' \subseteq Keys /\ pending' = pending
    BY DEF IInv, HInv, TypeOK, checkVars
  <2> QED
    BY <1>1, <2>1, TypeStep
<1> QED
  BY <1>2, <1>3, <1>4, <1>5, <1>7, <1>8 DEF HInv

\* Healing reports or throws; only check runs come here.
LEMMA HealStep ==
  ASSUME IInv, NEW j \in JobIds, Heal(j)
  PROVE  HInv'
<1>1. PICK s \in {"report", "reject"} :
        /\ stage' = [stage EXCEPT ![j] = s]
        /\ \/ outcome' = outcome
           \/ \E o \in {"success", "partial", "failed"} :
                outcome' = [outcome EXCEPT ![j] = o]
  BY DEF Heal, GoTo
<1>2. /\ j \in handlers /\ stage[j] = "heal"
      /\ UNCHANGED <<queueVars, setupVars, token, tree, dirVars, checkVars>>
  BY DEF Heal, At
<1>3. KeyOf(j) \in Checks /\ Accounts(j, s)
  BY <1>2 DEF IInv, HInv, Trees, Accounts
<1> QED
  BY <1>1, <1>2, <1>3, WorkStep

\* The checkout leaves a directory for the audit, or one that nobody will remove;
\* where there is a fallback there is no token.
LEMMA CheckOutStep ==
  ASSUME IInv, NEW j \in JobIds, CheckOut(j)
  PROVE  HInv'
<1>1. /\ j \in handlers /\ stage[j] = "checkout"
      /\ UNCHANGED <<queueVars, setupVars, token, outcome, checkVars>>
  BY DEF CheckOut, At
<1>2. HasRepository(KeyOf(j)) /\ FallbackAllowed(j) => ~credentials
  BY <1>1 DEF FallbackAllowed, HasRepository, HasInstallation, IInv, HInv,
              Granted, BeforeToken
<1>3. PICK s \in {"audit", "reject"},
           t \in {"none", "clone", "empty", "configured"} :
        /\ stage' = [stage EXCEPT ![j] = s]
        /\ tree' = [tree EXCEPT ![j] = t]
        /\ s = "audit" => t \in {"clone", "empty", "configured"}
        /\ credentials => t # "empty"
        /\ Accounts(j, s)
  <2>1. CASE Found(j, "configured") /\ GoTo(j, "audit") /\ UNCHANGED dirVars
    BY <1>1, <2>1 DEF Found, GoTo, Accounts
  <2>2. CASE Clone(j)
    BY <2>2 DEF Clone, Found, GoTo, MakesDir, Accounts
  <2>3. CASE HasRepository(KeyOf(j)) /\ Fallback(j)
    BY <1>2, <2>3 DEF Fallback, Found, GoTo, MakesDir, Accounts
  <2>4. CASE GiveUp(j)
    BY <1>1, <2>4 DEF GiveUp, Found, GoTo, Accounts
  <2> QED
    BY <2>1, <2>2, <2>3, <2>4 DEF CheckOut
<1>4. tree'[j] = t
  BY <1>3 DEF IInv, HInv, TypeOK
<1> QED
  BY <1>1, <1>3, <1>4, WorkStep

\* The audit goes on to the scan, or ends; the empty repository does not pass.
LEMMA AuditStep ==
  ASSUME IInv, NEW j \in JobIds, Audit(j)
  PROVE  HInv'
<1>1. /\ j \in handlers /\ stage[j] = "audit"
      /\ UNCHANGED <<queueVars, setupVars, token, tree, checkVars>>
  BY DEF Audit, At
<1>2. tree[j] \in {"clone", "empty", "configured"}
  BY <1>1 DEF IInv, HInv, Trees
<1>3. PICK s \in {"scan", "report", "reject"} :
        /\ stage' = [stage EXCEPT ![j] = s]
        /\ \/ outcome' = outcome
           \/ \E o \in {"success", "partial", "failed"} :
                outcome' = [outcome EXCEPT ![j] = o]
        /\ s # "reject" => tree[j] \in {"clone", "configured"}
        /\ Accounts(j, s)
  BY <1>2 DEF Audit, Auditable, Returns, Throws, CleanedUp, Removes, GoTo,
              Accounts
<1> QED
  BY <1>1, <1>3, WorkStep

\* The scan ends with a report or an exception, and cleans up.
LEMMA ScanStep ==
  ASSUME IInv, NEW j \in JobIds, Scan(j)
  PROVE  HInv'
<1>1. /\ j \in handlers /\ stage[j] = "scan"
      /\ UNCHANGED <<queueVars, setupVars, token, tree, checkVars>>
  BY DEF Scan, At
<1>2. tree[j] \in {"clone", "configured"}
  BY <1>1 DEF IInv, HInv, Trees
<1>3. PICK s \in {"report", "reject"} :
        /\ stage' = [stage EXCEPT ![j] = s]
        /\ \/ outcome' = outcome
           \/ \E o \in {"success", "partial", "failed"} :
                outcome' = [outcome EXCEPT ![j] = o]
        /\ Accounts(j, s)
  BY DEF Scan, Returns, Throws, CleanedUp, Removes, GoTo, Accounts
<1> QED
  BY <1>1, <1>2, <1>3, WorkStep

-----------------------------------------------------------------------------
(* Requests to GitHub *)

\* A request shows its check, or is lost.
LEMMA PublishFacts ==
  ASSUME IInv, NEW k \in Commits, NEW check \in Shown \ {"none"},
         NEW isLate \in BOOLEAN, Publish(k, check, isLate)
  PROVE  /\ shown' \in [Keys -> Shown] /\ late' \subseteq Commits
         /\ lost' \subseteq Keys /\ lost \subseteq lost'
         /\ Visible'
         /\ \A i \in Keys \ {k} : /\ shown'[i] = shown[i]
                                  /\ i \in late => i \in late'
         /\ k \in lost' \/ (shown'[k] = check /\ (isLate => k \in late'))
<1>1. k \in Keys /\ shown \in [Keys -> Shown] /\ late \subseteq Commits
      /\ lost \subseteq Keys
  BY DEF Keys, IInv, HInv, TypeOK
<1>2. CASE lost' = lost \cup {k} /\ UNCHANGED <<shown, late>>
  BY <1>1, <1>2 DEF IInv, HInv, Visible
<1>3. CASE /\ shown' = [shown EXCEPT ![k] = check]
           /\ late' = IF isLate THEN late \cup {k} ELSE late \ {k}
           /\ UNCHANGED lost
  <2>1. /\ shown' \in [Keys -> Shown] /\ shown'[k] = check
        /\ \A i \in Keys \ {k} : shown'[i] = shown[i]
    BY <1>1, <1>3
  <2>2. /\ late' \subseteq late \cup {k} /\ late' \subseteq Commits
        /\ isLate => k \in late'
        /\ \A i \in late \ {k} : i \in late'
    BY <1>1, <1>3
  <2>3. Visible'
    BY <1>1, <2>1, <2>2 DEF IInv, HInv, Visible, Keys
  <2> QED
    BY <1>1, <1>3, <2>1, <2>2, <2>3
<1> QED
  BY <1>2, <1>3 DEF Publish

\* A handler's own request, of the last job of its delivery, shows the verdict
\* it resolves with.
LEMMA HandlerPublishes ==
  ASSUME IInv, NEW j \in handlers, NEW check \in Shown \ {"none"},
         PublishIfPossible(j, check), stage[j] \notin BeforeToken,
         NEW s \in Stages \ {"none"}, stage' = [stage EXCEPT ![j] = s],
         s = "resolve" => check \in {"success", "neutral"},
         UNCHANGED <<queueVars, setupVars, token, pending>>
  PROVE  /\ Told' /\ Visible'
         /\ shown' \in [Keys -> Shown] /\ late' \subseteq Commits
         /\ lost' \subseteq Keys
<1> USE DEF queueVars
<1>1. j \in JobIds /\ job[j].status = "running"
  BY QueueFacts DEF IInv
<1>2. CASE ~(HasTarget(KeyOf(j)) /\ token[j])
  <2>1. UNCHANGED <<shown, late, lost>>
    BY <1>2 DEF PublishIfPossible
  <2>2. /\ Visible'
        /\ shown' \in [Keys -> Shown] /\ late' \subseteq Commits
        /\ lost' \subseteq Keys
    BY <2>1 DEF IInv, HInv, Visible, TypeOK
  <2>3. SUFFICES ASSUME faults = 0, credentials, NEW i \in JobIds, Latest(i)',
                        KeyOf(i)' \in Commits \ lost'
                 PROVE  Tells(i)'
    BY <2>2 DEF Told
  <2>4. KeyOf(i)' = KeyOf(i) /\ Latest(i)
    BY <2>3 DEF Latest, KeyOf
  <2>5. Tells(i)
    BY <2>1, <2>3, <2>4 DEF IInv, HInv, Told
  <2>6. stage'[i] = "resolve" => stage[i] = "resolve"
    <3>1. i = j => s # "resolve"
      BY <1>2, <2>3, <2>4, ChecksAssumption
      DEF HasTarget, HasInstallation, IInv, HInv, Granted
    <3> QED
      BY <1>1, <3>1 DEF IInv, HInv, TypeOK
  <2> QED
    BY <2>1, <2>4, <2>5, <2>6 DEF Tells
<1>3. CASE HasTarget(KeyOf(j)) /\ token[j]
  <2> DEFINE k == KeyOf(j)
  <2>1. k \in Commits /\ k \in Keys /\ Publish(k, check, FALSE)
    BY <1>3 DEF PublishIfPossible, HasTarget, Keys
  <2>2. /\ shown' \in [Keys -> Shown] /\ late' \subseteq Commits
        /\ lost' \subseteq Keys /\ lost \subseteq lost'
        /\ Visible'
        /\ \A i \in Keys \ {k} : /\ shown'[i] = shown[i]
                                 /\ i \in late => i \in late'
        /\ k \in lost' \/ shown'[k] = check
    BY <2>1, PublishFacts
  <2>3. SUFFICES ASSUME faults = 0, credentials, NEW i \in JobIds, Latest(i)',
                        KeyOf(i)' \in Commits \ lost'
                 PROVE  Tells(i)'
    BY <2>2 DEF Told
  <2>4. KeyOf(i)' = KeyOf(i) /\ Latest(i) /\ KeyOf(i) \in Keys
    BY <2>3 DEF Latest, KeyOf, Keys
  <2>5. CASE KeyOf(i) # k
    <3>1. Tells(i)
      BY <2>2, <2>3, <2>4 DEF IInv, HInv, Told
    <3>2. stage'[i] = stage[i]
      BY <1>1, <2>5 DEF IInv, HInv, TypeOK
    <3> QED
      BY <2>2, <2>4, <2>5, <3>1, <3>2 DEF Tells
  <2>6. CASE KeyOf(i) = k
    <3>1. i = j
      <4>1. ~(i > j)
        BY <1>1, <2>1, <2>3, <2>6 DEF IInv, HInv, Ordered
      <4>2. ~(j > i)
        BY <1>1, <2>4, <2>6 DEF Latest
      <4> QED
        BY <1>1, <4>1, <4>2 DEF JobIds
    <3>2. stage'[i] = s
      BY <1>1, <3>1 DEF IInv, HInv, TypeOK
    <3>3. shown'[k] = check
      BY <2>2, <2>3, <2>4, <2>6
    <3> QED
      BY <1>1, <2>4, <3>1, <3>2, <3>3 DEF Tells
  <2> QED
    BY <2>5, <2>6
<1> QED
  BY <1>2, <1>3

\* "In progress" is sent for the delivery's last job, which has not ended.
LEMMA AnnounceStep ==
  ASSUME IInv, NEW j \in JobIds, Announce(j)
  PROVE  HInv'
<1> DEFINE s == "configure"
<1>1. /\ j \in handlers /\ stage[j] = "announce"
      /\ stage' = [stage EXCEPT ![j] = s] /\ s \in Stages \ {"none"}
      /\ PublishIfPossible(j, "in_progress")
      /\ UNCHANGED <<queueVars, setupVars, token, tree, outcome, dirVars,
                     pending>>
  BY DEF Announce, At, GoTo, Stages
<1>2. "in_progress" \in Shown \ {"none"} /\ stage[j] \notin BeforeToken
  BY <1>1 DEF Shown, BeforeToken
<1>3. /\ Told' /\ Visible' /\ shown' \in [Keys -> Shown]
      /\ late' \subseteq Commits /\ lost' \subseteq Keys
  BY <1>1, <1>2, HandlerPublishes
<1>4. Keyed' /\ Idle' /\ Busy' /\ Ordered'
  BY <1>1, OwnStep
<1>5. Accounts(j, s)
  BY <1>1 DEF Accounts
<1>6. Granted' /\ Genuine' /\ Trees' /\ Owned'
  BY <1>1, <1>5, GrantedStep, TreesStep, OwnedStep DEF IInv, HInv, Genuine
<1>7. TypeOK'
  BY <1>1, <1>3, <1>5, TypeStep
<1> QED
  BY <1>3, <1>4, <1>6, <1>7 DEF HInv

\* The verdict that is sent is the one the handler resolves with.
LEMMA ReportStep ==
  ASSUME IInv, NEW j \in JobIds, Report(j)
  PROVE  HInv'
<1> DEFINE s == IF outcome[j] = "failed" THEN "reject" ELSE "resolve"
           check == Conclusion(outcome[j])
<1>1. /\ j \in handlers /\ stage[j] = "report"
      /\ stage' = [stage EXCEPT ![j] = s] /\ s \in Stages \ {"none"}
      /\ PublishIfPossible(j, check)
      /\ UNCHANGED <<queueVars, setupVars, token, tree, outcome, dirVars,
                     pending>>
  BY DEF Report, At, GoTo, Stages
<1>2. /\ check \in Shown \ {"none"} /\ stage[j] \notin BeforeToken
      /\ s = "resolve" => /\ check \in {"success", "neutral"}
                          /\ outcome[j] \in {"success", "partial"}
  BY <1>1 DEF Shown, Verdicts, BeforeToken, Conclusion, IInv, HInv, TypeOK
<1>3. KeyOf(j) \in Checks \/ tree[j] \in {"clone", "configured"}
  BY <1>1 DEF IInv, HInv, Trees
<1>4. s \notin {"heal", "audit", "scan", "report"} /\ Accounts(j, s)
  BY <1>1 DEF Accounts
<1> HIDE DEF s, check
<1>5. /\ Told' /\ Visible' /\ shown' \in [Keys -> Shown]
      /\ late' \subseteq Commits /\ lost' \subseteq Keys
  BY <1>1, <1>2, <1>3, HandlerPublishes
<1>6. Keyed' /\ Idle' /\ Busy' /\ Ordered'
  BY <1>1, OwnStep
<1>7. Granted' /\ Genuine' /\ Owned'
  BY <1>1, <1>4, GrantedStep, OwnedStep DEF IInv, HInv, Genuine
<1>8. Trees'
  BY <1>1, <1>2, <1>3, <1>4, TreesStep
<1>9. TypeOK'
  BY <1>1, <1>4, <1>5, TypeStep
<1> QED
  BY <1>5, <1>6, <1>7, <1>8, <1>9 DEF HInv

\* A request that nobody awaits: it is late once its delivery has been told.
LEMMA ArriveStep ==
  ASSUME IInv, NEW check \in {"queued", "failure"}, NEW k \in Commits,
         Arrive(check, k)
  PROVE  HInv'
<1> USE DEF queueVars, handlerVars
<1>1. /\ <<check, k>> \in pending /\ pending' = pending \ {<<check, k>>}
      /\ Publish(k, check, Overtaken(check, k))
      /\ UNCHANGED <<queueVars, setupVars, handlerVars>>
  BY DEF Arrive
<1>2. check \in Shown \ {"none"} /\ Overtaken(check, k) \in BOOLEAN
  BY DEF Shown, Verdicts, Overtaken
<1>3. /\ shown' \in [Keys -> Shown] /\ late' \subseteq Commits
      /\ lost' \subseteq Keys /\ lost \subseteq lost'
      /\ Visible'
      /\ \A i \in Keys \ {k} : /\ shown'[i] = shown[i]
                               /\ i \in late => i \in late'
      /\ \/ k \in lost'
         \/ shown'[k] = check /\ (Overtaken(check, k) => k \in late')
  BY <1>1, <1>2, PublishFacts
<1>4. Keyed' /\ Idle' /\ Busy' /\ Ordered'
  BY <1>1 DEF IInv, HInv, Keyed, Idle, Busy, Ordered, KeyOf
<1>5. Granted' /\ Genuine' /\ Trees' /\ Owned'
  BY <1>1 DEF IInv, HInv, Granted, Genuine, Trees, Owned, KeyOf, Dir
<1>6. TypeOK'
  BY <1>1, <1>3 DEF IInv, HInv, TypeOK
<1>7. Told'
  <2> SUFFICES ASSUME faults = 0, credentials, NEW i \in JobIds, Latest(i)',
                      KeyOf(i)' \in Commits \ lost'
               PROVE  Tells(i)'
    BY <1>1 DEF Told
  <2>1. KeyOf(i)' = KeyOf(i) /\ Latest(i) /\ KeyOf(i) \in Keys
    BY <1>1 DEF Latest, KeyOf, Keys
  <2>2. Tells(i)
    BY <1>1, <1>3, <2>1 DEF IInv, HInv, Told
  <2>3. CASE KeyOf(i) # k
    <3>1. <<"failure", KeyOf(i)>> \in pending
            => <<"failure", KeyOf(i)>> \in pending'
      BY <1>1, <2>3
    <3> QED
      BY <1>1, <1>3, <2>1, <2>2, <2>3, <3>1 DEF Tells
  <2>4. CASE KeyOf(i) = k
    <3>1. shown'[k] = check /\ (Overtaken(check, k) => k \in late')
      BY <1>3, <2>1, <2>4
    <3>2. CASE stage[i] = "resolve" \/ job[i].status = "completed"
      <4>1. stage[i] = "resolve" => job[i].status = "running"
        BY QueueFacts DEF IInv, HInv, Idle
      <4>2. shown[k] # "none"
        BY <2>2, <2>4, <3>2 DEF Tells, IInv, HInv, Visible
      <4>3. Overtaken(check, k)
        BY <2>4, <3>2, <4>1, <4>2 DEF Overtaken
      <4> QED
        BY <1>1, <2>1, <2>4, <3>1, <3>2, <4>1, <4>3 DEF Tells
    <3>3. CASE job[i].status = "failed" /\ stage[i] # "resolve"
      <4>1. CASE check = "failure"
        BY <1>1, <2>1, <2>4, <3>1, <3>3, <4>1 DEF Tells
      <4>2. CASE check = "queued"
        <5>1. <<"failure", k>> \in pending => <<"failure", k>> \in pending'
          BY <1>1, <4>2
        <5>2. shown[k] # "none" => k \in late'
          BY <3>1, <4>2 DEF Overtaken
        <5>3. shown[k] = "failure" \/ k \in late => shown[k] # "none"
          BY DEF IInv, HInv, Visible
        <5> QED
          BY <1>1, <2>1, <2>2, <2>4, <3>3, <5>1, <5>2, <5>3 DEF Tells
      <4> QED
        BY <4>1, <4>2
    <3> QED
      BY <1>1, <3>2, <3>3 DEF Tells, KeyOf
  <2> QED
    BY <2>3, <2>4
<1> QED
  BY <1>3, <1>4, <1>5, <1>6, <1>7 DEF HInv

-----------------------------------------------------------------------------
(* Steps that change the queue *)

\* While the process lives, the file's jobs are those in memory.
LEMMA KeyedStep ==
  ASSUME QP!IInv', phase' # "down",
         \A j \in JobIds : job'[j].status # "none" => job'[j].key \in Keys
  PROVE  Keyed'
<1>1. \A j \in JobIds : file'.job[j].status # "none" => file'.job[j] = job'[j]
  BY SameFile DEF QP!IInv, QP!FileAgrees
<1> QED
  BY <1>1 DEF Keyed, KeyOf

\* The claimed jobs begin at their token; the other handlers go on.
LEMMA StartStep ==
  ASSUME IInv, QP!IInv', Start
  PROVE  HInv'
<1> DEFINE claimed == handlers' \ handlers
<1>1. /\ faults' = faults /\ phase' = phase /\ created' = created
      /\ handlers \subseteq handlers' /\ handlers' \subseteq JobIds
      /\ \A j \in claimed :
           /\ job[j].status = "queued" /\ job'[j].status = "running"
           /\ job'[j].attempts = job[j].attempts + 1
           /\ job'[j].key = job[j].key
      /\ \A j \in JobIds \ claimed : job'[j] = job[j]
  BY StartFacts DEF IInv
<1>2. /\ \A j \in JobIds :
           /\ stage'[j] = IF j \in claimed THEN "token" ELSE stage[j]
           /\ KeyOf(j)' = KeyOf(j)
      /\ UNCHANGED <<setupVars, token, tree, outcome, dirVars, checkVars>>
  BY <1>1 DEF Start, KeyOf
<1>3. TypeOK'
  <2>1. stage' \in [JobIds -> Stages]
    BY DEF Start, Stages, IInv, HInv, TypeOK
  <2> QED
    BY <1>2, <2>1 DEF IInv, HInv, TypeOK, checkVars
<1>4. Keyed'
  <2>1. \A j \in JobIds : job'[j].status # "none" => job'[j].key \in Keys
    BY <1>1 DEF IInv, HInv, Keyed, KeyOf
  <2>2. phase' # "down"
    BY <1>1 DEF Start, Queue!Poll, Queue!PollEnabled
  <2> QED
    BY <2>1, <2>2, KeyedStep
<1>5. Idle'
  BY <1>1, <1>2 DEF IInv, HInv, Idle
<1>6. Busy'
  BY <1>1, <1>2, QueueFacts DEF IInv, HInv, Busy
<1>7. Granted' /\ Genuine'
  BY <1>1, <1>2 DEF IInv, HInv, Granted, Genuine, BeforeToken
<1>8. Trees'
  BY <1>1, <1>2 DEF IInv, HInv, Trees
<1>9. Owned'
  BY <1>1, <1>2, QueueFacts DEF IInv, HInv, Owned, Dir
<1>10. Ordered'
  BY <1>1, <1>2 DEF IInv, HInv, Ordered
<1>11. Visible'
  BY <1>2 DEF IInv, HInv, Visible, checkVars
<1>12. Told'
  <2> SUFFICES ASSUME faults = 0, credentials, NEW i \in JobIds, Latest(i)',
                      KeyOf(i)' \in Commits \ lost'
               PROVE  Tells(i)'
    BY <1>1, <1>2 DEF Told
  <2>1. Latest(i) /\ KeyOf(i) \in Commits \ lost
    BY <1>2 DEF Latest, checkVars
  <2>2. Tells(i)
    BY <2>1 DEF IInv, HInv, Told
  <2> QED
    BY <1>1, <1>2, <2>2 DEF Tells, checkVars
<1> QED
  BY <1>3, <1>4, <1>5, <1>6, <1>7, <1>8, <1>9, <1>10, <1>11, <1>12 DEF HInv

\* What a handler held is gone with it; the other handlers do not notice.
LEMMA SettleStep ==
  ASSUME IInv, QP!IInv', NEW j \in JobIds, Resolve(j) \/ Reject(j)
  PROVE  HInv'
<1>1. j \in handlers /\ stage[j] \in {"resolve", "reject"}
  BY DEF Resolve, Reject, Settles, At
<1>2. /\ faults' = faults /\ phase' = phase /\ created' = created
      /\ handlers' = handlers \ {j}
      /\ \A i \in JobIds : KeyOf(i)' = KeyOf(i)
      /\ \A i \in JobIds \ {j} : job'[i] = job[i]
      /\ Resolve(j) => job'[j].status = "completed"
      /\ Reject(j) => job'[j].status \in {"queued", "failed"}
  BY <1>1, SettleFacts DEF IInv
<1>3. /\ UNCHANGED <<setupVars, dirVars, shown, late, lost>>
      /\ pending \subseteq pending'
      /\ pending' \subseteq {"queued", "failure"} \X Commits
      /\ Resolve(j) => pending' = pending
      /\ Reject(j) /\ job'[j].status = "failed" /\ KeyOf(j) \in Commits
         /\ credentials
           => <<"failure", KeyOf(j)>> \in pending'
  BY DEF Resolve, Reject, checkVars, FinalFailure, HasTarget, IInv, HInv, TypeOK
<1>4. /\ stage' = [i \in JobIds |-> IF i \in {j} THEN "none" ELSE stage[i]]
      /\ token' = [i \in JobIds |-> IF i \in {j} THEN FALSE ELSE token[i]]
      /\ tree' = [i \in JobIds |-> IF i \in {j} THEN "none" ELSE tree[i]]
      /\ outcome' =
           [i \in JobIds |-> IF i \in {j} THEN "success" ELSE outcome[i]]
  BY DEF Resolve, Reject, Forget
<1>5. TypeOK'
  <2>1. stage' \in [JobIds -> Stages] /\ token' \in [JobIds -> BOOLEAN]
    BY <1>4 DEF IInv, HInv, TypeOK, Stages
  <2>2. tree' \in [JobIds -> {"none", "clone", "empty", "configured"}]
        /\ outcome' \in [JobIds -> {"success", "partial", "failed"}]
    BY <1>4 DEF IInv, HInv, TypeOK
  <2> QED
    BY <1>3, <2>1, <2>2 DEF IInv, HInv, TypeOK
<1>6. job[j].status = "running"
  BY <1>1, QueueFacts DEF IInv
<1>7. Keyed'
  <2>1. \A i \in JobIds : job'[i].status # "none" => job'[i].key \in Keys
    BY <1>2, <1>6 DEF IInv, HInv, Keyed, KeyOf
  <2>2. phase' # "down"
    BY <1>1, <1>2, QueueFacts DEF IInv
  <2> QED
    BY <2>1, <2>2, KeyedStep
<1>8. Idle' /\ Busy'
  BY <1>1, <1>2, <1>4, QueueFacts DEF IInv, HInv, Idle, Busy
<1>9. Granted' /\ Genuine' /\ Trees'
  <2>1. \A i \in handlers' :
          /\ stage'[i] = stage[i] /\ token'[i] = token[i]
          /\ tree'[i] = tree[i] /\ outcome'[i] = outcome[i]
          /\ KeyOf(i)' = KeyOf(i) /\ i \in handlers
    BY <1>2, <1>4, QueueFacts DEF IInv
  <2>2. \A i \in JobIds : token'[i] => credentials'
    BY <1>3, <1>4 DEF IInv, HInv, Granted
  <2>3. Granted'
    BY <1>3, <2>1, <2>2 DEF IInv, HInv, Granted
  <2>4. Trees'
    BY <2>1 DEF IInv, HInv, Trees
  <2>5. Genuine'
    BY <1>3, <1>4 DEF IInv, HInv, Genuine
  <2> QED
    BY <2>3, <2>4, <2>5
<1>10. Owned'
  BY <1>1, <1>2, <1>3, <1>4, QueueFacts DEF IInv, HInv, Owned, Dir
<1>11. Ordered'
  BY <1>2, <1>6 DEF IInv, HInv, Ordered
<1>12. Visible'
  BY <1>3 DEF IInv, HInv, Visible
<1>13. Told'
  <2> SUFFICES ASSUME faults = 0, credentials, NEW i \in JobIds, Latest(i)',
                      KeyOf(i)' \in Commits \ lost'
               PROVE  Tells(i)'
    BY <1>2, <1>3 DEF Told
  <2>1. Latest(i) /\ KeyOf(i) \in Commits \ lost /\ KeyOf(i)' = KeyOf(i)
    BY <1>2, <1>3 DEF Latest
  <2>2. Tells(i)
    BY <2>1 DEF IInv, HInv, Told
  <2>3. CASE i # j
    BY <1>2, <1>3, <1>4, <2>1, <2>2, <2>3 DEF Tells
  <2>4. CASE i = j /\ Resolve(j)
    BY <1>2, <1>3, <1>4, <2>1, <2>2, <2>4 DEF Tells, Resolve, At
  <2>5. CASE i = j /\ Reject(j)
    BY <1>2, <1>3, <1>4, <2>1, <2>5 DEF Tells
  <2> QED
    BY <2>3, <2>4, <2>5
<1> QED
  BY <1>5, <1>7, <1>8, <1>9, <1>10, <1>11, <1>12, <1>13 DEF HInv

\* A delivery adds its job as the last one of its key, which none is active of.
LEMMA RequestStep ==
  ASSUME IInv, QP!IInv', NEW k \in Keys, Request(k)
  PROVE  HInv'
<1> DEFINE new == [key |-> k, status |-> "queued", attempts |-> 0]
           Added == /\ created' = created + 1 /\ created' \in JobIds
                    /\ job[created'].status = "none"
                    /\ \A j \in JobIds : job[j].key = k
                         => job[j].status \notin {"queued", "running"}
                    /\ job' = [job EXCEPT ![created'] = new]
<1>1. /\ handlers' = handlers /\ faults' = faults /\ phase' = phase
      /\ (job' = job /\ created' = created) \/ Added
  BY RequestFacts DEF IInv
<1>2. /\ UNCHANGED <<setupVars, handlerVars, shown, late, lost>>
      /\ pending \subseteq pending'
      /\ pending' \subseteq pending \cup ({"queued"} \X Commits)
  BY DEF Request, Announced, HasTarget
<1>3. TypeOK'
  BY <1>2 DEF IInv, HInv, TypeOK, handlerVars
<1>4. \A j \in JobIds : \/ job'[j] = job[j]
                        \/ Added /\ j = created' /\ job'[j] = new
  BY <1>1, QueueFacts DEF IInv
<1>5. Keyed'
  <2>1. \A j \in JobIds : job'[j].status # "none" => job'[j].key \in Keys
    BY <1>4 DEF IInv, HInv, Keyed, KeyOf
  <2>2. phase' # "down"
    BY <1>1 DEF Request, Queue!EnqueueNew, Queue!EnqueueDuplicate
  <2> QED
    BY <2>1, <2>2, KeyedStep
<1>6. \A j \in handlers : job'[j] = job[j]
  BY <1>4, QueueFacts DEF IInv
<1>7. Idle' /\ Busy' /\ Granted' /\ Genuine' /\ Trees' /\ Owned'
  BY <1>1, <1>2, <1>6
  DEF IInv, HInv, Idle, Busy, Granted, Genuine, Trees, Owned, KeyOf, Dir,
      handlerVars
<1>8. Ordered'
  <2> SUFFICES ASSUME faults = 0
               PROVE  /\ phase = "up"
                      /\ \A j \in JobIds : j > created' => KeyOf(j)' = NoKey
                      /\ \A i, j \in JobIds :
                           /\ i < j
                           /\ KeyOf(i)' = KeyOf(j)' /\ KeyOf(i)' \in Keys
                           => job'[i].status \notin {"queued", "running"}
    BY <1>1 DEF Ordered
  <2>1. /\ phase = "up"
        /\ \A j \in JobIds : j > created => KeyOf(j) = NoKey
        /\ \A i, j \in JobIds :
             i < j /\ KeyOf(i) = KeyOf(j) /\ KeyOf(i) \in Keys
             => job[i].status \notin {"queued", "running"}
    BY DEF IInv, HInv, Ordered
  <2>2. CASE job' = job /\ created' = created
    BY <2>1, <2>2 DEF KeyOf
  <2>3. CASE Added
    <3>1. created \in Nat /\ JobIds \subseteq Nat
      BY QueueFacts DEF IInv, JobIds
    <3>2. \A j \in JobIds : j # created' => job'[j] = job[j]
      BY <2>3
    <3>3. job'[created'] = new
      BY <2>3, QueueFacts DEF IInv
    <3>4. ASSUME NEW j \in JobIds, j > created' PROVE KeyOf(j)' = NoKey
      BY <2>1, <2>3, <3>1, <3>2, <3>4 DEF KeyOf
    <3>5. ASSUME NEW i \in JobIds, NEW j \in JobIds, i < j,
                 KeyOf(i)' = KeyOf(j)', KeyOf(i)' \in Keys
          PROVE  job'[i].status \notin {"queued", "running"}
      <4>1. i # created'
        BY <3>1, <3>4, <3>5, ChecksAssumption
      <4>2. CASE j = created'
        BY <2>3, <3>2, <3>3, <3>5, <4>1, <4>2 DEF KeyOf
      <4>3. CASE j # created'
        BY <2>1, <3>2, <3>5, <4>1, <4>3 DEF KeyOf
      <4> QED
        BY <4>2, <4>3
    <3> QED
      BY <2>1, <3>4, <3>5
  <2> QED
    BY <1>1, <2>2, <2>3
<1>9. Visible'
  BY <1>2 DEF IInv, HInv, Visible
<1>10. Told'
  <2> SUFFICES ASSUME faults = 0, credentials, NEW i \in JobIds, Latest(i)',
                      KeyOf(i)' \in Commits \ lost
               PROVE  Tells(i)'
    BY <1>1, <1>2 DEF Told
  <2>1. CASE job'[i] = job[i]
    <3>1. KeyOf(i)' = KeyOf(i) /\ KeyOf(i) \in Keys
      BY <2>1 DEF KeyOf, Keys
    <3>2. Latest(i)
      <4> SUFFICES ASSUME NEW j \in JobIds, j > i, KeyOf(j) = KeyOf(i)
                   PROVE  FALSE
        BY DEF Latest
      <4>1. job'[j] # job[j]
        BY <3>1 DEF Latest, KeyOf
      <4>2. j = created' /\ created' = created + 1
        BY <1>4, <4>1
      <4>3. KeyOf(j) = NoKey
        BY <4>2, QueueFacts DEF IInv, HInv, Ordered
      <4> QED
        BY <3>1, <4>3, ChecksAssumption
    <3>3. Tells(i)
      BY <3>1, <3>2 DEF IInv, HInv, Told
    <3> QED
      BY <1>2, <2>1, <3>1, <3>3 DEF Tells, handlerVars
  <2>2. CASE Added /\ i = created' /\ job'[i] = new
    <3>1. stage[i] = "none"
      BY <2>2, QueueFacts DEF IInv, HInv, Idle
    <3> QED
      BY <1>2, <2>2, <3>1 DEF Tells, handlerVars
  <2> QED
    BY <1>4, <2>1, <2>2
<1> QED
  BY <1>3, <1>5, <1>7, <1>8, <1>9, <1>10 DEF HInv

\* A job becomes due.
LEMMA ElapseStep ==
  ASSUME IInv, QP!IInv', Elapse
  PROVE  HInv'
<1> USE DEF handlerVars, checkVars
<1>1. /\ UNCHANGED <<job, file, handlers, phase, created, faults, setupVars,
                     handlerVars, checkVars>>
  BY DEF Elapse, Queue!Elapse
<1>2. TypeOK'
  BY <1>1 DEF IInv, HInv, TypeOK
<1>3. Keyed' /\ Idle' /\ Busy' /\ Granted' /\ Genuine' /\ Trees' /\ Owned'
  BY <1>1
  DEF IInv, HInv, Keyed, Idle, Busy, Granted, Genuine, Trees, Owned, KeyOf, Dir
<1>4. Ordered' /\ Visible' /\ Told'
  BY <1>1 DEF IInv, HInv, Ordered, Visible, Told, Tells, Latest, KeyOf
<1> QED
  BY <1>2, <1>3, <1>4 DEF HInv

\* A dead process has no handlers; what is on disk and on GitHub stays.
LEMMA CrashStep ==
  ASSUME IInv, Crash
  PROVE  HInv'
<1>1. /\ handlers' = {} /\ faults' = faults + 1 /\ faults' # 0
      /\ job' = Queue!EmptyTable /\ file' = file
      /\ pending' = {} /\ UNCHANGED <<setupVars, dirVars, shown, late, lost>>
  BY QueueFacts, SameFile
  DEF Crash, Queue!Crash, Queue!Die, Queue!Written, FileBacked, IInv
<1>2. /\ stage' = [i \in JobIds |-> "none"]
      /\ token' = [i \in JobIds |-> FALSE]
      /\ tree' = [i \in JobIds |-> "none"]
      /\ outcome' = [i \in JobIds |-> "success"]
  BY DEF Crash, Forget
<1>3. TypeOK'
  <2>1. stage' \in [JobIds -> Stages] /\ token' \in [JobIds -> BOOLEAN]
    BY <1>2 DEF Stages
  <2>2. tree' \in [JobIds -> {"none", "clone", "empty", "configured"}]
        /\ outcome' \in [JobIds -> {"success", "partial", "failed"}]
    BY <1>2
  <2> QED
    BY <1>1, <2>1, <2>2 DEF IInv, HInv, TypeOK
<1>4. Keyed'
  BY <1>1, SameFile DEF IInv, HInv, Keyed, Queue!EmptyTable, Queue!NoJob
<1>5. Idle' /\ Busy' /\ Granted' /\ Genuine' /\ Trees'
  BY <1>1, <1>2 DEF Idle, Busy, Granted, Genuine, Trees
<1>6. Owned' /\ Ordered' /\ Told'
  BY <1>1 DEF Owned, Ordered, Told
<1>7. Visible'
  BY <1>1 DEF IInv, HInv, Visible
<1> QED
  BY <1>3, <1>4, <1>5, <1>6, <1>7 DEF HInv

\* A process that is started had died before, so there was a fault.
LEMMA RestartStep ==
  ASSUME IInv, Restart
  PROVE  HInv'
<1> USE DEF handlerVars, checkVars
<1>1. /\ phase = "down" /\ handlers = {} /\ handlers' = {}
      /\ job' = file.job /\ file' = file /\ faults' = faults
      /\ UNCHANGED <<setupVars, handlerVars, checkVars>>
  BY QueueFacts DEF Restart, Queue!Restart, IInv
<1>2. faults # 0
  BY <1>1 DEF IInv, HInv, Ordered
<1>3. TypeOK'
  BY <1>1 DEF IInv, HInv, TypeOK
<1>4. Keyed' /\ Idle' /\ Busy' /\ Granted' /\ Genuine' /\ Trees' /\ Visible'
  BY <1>1
  DEF IInv, HInv, Keyed, Idle, Busy, Granted, Genuine, Trees, Visible, KeyOf
<1>5. Owned' /\ Ordered' /\ Told'
  BY <1>1, <1>2 DEF Owned, Ordered, Told
<1> QED
  BY <1>3, <1>4, <1>5 DEF HInv

\* Nothing has been delivered.
LEMMA InitInv == Init => IInv
<1> SUFFICES ASSUME Init PROVE HInv
  BY QueueInit DEF IInv
<1>1. /\ job = Queue!EmptyTable /\ file.job = Queue!EmptyTable
      /\ handlers = {} /\ phase = "up" /\ created = 0 /\ faults = 0
  BY DEF Init, Queue!Init, Queue!EmptyFile
<1>2. \A j \in JobIds : /\ KeyOf(j) = NoKey /\ job[j].status = "none"
                        /\ file.job[j].status = "none"
  BY <1>1, SameFile DEF KeyOf, Queue!EmptyTable, Queue!NoJob
<1>3. TypeOK
  <2>1. stage \in [JobIds -> Stages] /\ token \in [JobIds -> BOOLEAN]
    BY DEF Init, Stages
  <2>2. tree \in [JobIds -> {"none", "clone", "empty", "configured"}]
        /\ outcome \in [JobIds -> {"success", "partial", "failed"}]
        /\ shown \in [Keys -> Shown]
    BY DEF Init, Shown
  <2>3. [credentials |-> credentials, handler |-> handler] \in Setups
    BY SetupsAssumption DEF Init
  <2> QED
    BY <2>1, <2>2, <2>3 DEF Init, TypeOK
<1>4. Keyed /\ Idle /\ Busy /\ Granted /\ Genuine /\ Trees /\ Owned /\ Visible
  BY <1>1, <1>2
  DEF Init, Keyed, Idle, Busy, Granted, Genuine, Trees, Owned, Visible
<1>5. Ordered /\ Told
  BY <1>1, <1>2, ChecksAssumption DEF Init, Ordered, Told, Tells
<1> QED
  BY <1>3, <1>4, <1>5 DEF HInv

\* Each step keeps the invariant.
LEMMA NextInv == IInv /\ [Next]_vars => IInv'
<1> SUFFICES ASSUME IInv, [Next]_vars PROVE HInv'
  BY QueueNext DEF IInv
<1>1. QP!IInv'
  BY QueueNext DEF IInv
<1>2. ASSUME NEW k \in Keys, Request(k) PROVE HInv'
  BY <1>1, <1>2, RequestStep
<1>3. ASSUME NEW j \in JobIds, Step(j) PROVE HInv'
  BY <1>1, <1>3, TokenStep, AnnounceStep, ConfigureStep, HealStep,
     CheckOutStep, AuditStep, ScanStep, ReportStep, SettleStep DEF Step
<1>4. ASSUME NEW check \in {"queued", "failure"}, NEW k \in Commits,
             Arrive(check, k)
      PROVE  HInv'
  BY <1>4, ArriveStep
<1>5. CASE Start \/ Elapse \/ Crash \/ Restart
  BY <1>1, <1>5, StartStep, ElapseStep, CrashStep, RestartStep
<1>6. CASE UNCHANGED vars
  <2>1. UNCHANGED <<job, file, handlers, phase, created, faults, setupVars,
                    handlerVars, checkVars>>
    BY <1>6 DEF vars, queueVars
  <2> USE DEF handlerVars, checkVars
  <2>2. TypeOK'
    BY <2>1 DEF IInv, HInv, TypeOK
  <2>3. Keyed' /\ Idle' /\ Busy' /\ Granted' /\ Genuine' /\ Trees' /\ Owned'
    BY <2>1
    DEF IInv, HInv, Keyed, Idle, Busy, Granted, Genuine, Trees, Owned, KeyOf, Dir
  <2>4. Ordered' /\ Visible' /\ Told'
    BY <2>1 DEF IInv, HInv, Ordered, Visible, Told, Tells, Latest, KeyOf
  <2> QED
    BY <2>2, <2>3, <2>4 DEF HInv
<1> QED
  BY <1>2, <1>3, <1>4, <1>5, <1>6 DEF Next

\* The invariant holds of every reachable state.
LEMMA Invariance == Spec => []IInv
BY InitInv, NextInv, PTL DEF Spec

-----------------------------------------------------------------------------
(* The theorems *)

\* Once a delivery's last job has ended and all its requests have arrived, the
\* check says how it ended; only a late unawaited request can cover it.
THEOREM ChecksTellTheEnd == Spec => []FinalCheckIsTrue
<1>1. ASSUME IInv, NEW j \in JobIds, Settled(j), HasTarget(KeyOf(j))
      PROVE  \/ shown[KeyOf(j)] \in VerdictOf(job[j].status)
             \/ KeyOf(j) \in late
  <2>1. /\ faults = 0 /\ credentials
        /\ job[j].status \in {"completed", "failed"}
        /\ Latest(j) /\ KeyOf(j) \in Commits \ lost
        /\ \A request \in pending : request[2] # KeyOf(j)
    BY <1>1 DEF Settled, HasTarget, Latest, Queue!Terminal
  <2>2. Tells(j)
    BY <1>1, <2>1 DEF IInv, HInv, Told
  <2>3. <<"failure", KeyOf(j)>> \notin pending
    BY <2>1
  <2> QED
    BY <2>1, <2>2, <2>3 DEF Tells, VerdictOf
<1>2. IInv => FinalCheckIsTrue
  BY <1>1 DEF IInv, HInv, FinalCheckIsTrue
<1> QED
  BY <1>2, Invariance, PTL

\* While no process has died, every temporary checkout belongs to the attempt
\* that works in it, unless that very directory could not be removed, or its own
\* fallback failed in a server without credentials.
THEOREM CheckoutsHaveOwners == Spec => []CheckoutsAreCleaned
<1>1. IInv => CheckoutsAreCleaned
  BY DEF IInv, HInv, Owned, CheckoutsAreCleaned
<1> QED
  BY <1>1, Invariance, PTL

\* A job becomes completed only by a handler that worked on a repository or a
\* configured directory, and with credentials no handler is given a stand-in.
THEOREM SuccessIsEarned == Spec => SuccessSawRepository
<1>1. ASSUME IInv, [Next]_vars, NEW j \in succeeded' \ succeeded
      PROVE  KeyOf(j) \in Checks \/ tree[j] \in {"clone", "configured"}
  <2>1. ASSUME NEW i \in JobIds, Step(i) PROVE Resolve(i) /\ i = j
    <3>1. Resolve(i) \/ Reject(i) \/ succeeded' = succeeded
      BY <2>1 DEF Step, Token, Announce, Configure, Heal, CheckOut, Audit,
                  Scan, Report, queueVars
    <3>2. Resolve(i) \/ Reject(i) => i \in handlers
      BY DEF Resolve, Reject, Settles, At
    <3> QED
      BY <1>1, <3>1, <3>2, SettleFacts DEF IInv
  <2>2. ASSUME NEW k \in Keys, Request(k) PROVE FALSE
    BY <1>1, <2>2, RequestFacts DEF IInv
  <2>3. ~(Start \/ Elapse \/ Crash \/ Restart)
    <3>1. Start => succeeded' = succeeded
      BY <1>1, StartFacts DEF IInv
    <3>2. Elapse \/ Crash \/ Restart => succeeded' = succeeded
      BY DEF Elapse, Crash, Restart, Queue!Elapse, Queue!Crash, Queue!Restart
    <3> QED
      BY <1>1, <3>1, <3>2
  <2>4. \A check, k : ~Arrive(check, k)
    BY <1>1 DEF Arrive, queueVars
  <2>5. ~UNCHANGED vars
    BY <1>1 DEF vars, queueVars
  <2>6. Resolve(j)
    BY <1>1, <2>1, <2>2, <2>3, <2>4, <2>5 DEF Next
  <2> QED
    BY <1>1, <2>6 DEF Resolve, At, IInv, HInv, Trees
<1>2. IInv /\ [Next]_vars =>
        [\A j \in succeeded' \ succeeded :
           KeyOf(j) \in Checks \/ tree[j] \in {"clone", "configured"}]_vars
  BY <1>1
<1>3. IInv => \A j \in JobIds : credentials => tree[j] # "empty"
  BY DEF IInv, HInv, Genuine
<1> QED
  BY <1>2, <1>3, Invariance, PTL DEF Spec, SuccessSawRepository

=============================================================================
