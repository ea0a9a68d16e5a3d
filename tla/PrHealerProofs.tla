--------------------------- MODULE PrHealerProofs ---------------------------
(***************************************************************************)
(* Theorems about PrHealer, for any check runs, files, repairs and pushes  *)
(* of developers, any queue and any number of failing API calls.           *)
(*                                                                         *)
(* That attempts do not share a number is not inductive: a number is given *)
(* out when healPullRequest is entered and used when a commit is pushed,   *)
(* with handlers of other check runs in between.  The invariant says so of *)
(* the numbers that handlers hold (Numbered) and of those that pushed      *)
(* already (Recorded).                                                     *)
(***************************************************************************)
EXTENDS PrHealer, FiniteSetTheorems, TLAPS

QP == INSTANCE JobQueueProofs

\* What a handler is doing, by its type.
Works == [at: Steps, attempt: 0..MaxHeals, todo: SUBSET Files,
          target: Files \cup {NoFile}, read: SUBSET Edits, healed: BOOLEAN]

\* The attempts that handlers are in are counted, and no two are in the same.
Numbered ==
  /\ \A j \in Queue!JobIds :
       /\ work[j].attempt <= attempts
       /\ work[j].at \in {"files", "write"} => work[j].attempt >= 1
  /\ \A i, j \in Queue!JobIds :
       work[i].attempt = work[j].attempt /\ work[i].attempt # 0 => i = j

\* So are those that pushed; their number stays theirs.
Recorded ==
  /\ committed \subseteq Queue!JobIds \X (1..MaxHeals)
  /\ \A r \in committed : r[2] <= attempts
  /\ \A r \in committed, j \in Queue!JobIds :
       work[j].attempt = r[2] => r[1] = j
  /\ \A r, s \in committed : r[2] = s[2] => r = s

IInv == TypeOK /\ Numbered /\ Recorded

-----------------------------------------------------------------------------
(* Steps *)

\* A handler that has not started holds no number.
LEMMA FreshType == Fresh \in Works
BY HealerAssumption DEF Fresh, Works, Steps

\* A handler that is done with a file stays in its attempt.
LEMMA WithoutType ==
  ASSUME NEW w \in Works, NEW f
  PROVE  /\ Without(w, f) \in Works
         /\ Without(w, f).attempt = w.attempt
         /\ Without(w, f).at \in {"files", "write"} => w.todo # {f}
BY DEF Without, Works, Steps

\* A step that gives out no number: what one handler is doing changes, within
\* its attempt or back to none, and nothing is pushed.
LEMMA WorkStep ==
  ASSUME IInv, NEW j \in Queue!JobIds, NEW w \in Works,
         work' = [work EXCEPT ![j] = w],
         w.attempt \in {work[j].attempt, 0},
         w.at \in {"files", "write"} => w.attempt >= 1,
         UNCHANGED <<attempts, branch, committed>>,
         HistoryOK', apiFaults' \in 0..MaxApiFaults
  PROVE  IInv'
<1>1. work \in [Queue!JobIds -> Works] /\ attempts \in Nat
  BY HealerAssumption DEF IInv, TypeOK, Works
<1>2. TypeOK'
  BY <1>1 DEF IInv, TypeOK, Works
<1>3. \A i \in Queue!JobIds : work'[i] = IF i = j THEN w ELSE work[i]
  BY <1>1
<1>4. Numbered'
  BY <1>1, <1>3 DEF IInv, Numbered
<1>5. Recorded'
  <2>1. \A r \in committed : r[2] \in 1..MaxHeals
    BY DEF IInv, Recorded
  <2> QED
    BY <1>1, <1>3, <2>1 DEF IInv, Recorded
<1> QED
  BY <1>2, <1>4, <1>5 DEF IInv

\* Entering healPullRequest gives out the next number, or none at the limit.
LEMMA EnterKeeps ==
  ASSUME IInv, NEW j \in Queue!JobIds, Enter(j)
  PROVE  IInv'
<1>1. /\ work \in [Queue!JobIds -> Works] /\ work[j] \in Works
      /\ attempts \in 0..MaxHeals /\ MaxHeals \in Nat
  BY HealerAssumption DEF IInv, TypeOK, Works
<1>2. FilesOf[job[j].key] \in SUBSET Files
  BY HealerAssumption DEF Enter
<1>3. UNCHANGED <<branch, apiFaults, answered, silent, committed>>
  BY DEF Enter
<1>4. CASE LimitReached
  <2> DEFINE w == [work[j] EXCEPT !.at = "comment"]
  <2>1. w \in Works /\ w.attempt = work[j].attempt /\ w.at = "comment"
    BY <1>1 DEF Works, Steps
  <2>2. work' = [work EXCEPT ![j] = w] /\ UNCHANGED attempts
    BY <1>4 DEF Enter
  <2>3. HistoryOK' /\ apiFaults' \in 0..MaxApiFaults
    BY <1>3 DEF IInv, TypeOK, HistoryOK
  <2> HIDE DEF w
  <2> QED
    BY <1>3, <2>1, <2>2, <2>3, WorkStep
<1>5. CASE ~LimitReached
  <2>1. attempts' = attempts + 1 /\ attempts + 1 \in 1..MaxHeals
    <3>1. attempts' = attempts + 1
      BY <1>5 DEF Enter, NextAttempt
    <3> QED
      BY <1>1, <1>5, <3>1 DEF LimitReached
  <2>2. PICK at \in {"files", "comment"} :
          work' = [work EXCEPT ![j] = [work[j] EXCEPT
                     !.at = at, !.attempt = attempts + 1,
                     !.todo = FilesOf[job[j].key]]]
    BY <1>5, <2>1 DEF Enter
  <2> DEFINE w == [work[j] EXCEPT !.at = at, !.attempt = attempts + 1,
                                  !.todo = FilesOf[job[j].key]]
  <2>3. w \in Works /\ w.attempt = attempts + 1
    <3>1. attempts + 1 \in 0..MaxHeals /\ at \in Steps
      BY <1>1, <2>1 DEF Steps
    <3> QED
      BY <1>1, <1>2, <3>1 DEF Works
  <2> HIDE DEF w
  <2>4. /\ work' \in [Queue!JobIds -> Works]
        /\ \A i \in Queue!JobIds : work'[i] = IF i = j THEN w ELSE work[i]
    BY <1>1, <2>2, <2>3 DEF w
  <2>5. TypeOK'
    BY <1>3, <2>1, <2>4 DEF IInv, TypeOK, HistoryOK, Works
  <2>6. \A i \in Queue!JobIds : work[i].attempt \in Nat
                                /\ work[i].attempt <= attempts
    BY <1>1 DEF IInv, Numbered, Works
  <2>7. Numbered'
    BY <1>1, <2>1, <2>3, <2>4, <2>6 DEF IInv, Numbered
  <2>8. Recorded'
    <3>1. \A r \in committed : r[2] \in Nat /\ r[2] <= attempts
      BY DEF IInv, Recorded
    <3> QED
      BY <1>1, <1>3, <2>1, <2>3, <2>4, <2>6, <3>1 DEF IInv, Recorded
  <2> QED
    BY <2>5, <2>7, <2>8 DEF IInv
<1> QED
  BY <1>4, <1>5

\* A commit is pushed under the number of its handler, which nobody used.
LEMMA PushKeeps ==
  ASSUME IInv, NEW j \in Queue!JobIds, NEW lost \in BOOLEAN, Push(j, lost)
  PROVE  IInv'
<1>1. /\ work \in [Queue!JobIds -> Works] /\ work[j] \in Works
      /\ attempts \in 0..MaxHeals /\ MaxHeals \in Nat
  BY HealerAssumption DEF IInv, TypeOK, Works
<1> DEFINE f == work[j].target
<1> DEFINE w == [Without(work[j], f) EXCEPT !.healed = work[j].healed \/ ~lost]
<1>2. /\ w \in Works /\ w.attempt = work[j].attempt
  <2>1. Without(work[j], f) \in Works
        /\ Without(work[j], f).attempt = work[j].attempt
    BY <1>1, WithoutType
  <2> QED
    BY <2>1 DEF Works
<1>3. work[j].attempt \in 1..attempts
  BY <1>1 DEF Push, At, IInv, Numbered, Works
<1>4. work' = [work EXCEPT ![j] = w]
  BY DEF Push
<1> HIDE DEF w
<1>5. /\ work' \in [Queue!JobIds -> Works]
      /\ \A i \in Queue!JobIds : work'[i] = IF i = j THEN w ELSE work[i]
  BY <1>1, <1>2, <1>4
<1>6. \A i \in Queue!JobIds : work'[i].attempt = work[i].attempt
  BY <1>2, <1>5
<1>7. TypeOK'
  <2>1. branch' \in [Files -> SUBSET (Edits \cup {Repair})]
    <3>1. work[j].read \cup {Repair} \in SUBSET (Edits \cup {Repair})
      BY <1>1 DEF Works
    <3> QED
      BY <3>1 DEF Push, IInv, TypeOK
  <2>2. apiFaults' \in 0..MaxApiFaults
    BY HealerAssumption DEF Push, ApiCanFail, IInv, TypeOK
  <2> QED
    BY <1>5, <2>1, <2>2 DEF Push, IInv, TypeOK, HistoryOK, Works
<1>8. Numbered'
  BY <1>1, <1>3, <1>5, <1>6 DEF Push, IInv, Numbered
<1>9. committed' = committed \cup {<<j, work[j].attempt>>} /\ UNCHANGED attempts
  BY DEF Push
<1>10. Recorded'
  <2>1. committed' \subseteq Queue!JobIds \X (1..MaxHeals)
    BY <1>1, <1>3, <1>9 DEF IInv, Recorded
  <2>2. \A r \in committed' : r[2] <= attempts'
    BY <1>1, <1>3, <1>9 DEF IInv, Recorded
  <2>3. \A r \in committed', i \in Queue!JobIds :
          work'[i].attempt = r[2] => r[1] = i
    BY <1>3, <1>6, <1>9 DEF IInv, Recorded, Numbered
  <2>4. \A r \in committed :
          r[2] = work[j].attempt => r = <<j, work[j].attempt>>
    BY DEF IInv, Recorded
  <2>5. \A r, s \in committed' : r[2] = s[2] => r = s
    BY <1>9, <2>4 DEF IInv, Recorded
  <2> QED
    BY <2>1, <2>2, <2>3, <2>5 DEF Recorded
<1> QED
  BY <1>7, <1>8, <1>10 DEF IInv

\* The other steps of a handler give out no number and push nothing.
LEMMA HandleKeeps ==
  ASSUME IInv, NEW j \in Queue!JobIds, Handle(j)
  PROVE  IInv'
<1>1. /\ work \in [Queue!JobIds -> Works] /\ work[j] \in Works
      /\ HistoryOK /\ apiFaults \in 0..MaxApiFaults
      /\ branch \in [Files -> SUBSET (Edits \cup {Repair})]
  BY DEF IInv, TypeOK, Works
<1>2. work[j].at \in {"files", "write"} => work[j].attempt >= 1
  BY DEF IInv, Numbered
<1>9. ASSUME \/ UNCHANGED <<answered, silent>>
             \/ AddLabel(j) /\ UNCHANGED silent
             \/ StaySilent(j) /\ UNCHANGED answered
      PROVE  HistoryOK'
  BY <1>1, <1>9 DEF HistoryOK, AddLabel, StaySilent
<1>3. ASSUME UNCHANGED apiFaults \/ (ApiCanFail /\ CountApiFault)
      PROVE  apiFaults' \in 0..MaxApiFaults
  BY <1>1, <1>3, HealerAssumption DEF ApiCanFail, CountApiFault
<1>4. CASE Skip(j) \/ Reject(j) \/ Announce(j) \/ Label(j)
  <2>1. /\ work' = [work EXCEPT ![j] = Fresh]
        /\ UNCHANGED <<attempts, branch, committed>>
        /\ UNCHANGED apiFaults \/ (ApiCanFail /\ CountApiFault)
    BY <1>1, <1>4
    DEF Skip, Reject, Announce, Label, Healed, NotHealed, StaySilent
  <2>3. HistoryOK'
    BY <1>4, <1>9 DEF Skip, Reject, Announce, Label
  <2>2. Fresh.attempt = 0 /\ Fresh.at = "start"
    BY DEF Fresh
  <2> QED
    BY <1>3, <2>1, <2>2, <2>3, FreshType, WorkStep
<1>5. CASE Escalate(j)
  <2>1. /\ UNCHANGED <<attempts, branch, committed>>
        /\ UNCHANGED apiFaults \/ (ApiCanFail /\ CountApiFault)
        /\ HistoryOK'
    BY <1>5, <1>9 DEF Escalate, StaySilent
  <2>2. CASE work' = [work EXCEPT ![j] = Fresh]
    <3>1. Fresh.attempt = 0 /\ Fresh.at = "start"
      BY DEF Fresh
    <3> QED
      BY <1>1, <1>3, <2>1, <2>2, <3>1, FreshType, WorkStep
  <2>3. CASE work' = [work EXCEPT ![j].at = "label"]
    <3> DEFINE w == [work[j] EXCEPT !.at = "label"]
    <3>1. w \in Works /\ w.attempt = work[j].attempt /\ w.at = "label"
      BY <1>1 DEF Works, Steps
    <3>2. work' = [work EXCEPT ![j] = w]
      BY <2>3
    <3> HIDE DEF w
    <3> QED
      BY <1>1, <1>3, <2>1, <3>1, <3>2, WorkStep
  <2> QED
    BY <1>5, <2>2, <2>3 DEF Escalate, NotHealed
<1>6. ASSUME NEW f \in Files, ReadFile(j, f)
      PROVE  IInv'
  <2>1. /\ work[j].at = "files"
        /\ UNCHANGED <<attempts, branch, apiFaults, committed>>
        /\ HistoryOK'
    BY <1>6, <1>9 DEF ReadFile, At
  <2>2. CASE Repairs(f)
    <3> DEFINE w == [work[j] EXCEPT !.at = "write", !.target = f,
                                    !.read = branch[f]]
    <3>1. branch[f] \in SUBSET Edits
      BY <1>1, <1>6, <2>2 DEF Repairs
    <3>2. w \in Works /\ w.attempt = work[j].attempt
      BY <1>1, <1>6, <3>1 DEF Works, Steps
    <3>3. work' = [work EXCEPT ![j] = w]
      BY <1>6, <2>2 DEF ReadFile
    <3> HIDE DEF w
    <3> QED
      BY <1>1, <1>2, <1>3, <2>1, <3>2, <3>3, WorkStep
  <2>3. CASE ~Repairs(f)
    <3>1. work' = [work EXCEPT ![j] = Without(work[j], f)]
      BY <1>6, <2>3 DEF ReadFile
    <3> QED
      BY <1>1, <1>2, <1>3, <2>1, <3>1, WithoutType, WorkStep
  <2> QED
    BY <2>2, <2>3
<1>7. ASSUME NEW f, CallFails(j, f) \/ (f = work[j].target /\ Conflict(j))
      PROVE  IInv'
  <2>1. /\ work[j].at \in {"files", "write"}
        /\ UNCHANGED <<attempts, branch, committed>>
        /\ HistoryOK'
        /\ UNCHANGED apiFaults \/ (ApiCanFail /\ CountApiFault)
        /\ work' = [work EXCEPT ![j] = Without(work[j], f)]
    BY <1>7, <1>9 DEF CallFails, Conflict, At
  <2> QED
    BY <1>1, <1>2, <1>3, <2>1, WithoutType, WorkStep
<1> QED
  BY <1>4, <1>5, <1>6, <1>7, EnterKeeps, PushKeeps DEF Handle

-----------------------------------------------------------------------------
(* The invariant and what it gives *)

\* The invariant holds of every reachable state.
LEMMA Invariance == Spec => []IInv
<1>1. Init => IInv
  <2> SUFFICES ASSUME Init PROVE IInv
    OBVIOUS
  <2>1. Fresh.attempt = 0 /\ Fresh.at = "start"
    BY DEF Fresh
  <2>2. TypeOK
    <3>1. work \in [Queue!JobIds -> Works]
      BY FreshType DEF Init
    <3>2. attempts \in 0..MaxHeals /\ apiFaults \in 0..MaxApiFaults
      BY HealerAssumption DEF Init
    <3> QED
      BY <3>1, <3>2 DEF Init, TypeOK, HistoryOK, Works
  <2>3. Numbered /\ Recorded
    BY <2>1 DEF Init, Numbered, Recorded
  <2> QED
    BY <2>2, <2>3 DEF IInv
<1>2. ASSUME IInv, [Next]_vars PROVE IInv'
  <2>1. CASE \E j \in Queue!JobIds : Handle(j)
    BY <1>2, <2>1, HandleKeeps
  <2>2. CASE UNCHANGED healVars
    BY <1>2, <2>2 DEF healVars, IInv, TypeOK, HistoryOK, Numbered, Recorded
  <2>3. ASSUME NEW f \in Files, NEW e \in Edits, Develop(f, e)
        PROVE  IInv'
    <3>1. branch' \in [Files -> SUBSET (Edits \cup {Repair})]
      BY <1>2, <2>3 DEF Develop, IInv, TypeOK
    <3> QED
      BY <1>2, <2>3, <3>1
      DEF Develop, IInv, TypeOK, HistoryOK, Numbered, Recorded
  <2>4. CASE Forget
    <3>1. Fresh.attempt = 0 /\ Fresh.at = "start"
      BY DEF Fresh
    <3>2. TypeOK'
      BY <1>2, <2>4, FreshType, HealerAssumption
      DEF Forget, IInv, TypeOK, HistoryOK, Works
    <3>3. Numbered' /\ Recorded'
      BY <2>4, <3>1 DEF Forget, Numbered, Recorded
    <3> QED
      BY <3>2, <3>3 DEF IInv
  <2> QED
    BY <1>2, <2>1, <2>2, <2>3, <2>4
    DEF Next, Deliver, Work, Kill, Exit, Restart, vars
<1> QED
  BY <1>1, <1>2, PTL DEF Spec

\* Circuit breaker: at most MaxHeals attempts of one process push to the branch,
\* however many check runs fail at once and however often they are retried.
THEOREM BreakerWorks == Spec => []BreakerHolds
<1>1. ASSUME IInv
      PROVE  Cardinality(committed) <= MaxHeals
  <2> DEFINE number == [r \in committed |-> r[2]]
  <2>1. number \in Injection(committed, 1..MaxHeals)
    BY <1>1 DEF IInv, Recorded, Injection, IsInjective
  <2>2. MaxHeals \in Nat
    BY HealerAssumption
  <2>3. IsFiniteSet(1..MaxHeals) /\ Cardinality(1..MaxHeals) <= MaxHeals
    BY <2>2, FS_Interval
  <2>4. /\ IsFiniteSet(committed)
        /\ Cardinality(committed) <= Cardinality(1..MaxHeals)
    BY <2>1, <2>3, FS_Injection
  <2>5. Cardinality(committed) \in Nat /\ Cardinality(1..MaxHeals) \in Nat
    BY <2>3, <2>4, FS_CardinalityType
  <2> QED
    BY <2>2, <2>3, <2>4, <2>5
<1>2. IInv => BreakerHolds
  BY <1>1 DEF IInv, Recorded, BreakerHolds
<1> QED
  BY <1>2, Invariance, PTL

\* A healing commit removes no edit that a developer pushed meanwhile.
THEOREM EditsAreKept == Spec => EditsSurvive
<1>1. IInv /\ [Next]_vars =>
        [\A f \in Files : branch[f] \cap Edits \subseteq branch'[f]]_vars
  <2> SUFFICES ASSUME IInv, Next, NEW f \in Files
               PROVE  branch[f] \cap Edits \subseteq branch'[f]
    OBVIOUS
  <2>1. branch \in [Files -> SUBSET (Edits \cup {Repair})]
    BY DEF IInv, TypeOK
  <2>2. CASE UNCHANGED branch
    BY <2>2
  <2>3. ASSUME NEW j \in Queue!JobIds, NEW lost \in BOOLEAN, Push(j, lost)
        PROVE  branch[f] \cap Edits \subseteq branch'[f]
    BY <2>1, <2>3 DEF Push, ShaMatches
  <2>4. ASSUME NEW g \in Files, NEW e \in Edits, Develop(g, e)
        PROVE  branch[f] \cap Edits \subseteq branch'[f]
    BY <2>1, <2>4, HealerAssumption DEF Develop
  <2> QED
    BY <2>2, <2>3, <2>4
    DEF Next, Handle, Skip, Reject, Enter, ReadFile, CallFails, Conflict,
        Announce, Escalate, Label, Deliver, Work, Kill, Exit, Restart, Forget,
        healVars
<1> QED
  BY <1>1, Invariance, PTL DEF Spec, EditsSurvive

-----------------------------------------------------------------------------
(* The healer's queue is the one of JobQueueProofs *)

LEMMA QueueAssumed == QP!QueueAssumption
BY HealerAssumption DEF QP!QueueAssumption

\* The two instances of JobQueue write the same file.
LEMMA SameFile ==
  /\ Queue!JobIds = QP!JobIds
  /\ Queue!EmptyFile = QP!EmptyFile
  /\ \A result, contents : Queue!Written(result, contents)
                             = QP!Written(result, contents)
  /\ Queue!Memory = QP!Memory
  /\ Queue!Memory' = QP!Memory'
BY DEF Queue!JobIds, QP!JobIds, Queue!EmptyTable, QP!EmptyTable, Queue!NoJob,
       QP!NoJob, Queue!Written, QP!Written, Queue!EmptyFile, QP!EmptyFile,
       Queue!Memory, QP!Memory

\* A check run's enqueue is one of the queue.
LEMMA EnqueueIsQueues ==
  ASSUME NEW k \in Keys
  PROVE  /\ Queue!EnqueueNew(k, "ok") => QP!EnqueueNew(k, "ok")
         /\ Queue!EnqueueDuplicate(k, "ok") => QP!EnqueueDuplicate(k, "ok")
<1>1. Queue!Holders(k) = QP!Holders(k)
  BY SameFile DEF Queue!Holders, QP!Holders, Queue!Active, QP!Active
<1>2. Queue!WriteResults = QP!WriteResults
  BY DEF Queue!WriteResults, QP!WriteResults
<1>3. Queue!CountFault("ok") <=> QP!CountFault("ok")
  BY DEF Queue!CountFault, QP!CountFault
<1> QED
  BY <1>1, <1>2, <1>3, SameFile
  DEF Queue!EnqueueNew, QP!EnqueueNew, Queue!EnqueueDuplicate,
      QP!EnqueueDuplicate

\* The worker's poll is one of the queue.
LEMMA PollIsQueues == Queue!Poll => QP!Poll
BY SameFile
DEF Queue!Poll, QP!Poll, Queue!PollEnabled, QP!PollEnabled, Queue!Batch,
    QP!Batch, Queue!BatchSize, QP!BatchSize, Queue!Slots, QP!Slots,
    Queue!Save, QP!Save

\* The end of a handler is one of the queue.
LEMMA SettleIsQueues ==
  ASSUME NEW j \in Queue!JobIds
  PROVE  Queue!Complete(j) \/ Queue!Fail(j) => QP!Settle(j)
<1>1. Queue!Save <=> QP!Save
  BY SameFile DEF Queue!Save, QP!Save
<1>2. Queue!HandlerDone(j) <=> QP!HandlerDone(j)
  BY DEF Queue!HandlerDone, QP!HandlerDone
<1>3. /\ Queue!FailedTable(j) = QP!FailedTable(j)
      /\ Queue!FailedDelayed(j) = QP!FailedDelayed(j)
  BY DEF Queue!FailedTable, QP!FailedTable, Queue!FailedDelayed,
         QP!FailedDelayed, Queue!Retryable, QP!Retryable
<1>4. /\ Queue!Complete(j) => QP!Complete(j)
      /\ Queue!Fail(j) => QP!Fail(j)
  BY <1>1, <1>2, <1>3
  DEF Queue!Complete, QP!Complete, Queue!Fail, QP!Fail
<1> QED
  BY <1>4 DEF QP!Settle

\* Time, death and return of the process are those of the queue.
LEMMA ProcessIsQueues ==
  /\ Queue!Elapse => QP!Elapse
  /\ Queue!Stop => QP!Stop
  /\ Queue!Exit => QP!Exit
  /\ Queue!Crash("error") => QP!Crash("error")
  /\ Queue!Restart => QP!Restart
  /\ Queue!Init => QP!Init
BY SameFile
DEF Queue!Elapse, QP!Elapse, Queue!Stop, QP!Stop, Queue!Exit, QP!Exit,
    Queue!Crash, QP!Crash, Queue!Die, QP!Die, Queue!Restart, QP!Restart,
    Queue!Init, QP!Init, Queue!EmptyTable, QP!EmptyTable, Queue!NoJob, QP!NoJob

\* Every step of the healer is a step of the queue, or leaves it alone.
LEMMA QueueStep == [Next]_vars => [QP!Next]_(QP!vars)
<1> USE SameFile
<1>1. UNCHANGED queueVars => UNCHANGED QP!vars
  BY DEF queueVars, QP!vars
<1>2. ASSUME NEW j \in Queue!JobIds, Handle(j)
      PROVE  [QP!Next]_(QP!vars)
  <2>1. Queue!Complete(j) \/ Queue!Fail(j) \/ UNCHANGED queueVars
    BY <1>2
    DEF Handle, Skip, Reject, Enter, ReadFile, CallFails, Push, Conflict,
        Announce, Escalate, Label, Healed, NotHealed
  <2>2. QP!Settle(j) => QP!Next
    BY DEF QP!Next
  <2> QED
    BY <1>1, <2>1, <2>2, SettleIsQueues
<1>3. ASSUME NEW k \in Keys, Deliver(k) PROVE QP!Next
  <2>1. QP!EnqueueNew(k, "ok") \/ QP!EnqueueDuplicate(k, "ok")
    BY <1>3, EnqueueIsQueues DEF Deliver
  <2> QED
    BY <2>1 DEF QP!Next
<1>4. Work => QP!Next
  <2>1. Work => QP!Poll \/ QP!Elapse \/ QP!Stop
    BY PollIsQueues, ProcessIsQueues DEF Work
  <2> QED
    BY <2>1 DEF QP!Next
<1>5. Kill \/ Exit \/ Restart => QP!Next
  <2>1. Kill \/ Exit \/ Restart => QP!Crash("error") \/ QP!Exit \/ QP!Restart
    BY ProcessIsQueues DEF Kill, Exit, Restart
  <2> QED
    BY <2>1 DEF QP!Next, QP!Faulty
<1> QED
  BY <1>1, <1>2, <1>3, <1>4, <1>5 DEF Next, Develop, vars

\* The healer's handlers, and what it does besides, use the queue as JobQueue
\* has it: every theorem of JobQueueProofs holds of the healer's queue.
THEOREM QueueRuns == Spec => QP!Spec
<1>1. Init => QP!Init
  BY ProcessIsQueues DEF Init
<1> QED
  BY <1>1, QueueStep, PTL DEF Spec, QP!Spec

\* So the healer's queue implements the attempt ledger: an attempt that repairs
\* nothing uses up some of the job's budget, and a job that settled is not
\* handled again.
THEOREM LedgerIsKept == Spec => QP!ImplementsLedger
BY QueueRuns, QP!Refinement, QueueAssumed, PTL

=============================================================================
