--------------------------- MODULE JobQueueProofs ---------------------------
(***************************************************************************)
(* Proofs about JobQueue for every number of jobs, keys, attempts, slots   *)
(* and faults: type correctness, one active job per dedupe key, the        *)
(* attempt budget across crashes, the file that never contradicts memory,  *)
(* and the refinement of AttemptLedger, all from one inductive invariant.  *)
(***************************************************************************)
EXTENDS JobQueue, SequenceTheorems, TLAPS

-----------------------------------------------------------------------------
(* The inductive invariant, by parts *)

\* The two sequences of a table list queued jobs only, and none twice.
Listed(table, first, second) ==
  /\ \A i \in 1..Len(first) : table[first[i]].status = "queued"
  /\ \A i \in 1..Len(second) : table[second[i]].status = "queued"
  /\ \A i, k \in 1..Len(first) : first[i] = first[k] => i = k
  /\ \A i, k \in 1..Len(second) : second[i] = second[k] => i = k
  /\ \A i \in 1..Len(first), k \in 1..Len(second) : first[i] # second[k]

\* A queued job has an attempt left.
BudgetLeft(table) ==
  \A j \in JobIds : table[j].status = "queued" => table[j].attempts < MaxAttempts

\* The table has counted every start of a job it knows.
CountsStarts(table) ==
  \A j \in JobIds : table[j].status # "none" => starts[j] <= table[j].attempts

UniqueActive(table) ==
  \A i, j \in JobIds :
     /\ table[i].status \in Active /\ table[j].status \in Active
     /\ table[i].key = table[j].key /\ table[i].key # NoKey
     => i = j

Sound(table, first, second) ==
  /\ Listed(table, first, second)
  /\ BudgetLeft(table)
  /\ CountsStarts(table)
  /\ UniqueActive(table)

\* An id that was not handed out yet is in no table and was never started.
Fresh ==
  \A j \in JobIds : j > created =>
     /\ job[j].status = "none"
     /\ file.job[j].status = "none"
     /\ starts[j] = 0

\* A dead process holds nothing.
DeadIsEmpty ==
  phase = "down" =>
    job = EmptyTable /\ ready = <<>> /\ delayed = <<>> /\ handlers = {}

HandlersRun == \A j \in handlers : job[j].status = "running"

NoFileInMemory == ~FileBacked => file = EmptyFile

IInv ==
  /\ TypeOK
  /\ Sound(job, ready, delayed)
  /\ Sound(file.job, file.ready, file.delayed)
  /\ Fresh
  /\ DeadIsEmpty
  /\ HandlersRun
  /\ FileAgrees
  /\ NoFileInMemory

-----------------------------------------------------------------------------
(* The empty file, and what a write leaves on disk *)

LEMMA EmptyFileType == EmptyFile \in FileType /\ EmptyTable \in [JobIds -> Job]
BY QueueAssumption DEF EmptyFile, FileType, EmptyTable, NoJob, Job, Statuses, Active, Terminal

LEMMA EmptySound == Sound(EmptyTable, <<>>, <<>>)
BY DEF Sound, Listed, BudgetLeft, CountsStarts, UniqueActive, EmptyTable, NoJob, Active

\* A write leaves the old file, an empty one or the new contents; the new
\* contents only on success.
LEMMA WrittenCases ==
  ASSUME NEW result \in {"ok"} \cup Faulty, NEW contents
  PROVE  /\ result = "ok" /\ FileBacked => Written(result, contents) = contents
         /\ ~FileBacked => Written(result, contents) = file
         /\ result # "ok" => Written(result, contents) \in {file, EmptyFile}
BY DEF Written, Faulty

-----------------------------------------------------------------------------
(* The process dies *)

\* A step in which the process dies, whatever write it was in.
LEMMA DieStep ==
  ASSUME IInv, Die,
         file' \in {file, EmptyFile},
         created' \in {created, created + 1}, created' <= MaxJobs,
         faults' \in Nat, succeeded' \subseteq JobIds,
         starts' = starts, accepted' = accepted
  PROVE  IInv'
<1>1. TypeOK'
  <2>1. file' \in FileType
    BY EmptyFileType DEF IInv, TypeOK
  <2>2. <<>> \in Seq(JobIds)
    OBVIOUS
  <2>3. created' \in 0..MaxJobs
    BY QueueAssumption DEF IInv, TypeOK
  <2> QED
    BY <2>1, <2>2, <2>3, EmptyFileType DEF IInv, TypeOK, Die
<1>2. Sound(job, ready, delayed)'
  BY DEF Sound, Listed, BudgetLeft, CountsStarts, UniqueActive, EmptyTable, NoJob, Active, Die
<1>3. Sound(file.job, file.ready, file.delayed)'
  <2>1. CASE file' = file
    BY <2>1 DEF IInv, Sound, Listed, BudgetLeft, CountsStarts, UniqueActive
  <2>2. CASE file' = EmptyFile
    BY <2>2 DEF Sound, Listed, BudgetLeft, CountsStarts, UniqueActive, EmptyFile,
                EmptyTable, NoJob, Active
  <2> QED
    BY <2>1, <2>2
<1>4. Fresh'
  <2> SUFFICES ASSUME NEW j \in JobIds, j > created'
               PROVE  job'[j].status = "none" /\ file'.job[j].status = "none" /\ starts'[j] = 0
    BY DEF Fresh
  <2>1. j > created
    BY QueueAssumption DEF IInv, TypeOK, JobIds
  <2>2. EmptyTable[j].status = "none" /\ EmptyFile.job[j].status = "none"
    BY DEF EmptyFile, EmptyTable, NoJob
  <2> QED
    BY <2>1, <2>2 DEF IInv, Fresh, Die
<1>5. DeadIsEmpty' /\ HandlersRun' /\ FileAgrees'
  BY DEF DeadIsEmpty, HandlersRun, FileAgrees, Die
<1>6. NoFileInMemory'
  BY DEF IInv, NoFileInMemory
<1> QED
  BY <1>1, <1>2, <1>3, <1>4, <1>5, <1>6 DEF IInv

-----------------------------------------------------------------------------
(* The process lives on *)

\* A step that leaves the process alive: if the new memory is sound, then so is
\* the file, be it the new memory, or an older file when no known job changed.
LEMMA AliveStep ==
  ASSUME IInv, TypeOK', phase # "down", phase' # "down",
         Sound(job, ready, delayed)', HandlersRun',
         created <= created',
         \A j \in JobIds : j > created' => job'[j].status = "none" /\ starts'[j] = 0,
         \/ FileBacked /\ file' = Memory'
         \/ ~FileBacked /\ file' = file
         \/ /\ FileBacked
            /\ file' \in {file, EmptyFile}
            /\ starts' = starts
            /\ \A j \in JobIds : job[j].status # "none" => job'[j] = job[j]
  PROVE  IInv'
<1>1. Sound(file.job, file.ready, file.delayed)' /\ FileAgrees'
  <2>1. CASE file' = Memory'
    BY <2>1 DEF Memory, Sound, Listed, BudgetLeft, CountsStarts, UniqueActive, FileAgrees
  <2>2. CASE file' = EmptyFile
    BY <2>2 DEF Sound, Listed, BudgetLeft, CountsStarts, UniqueActive, FileAgrees,
                EmptyFile, EmptyTable, NoJob, Active
  <2>3. CASE /\ file' = file
             /\ starts' = starts
             /\ \A j \in JobIds : job[j].status # "none" => job'[j] = job[j]
    <3>1. Sound(file.job, file.ready, file.delayed)'
      BY <2>3 DEF IInv, Sound, Listed, BudgetLeft, CountsStarts, UniqueActive
    <3>2. ASSUME NEW j \in JobIds, file.job[j].status # "none"
          PROVE  file'.job[j] = job'[j]
      <4>1. file.job[j] = job[j]
        BY <3>2 DEF IInv, FileAgrees
      <4> QED
        BY <2>3, <3>2, <4>1
    <3> QED
      BY <2>3, <3>1, <3>2 DEF FileAgrees
  <2> QED
    BY <2>1, <2>2, <2>3 DEF IInv, NoFileInMemory
<1>2. Fresh'
  <2> SUFFICES ASSUME NEW j \in JobIds, j > created'
               PROVE  file'.job[j].status = "none"
    BY DEF Fresh
  <2>1. j > created
    BY QueueAssumption DEF IInv, TypeOK, JobIds
  <2>2. file.job[j].status = "none" /\ EmptyFile.job[j].status = "none"
    BY <2>1 DEF IInv, Fresh, EmptyFile, EmptyTable, NoJob
  <2> QED
    BY <2>2 DEF Memory
<1>3. DeadIsEmpty' /\ NoFileInMemory'
  BY DEF IInv, DeadIsEmpty, NoFileInMemory
<1> QED
  BY <1>1, <1>2, <1>3 DEF IInv

\* Appending to a sequence of ids.
LEMMA AppendIds ==
  ASSUME NEW seq \in Seq(JobIds), NEW id \in JobIds
  PROVE  /\ Append(seq, id) \in Seq(JobIds)
         /\ Len(Append(seq, id)) = Len(seq) + 1
         /\ \A i \in 1..Len(seq) : Append(seq, id)[i] = seq[i]
         /\ Append(seq, id)[Len(seq) + 1] = id
BY AppendProperties

\* A job that becomes queued joins the end of either sequence: `first` here,
\* the lists stay as good when `table` changes at no listed id.
LEMMA ListedAppend ==
  ASSUME NEW table, NEW after, NEW first \in Seq(JobIds), NEW second \in Seq(JobIds),
         NEW id \in JobIds, Listed(table, first, second),
         \A i \in 1..Len(first) : first[i] # id,
         \A i \in 1..Len(second) : second[i] # id,
         after[id].status = "queued",
         \A j \in JobIds \ {id} : after[j] = table[j]
  PROVE  Listed(after, Append(first, id), second) /\ Listed(after, second, Append(first, id))
<1> DEFINE longer == Append(first, id)
<1>1. /\ Len(longer) = Len(first) + 1 /\ Len(first) \in Nat
      /\ \A i \in 1..Len(first) : longer[i] = first[i]
      /\ longer[Len(first) + 1] = id
  BY AppendIds
<1>2. \A i \in 1..Len(longer) : i \in 1..Len(first) \/ i = Len(first) + 1
  BY <1>1
<1>3. \A i \in 1..Len(first) : first[i] \in JobIds \ {id} /\ longer[i] = first[i]
  BY <1>1
<1>4. \A i \in 1..Len(second) : second[i] \in JobIds \ {id}
  OBVIOUS
<1> HIDE DEF longer
<1>5. \A i \in 1..Len(longer) : after[longer[i]].status = "queued"
  BY <1>1, <1>2, <1>3 DEF Listed
<1>6. \A i, k \in 1..Len(longer) : longer[i] = longer[k] => i = k
  BY <1>1, <1>2, <1>3 DEF Listed
<1>7. \A i \in 1..Len(longer), k \in 1..Len(second) : longer[i] # second[k]
  BY <1>1, <1>2, <1>3, <1>4 DEF Listed
<1>8. \A i \in 1..Len(second) : after[second[i]].status = "queued"
  BY <1>4 DEF Listed
<1>9. \A i, k \in 1..Len(second) : second[i] = second[k] => i = k
  BY DEF Listed
<1>10. Listed(after, longer, second) /\ Listed(after, second, longer)
  BY <1>5, <1>6, <1>7, <1>8, <1>9 DEF Listed
<1> QED
  BY <1>10 DEF longer

LEMMA EnqueueNewStep ==
  ASSUME IInv, NEW k \in Keys \cup {NoKey}, NEW result \in {"ok"} \cup Faulty,
         EnqueueNew(k, result)
  PROVE  IInv'
<1> DEFINE id == created'
<1>1. id \in JobIds /\ id = created + 1 /\ created <= created'
  BY QueueAssumption DEF IInv, TypeOK, EnqueueNew, JobIds
<1>2. job[id].status = "none" /\ starts[id] = 0
  BY <1>1 DEF IInv, TypeOK, Fresh
<1>3. /\ job' \in [JobIds -> Job]
      /\ job'[id] = [key |-> k, status |-> "queued", attempts |-> 0]
      /\ \A j \in JobIds \ {id} : job'[j] = job[j]
  BY <1>1, QueueAssumption DEF IInv, TypeOK, EnqueueNew, Job, Statuses, Active
<1>4. /\ ready' \in Seq(JobIds)
      /\ Len(ready') = Len(ready) + 1
      /\ \A i \in 1..Len(ready) : ready'[i] = ready[i]
      /\ ready'[Len(ready) + 1] = id
  BY <1>1, AppendIds DEF IInv, TypeOK, EnqueueNew
<1>5. TypeOK'
  <2>1. file' \in FileType
    <3>1. Memory' \in FileType
      BY <1>3, <1>4 DEF Memory, FileType, EnqueueNew, IInv, TypeOK
    <3> QED
      BY <3>1, EmptyFileType DEF EnqueueNew, Written, IInv, TypeOK
  <2>2. accepted' \subseteq JobIds
    BY <1>1 DEF EnqueueNew, IInv, TypeOK
  <2>3. faults' \in Nat
    BY DEF EnqueueNew, CountFault, IInv, TypeOK
  <2>4. created' \in 0..MaxJobs
    BY <1>1, QueueAssumption DEF IInv, TypeOK, JobIds
  <2> QED
    BY <1>3, <1>4, <2>1, <2>2, <2>3, <2>4 DEF IInv, TypeOK, EnqueueNew
<1>6. Sound(job, ready, delayed)'
  <2>1. \A i \in 1..Len(ready) : ready[i] \in JobIds \ {id}
    BY <1>2 DEF IInv, TypeOK, Sound, Listed
  <2>2. \A i \in 1..Len(delayed) : delayed[i] \in JobIds \ {id}
    BY <1>2 DEF IInv, TypeOK, Sound, Listed
  <2>3. Listed(job, ready, delayed)'
    <3>1. ready \in Seq(JobIds) /\ delayed \in Seq(JobIds) /\ Listed(job, ready, delayed)
      BY DEF IInv, TypeOK, Sound
    <3>2. Listed(job', Append(ready, id), delayed)
      <4> HIDE DEF id
      <4> QED
        BY <1>1, <1>3, <2>1, <2>2, <3>1, ListedAppend
    <3> QED
      BY <3>2 DEF EnqueueNew, Listed
  <2>4. BudgetLeft(job)' /\ CountsStarts(job)'
    BY <1>2, <1>3, QueueAssumption DEF IInv, Sound, BudgetLeft, CountsStarts, EnqueueNew
  <2>5. UniqueActive(job)'
    <3>1. k # NoKey => \A j \in JobIds : ~(job[j].key = k /\ job[j].status \in Active)
      BY DEF EnqueueNew, Holders
    <3> QED
      BY <1>3, <3>1 DEF IInv, Sound, UniqueActive
  <2> QED
    BY <2>3, <2>4, <2>5 DEF Sound
<1>7. HandlersRun'
  BY <1>2, <1>3 DEF IInv, TypeOK, HandlersRun, EnqueueNew
<1>8. \A j \in JobIds : j > created' => job'[j].status = "none" /\ starts'[j] = 0
  <2> SUFFICES ASSUME NEW j \in JobIds, j > id
               PROVE  job'[j].status = "none" /\ starts'[j] = 0
    OBVIOUS
  <2>1. j > created /\ j # id
    BY <1>1, QueueAssumption DEF IInv, TypeOK, JobIds
  <2> QED
    BY <1>3, <2>1 DEF IInv, Fresh, EnqueueNew
<1>9. \A j \in JobIds : job[j].status # "none" => job'[j] = job[j]
  BY <1>2, <1>3
<1>10. /\ phase # "down" /\ phase' # "down" /\ starts' = starts
       /\ \/ FileBacked /\ file' = Memory'
          \/ ~FileBacked /\ file' = file
          \/ FileBacked /\ file' \in {file, EmptyFile}
  BY QueueAssumption DEF EnqueueNew, Written, Faulty
<1> QED
  BY <1>1, <1>5, <1>6, <1>7, <1>8, <1>9, <1>10, AliveStep

LEMMA EnqueueDuplicateStep ==
  ASSUME IInv, NEW k \in Keys \cup {NoKey}, NEW result \in {"ok"} \cup Faulty,
         EnqueueDuplicate(k, result)
  PROVE  IInv'
<1>1. file' \in FileType /\ faults' \in Nat
  BY EmptyFileType
     DEF EnqueueDuplicate, CountFault, Written, Memory, FileType, IInv, TypeOK
<1>2. TypeOK'
  BY <1>1 DEF EnqueueDuplicate, IInv, TypeOK
<1>3. Sound(job, ready, delayed)' /\ HandlersRun'
  BY DEF EnqueueDuplicate, IInv, Sound, Listed, BudgetLeft, CountsStarts, UniqueActive,
         HandlersRun
<1>4. /\ phase # "down" /\ phase' # "down" /\ starts' = starts
      /\ created' = created /\ created <= created' /\ job' = job
  BY DEF EnqueueDuplicate, IInv, TypeOK
<1>5. \/ FileBacked /\ file' = Memory'
      \/ ~FileBacked /\ file' = file
      \/ FileBacked /\ file' \in {file, EmptyFile}
  BY QueueAssumption DEF EnqueueDuplicate, Written, Faulty, Memory
<1>6. \A j \in JobIds : j > created' => job'[j].status = "none" /\ starts'[j] = 0
  BY <1>4 DEF IInv, Fresh
<1> QED
  BY <1>2, <1>3, <1>4, <1>5, <1>6, AliveStep

-----------------------------------------------------------------------------
(* The steps in which the process dies *)

LEMMA EnqueueFatalStep ==
  ASSUME IInv, NEW result \in Faulty, EnqueueFatal(result)
  PROVE  IInv'
<1>1. file' \in {file, EmptyFile}
  BY WrittenCases DEF EnqueueFatal, Written, Faulty
<1>2. created' \in {created, created + 1} /\ created' <= MaxJobs
  BY QueueAssumption DEF EnqueueFatal, IInv, TypeOK
<1>3. faults' \in Nat /\ succeeded' \subseteq JobIds
  BY DEF EnqueueFatal, CountFault, IInv, TypeOK
<1> QED
  BY <1>1, <1>2, <1>3, DieStep DEF EnqueueFatal

LEMMA PollFatalStep ==
  ASSUME IInv, NEW result \in Faulty, PollFatal(result)
  PROVE  IInv'
<1>1. file' \in {file, EmptyFile}
  BY DEF PollFatal, Written, Faulty
<1>2. created' \in {created, created + 1} /\ created' <= MaxJobs
  BY QueueAssumption DEF PollFatal, IInv, TypeOK
<1>3. faults' \in Nat /\ succeeded' \subseteq JobIds
  BY DEF PollFatal, CountFault, IInv, TypeOK
<1> QED
  BY <1>1, <1>2, <1>3, DieStep DEF PollFatal

LEMMA FailFatalStep ==
  ASSUME IInv, NEW j \in JobIds, NEW first \in {"ok"} \cup Faulty, NEW result \in Faulty,
         FailFatal(j, first, result)
  PROVE  IInv'
<1>1. file' \in {file, EmptyFile}
  BY DEF FailFatal
<1>2. created' \in {created, created + 1} /\ created' <= MaxJobs
  BY QueueAssumption DEF FailFatal, IInv, TypeOK
<1>3. faults' \in Nat /\ succeeded' \subseteq JobIds
  BY DEF FailFatal, IInv, TypeOK
<1> QED
  BY <1>1, <1>2, <1>3, DieStep DEF FailFatal

LEMMA CrashStep ==
  ASSUME IInv, NEW result \in Faulty, Crash(result)
  PROVE  IInv'
<1>1. file' \in {file, EmptyFile}
  BY DEF Crash, Written, Faulty
<1>2. created' \in {created, created + 1} /\ created' <= MaxJobs
  BY QueueAssumption DEF Crash, IInv, TypeOK
<1>3. faults' \in Nat /\ succeeded' \subseteq JobIds
  BY DEF Crash, IInv, TypeOK
<1> QED
  BY <1>1, <1>2, <1>3, DieStep DEF Crash

LEMMA ExitStep ==
  ASSUME IInv, Exit
  PROVE  IInv'
<1>1. created' \in {created, created + 1} /\ created' <= MaxJobs
  BY QueueAssumption DEF Exit, IInv, TypeOK
<1>2. faults' \in Nat /\ succeeded' \subseteq JobIds
  BY DEF Exit, IInv, TypeOK
<1> QED
  BY <1>1, <1>2, DieStep DEF Exit

-----------------------------------------------------------------------------
(* A handler settles *)

\* The table changes at one id that no sequence lists.
LEMMA ListedElsewhere ==
  ASSUME NEW table, NEW after, NEW first \in Seq(JobIds), NEW second \in Seq(JobIds),
         NEW id \in JobIds, Listed(table, first, second), table[id].status # "queued",
         \A j \in JobIds \ {id} : after[j] = table[j]
  PROVE  /\ Listed(after, first, second)
         /\ \A i \in 1..Len(first) : first[i] # id
         /\ \A i \in 1..Len(second) : second[i] # id
<1>1. /\ \A i \in 1..Len(first) : first[i] \in JobIds \ {id}
      /\ \A i \in 1..Len(second) : second[i] \in JobIds \ {id}
  BY DEF Listed
<1> QED
  BY <1>1 DEF Listed

\* What the three ways of settling have in common.
LEMMA HandlerFacts ==
  ASSUME IInv, NEW j \in handlers
  PROVE  /\ j \in JobIds
         /\ job[j].status = "running"
         /\ phase # "down"
         /\ \A i \in JobIds : i > created => job[i].status = "none" /\ starts[i] = 0 /\ i # j
BY DEF IInv, TypeOK, HandlersRun, DeadIsEmpty, Fresh

LEMMA CompleteStep ==
  ASSUME IInv, NEW j \in JobIds, Complete(j)
  PROVE  IInv'
<1>1. /\ job[j].status = "running" /\ phase # "down"
      /\ \A i \in JobIds : i > created => job[i].status = "none" /\ starts[i] = 0 /\ i # j
  BY HandlerFacts DEF Complete
<1>2. /\ job' \in [JobIds -> Job]
      /\ job'[j] = [job[j] EXCEPT !.status = "completed"]
      /\ \A i \in JobIds \ {j} : job'[i] = job[i]
  BY DEF Complete, IInv, TypeOK, Job, Statuses, Terminal
<1>3. TypeOK'
  <2>1. Memory' \in FileType
    BY <1>2 DEF Memory, FileType, Complete, IInv, TypeOK
  <2>2. file' \in FileType
    BY <2>1 DEF Complete, Save, Written, IInv, TypeOK
  <2> QED
    BY <1>2, <2>2 DEF Complete, HandlerDone, IInv, TypeOK
<1>4. Sound(job, ready, delayed)'
  <2>1. Listed(job', ready, delayed)
    BY <1>1, <1>2, ListedElsewhere DEF IInv, TypeOK, Sound
  <2>2. job'[j].status = "completed" /\ job'[j].attempts = job[j].attempts
    BY <1>2 DEF IInv, TypeOK, Job
  <2>3. BudgetLeft(job)' /\ CountsStarts(job)'
    BY <1>1, <1>2, <2>2 DEF IInv, Sound, BudgetLeft, CountsStarts, Complete
  <2>4. UniqueActive(job)'
    BY <1>2, <2>2 DEF IInv, Sound, UniqueActive, Active
  <2> QED
    BY <2>1, <2>3, <2>4 DEF Sound, Listed, Complete
<1>5. HandlersRun'
  BY <1>2 DEF Complete, HandlerDone, IInv, TypeOK, HandlersRun
<1>6. \A i \in JobIds : i > created' => job'[i].status = "none" /\ starts'[i] = 0
  BY <1>1, <1>2 DEF Complete
<1>7. /\ phase' # "down" /\ created <= created'
      /\ \/ FileBacked /\ file' = Memory'
         \/ ~FileBacked /\ file' = file
  BY <1>1, QueueAssumption DEF Complete, Save, Written, IInv, TypeOK
<1> QED
  BY <1>1, <1>3, <1>4, <1>5, <1>6, <1>7, AliveStep

\* failJob, after a rejected handler or after a completion that was not saved.
LEMMA FailedStep ==
  ASSUME IInv, NEW j \in handlers,
         job' = FailedTable(j), delayed' = FailedDelayed(j), ready' = ready,
         phase' = phase, Save, HandlerDone(j),
         created' = created, faults' \in Nat, starts' = starts,
         succeeded' \subseteq JobIds, accepted' = accepted
  PROVE  IInv'
<1>1. /\ job[j].status = "running" /\ phase # "down" /\ j \in JobIds
      /\ \A i \in JobIds : i > created => job[i].status = "none" /\ starts[i] = 0 /\ i # j
  BY HandlerFacts
<1>2. /\ job' \in [JobIds -> Job]
      /\ job'[j].status = IF Retryable(j) THEN "queued" ELSE "failed"
      /\ job'[j].key = job[j].key /\ job'[j].attempts = job[j].attempts
      /\ \A i \in JobIds \ {j} : job'[i] = job[i]
  BY <1>1 DEF FailedTable, IInv, TypeOK, Job, Statuses, Active, Terminal
<1>3. TypeOK'
  <2>1. delayed' \in Seq(JobIds)
    BY <1>1 DEF FailedDelayed, IInv, TypeOK
  <2>2. Memory' \in FileType
    BY <1>2, <2>1 DEF Memory, FileType, IInv, TypeOK
  <2>3. file' \in FileType
    BY <2>2 DEF Save, Written, IInv, TypeOK
  <2> QED
    BY <1>2, <2>1, <2>3 DEF HandlerDone, IInv, TypeOK
<1>4. Sound(job, ready, delayed)'
  <2>1. ready \in Seq(JobIds) /\ delayed \in Seq(JobIds) /\ Listed(job, ready, delayed)
    BY DEF IInv, TypeOK, Sound
  <2>2. /\ Listed(job', ready, delayed)
        /\ \A i \in 1..Len(ready) : ready[i] # j
        /\ \A i \in 1..Len(delayed) : delayed[i] # j
    BY <1>1, <1>2, <2>1, ListedElsewhere
  <2>3. Listed(job, delayed, ready)
    BY <2>1 DEF Listed
  <2>4. Listed(job', ready, delayed')
    <3>1. CASE Retryable(j)
      <4>1. job'[j].status = "queued"
        BY <1>2, <3>1
      <4>2. Listed(job', ready, Append(delayed, j))
        BY <1>1, <1>2, <2>1, <2>2, <2>3, <4>1, ListedAppend
      <4> QED
        BY <3>1, <4>2 DEF FailedDelayed
    <3>2. CASE ~Retryable(j)
      BY <2>2, <3>2 DEF FailedDelayed
    <3> QED
      BY <3>1, <3>2
  <2>5. BudgetLeft(job)'
    BY <1>1, <1>2 DEF IInv, Sound, BudgetLeft, Retryable
  <2>6. CountsStarts(job)'
    BY <1>1, <1>2 DEF IInv, Sound, CountsStarts
  <2>7. UniqueActive(job)'
    <3>1. \A i \in JobIds : /\ job'[i].key = job[i].key
                            /\ job'[i].status \in Active => job[i].status \in Active
      BY <1>1, <1>2 DEF Active
    <3> QED
      BY <3>1 DEF IInv, Sound, UniqueActive
  <2> QED
    BY <2>4, <2>5, <2>6, <2>7 DEF Sound, Listed
<1>5. HandlersRun'
  BY <1>2 DEF HandlerDone, IInv, TypeOK, HandlersRun
<1>6. \A i \in JobIds : i > created' => job'[i].status = "none" /\ starts'[i] = 0
  BY <1>1, <1>2
<1>7. /\ phase' # "down" /\ created <= created'
      /\ \/ FileBacked /\ file' = Memory'
         \/ ~FileBacked /\ file' = file
  BY <1>1, QueueAssumption DEF Save, Written, IInv, TypeOK
<1> QED
  BY <1>1, <1>3, <1>4, <1>5, <1>6, <1>7, AliveStep

-----------------------------------------------------------------------------
(* A claim *)

\* The batch is a non-empty prefix of `ready`; what is left keeps its order.
LEMMA BatchFacts ==
  ASSUME IInv, PollEnabled
  PROVE  /\ BatchSize \in 1..Len(ready)
         /\ SubSeq(ready, BatchSize + 1, Len(ready)) \in Seq(JobIds)
         /\ Len(SubSeq(ready, BatchSize + 1, Len(ready))) = Len(ready) - BatchSize
         /\ \A i \in 1..Len(ready) - BatchSize :
               SubSeq(ready, BatchSize + 1, Len(ready))[i] = ready[i + BatchSize]
         /\ Batch \subseteq JobIds
         /\ \A j \in Batch : job[j].status = "queued"
<1>1. ready \in Seq(JobIds) /\ ready # <<>> /\ Len(ready) \in Nat /\ Len(ready) > 0
  BY DEF IInv, TypeOK, PollEnabled
<1>2. BatchSize \in 1..Len(ready)
  BY <1>1, QueueAssumption DEF BatchSize, Slots, PollEnabled, IInv, TypeOK
<1> HIDE DEF BatchSize
<1>3. \A i \in BatchSize + 1..Len(ready) : ready[i] \in JobIds
  BY <1>1, <1>2
<1>4. /\ SubSeq(ready, BatchSize + 1, Len(ready)) \in Seq(JobIds)
      /\ Len(SubSeq(ready, BatchSize + 1, Len(ready))) = Len(ready) - BatchSize
      /\ \A i \in 1..Len(ready) - BatchSize :
            SubSeq(ready, BatchSize + 1, Len(ready))[i] = ready[i + BatchSize]
  BY <1>1, <1>2, <1>3, SubSeqProperties
<1>5. Batch \subseteq JobIds /\ \A j \in Batch : job[j].status = "queued"
  BY <1>1, <1>2 DEF Batch, IInv, Sound, Listed
<1> QED
  BY <1>2, <1>4, <1>5

LEMMA PollStep ==
  ASSUME IInv, Poll
  PROVE  IInv'
<1> DEFINE rest == SubSeq(ready, BatchSize + 1, Len(ready))
<1>1. /\ BatchSize \in 1..Len(ready)
      /\ rest \in Seq(JobIds)
      /\ Len(rest) = Len(ready) - BatchSize
      /\ \A i \in 1..Len(ready) - BatchSize : rest[i] = ready[i + BatchSize]
      /\ Batch \subseteq JobIds
      /\ \A j \in Batch : job[j].status = "queued"
  BY BatchFacts DEF Poll
<1>2. ready' = rest /\ Len(ready) \in Nat /\ delayed' = delayed
  <2>1. ready' = rest /\ delayed' = delayed
    BY DEF Poll
  <2>2. Len(ready) \in Nat
    BY LenProperties DEF IInv, TypeOK
  <2> QED
    BY <2>1, <2>2
<1> HIDE DEF rest
<1>3. \A j \in Batch : job[j].attempts + 1 \in 0..MaxAttempts /\ starts[j] <= job[j].attempts
  BY <1>1, QueueAssumption DEF IInv, TypeOK, Sound, BudgetLeft, CountsStarts, Job
<1>4. /\ \A j \in Batch : /\ job'[j].key = job[j].key
                          /\ job'[j].status = "running"
                          /\ job'[j].attempts = job[j].attempts + 1
                          /\ job'[j] \in Job
                          /\ starts'[j] = starts[j] + 1
      /\ \A j \in JobIds \ Batch : job'[j] = job[j] /\ starts'[j] = starts[j]
  BY <1>1, <1>3 DEF Poll, IInv, TypeOK, Job, Statuses, Active
<1>5. job' \in [JobIds -> Job]
  BY <1>4 DEF Poll, IInv, TypeOK
<1>6. starts' \in [JobIds -> 0..MaxAttempts]
  <2>1. \A j \in Batch : starts'[j] \in 0..MaxAttempts
    <3> SUFFICES ASSUME NEW j \in Batch PROVE starts'[j] \in 0..MaxAttempts
      OBVIOUS
    <3>1. job[j].attempts \in Nat /\ starts[j] \in Nat
      BY <1>1 DEF IInv, TypeOK, Job
    <3> QED
      BY <1>3, <1>4, <3>1, QueueAssumption
  <2> QED
    BY <1>4, <2>1 DEF Poll, IInv, TypeOK
<1>7. TypeOK'
  <2>1. Memory' \in FileType
    BY <1>1, <1>2, <1>5 DEF Memory, FileType, IInv, TypeOK
  <2>2. file' \in FileType
    BY <2>1 DEF Poll, Save, Written, IInv, TypeOK
  <2>3. inFlight' \in Int
    <3>1. BatchSize \in Int /\ inFlight \in Int
      BY <1>1, <1>2 DEF IInv, TypeOK
    <3>2. inFlight' = inFlight + BatchSize
      BY DEF Poll
    <3> QED
      BY <3>1, <3>2
  <2> QED
    BY <1>1, <1>2, <1>5, <1>6, <2>2, <2>3 DEF Poll, IInv, TypeOK
<1>8. Listed(job, ready, delayed)'
  <2>1. ready \in Seq(JobIds) /\ delayed \in Seq(JobIds) /\ Listed(job, ready, delayed)
    BY DEF IInv, TypeOK, Sound
  <2>2. \A i \in 1..Len(rest) : i + BatchSize \in 1..Len(ready) /\ rest[i] = ready[i + BatchSize]
    <3> SUFFICES ASSUME NEW i \in 1..Len(rest)
                 PROVE  i + BatchSize \in 1..Len(ready) /\ rest[i] = ready[i + BatchSize]
      OBVIOUS
    <3>1. i \in 1..Len(ready) - BatchSize
      BY <1>1
    <3>2. i + BatchSize \in 1..Len(ready)
      BY <1>1, <1>2, <3>1
    <3> QED
      BY <1>1, <3>1, <3>2
  <2>3. \A i \in 1..Len(rest) : rest[i] \in JobIds \ Batch
    <3> SUFFICES ASSUME NEW i \in 1..Len(rest), rest[i] \in Batch PROVE FALSE
      BY <1>1, <1>2
    <3>1. PICK k \in 1..BatchSize : rest[i] = ready[k]
      BY DEF Batch
    <3>2. k \in 1..Len(ready) /\ k # i + BatchSize
      BY <1>1, <1>2
    <3> QED
      BY <2>1, <2>2, <3>1, <3>2 DEF Listed
  <2>4. \A i \in 1..Len(delayed) : delayed[i] \in JobIds \ Batch
    <3> SUFFICES ASSUME NEW i \in 1..Len(delayed), delayed[i] \in Batch PROVE FALSE
      BY <2>1
    <3>1. PICK k \in 1..BatchSize : delayed[i] = ready[k]
      BY DEF Batch
    <3>2. k \in 1..Len(ready)
      BY <1>1, <1>2
    <3> QED
      BY <2>1, <3>1, <3>2 DEF Listed
  <2>5. \A i \in 1..Len(rest) : job'[rest[i]].status = "queued"
    BY <1>4, <2>1, <2>2, <2>3 DEF Listed
  <2>6. \A i \in 1..Len(delayed) : job'[delayed[i]].status = "queued"
    BY <1>4, <2>1, <2>4 DEF Listed
  <2>7. \A i, k \in 1..Len(rest) : rest[i] = rest[k] => i = k
    <3> SUFFICES ASSUME NEW i \in 1..Len(rest), NEW k \in 1..Len(rest), rest[i] = rest[k]
                 PROVE  i = k
      OBVIOUS
    <3>1. i + BatchSize = k + BatchSize
      BY <2>1, <2>2 DEF Listed
    <3> QED
      BY <1>1, <3>1
  <2>8. \A i \in 1..Len(rest), k \in 1..Len(delayed) : rest[i] # delayed[k]
    BY <2>1, <2>2 DEF Listed
  <2> QED
    BY <1>2, <2>1, <2>5, <2>6, <2>7, <2>8 DEF Listed
<1>9. BudgetLeft(job)'
  <2> SUFFICES ASSUME NEW j \in JobIds, job'[j].status = "queued"
               PROVE  job'[j].attempts < MaxAttempts
    BY DEF BudgetLeft
  <2> QED
    BY <1>4 DEF IInv, Sound, BudgetLeft
<1>10. CountsStarts(job)'
  <2> SUFFICES ASSUME NEW j \in JobIds, job'[j].status # "none"
               PROVE  starts'[j] <= job'[j].attempts
    BY DEF CountsStarts
  <2>1. CASE j \in Batch
    <3>1. job[j].attempts \in Nat /\ starts[j] \in Nat
      BY DEF IInv, TypeOK, Job
    <3> QED
      BY <1>3, <1>4, <2>1, <3>1
  <2>2. CASE j \notin Batch
    BY <1>4, <2>2 DEF IInv, Sound, CountsStarts
  <2> QED
    BY <2>1, <2>2
<1>11. UniqueActive(job)'
  <2>1. \A j \in JobIds : /\ job'[j].key = job[j].key
                          /\ job'[j].status \in Active => job[j].status \in Active
    BY <1>1, <1>4 DEF Active
  <2> QED
    BY <2>1 DEF IInv, Sound, UniqueActive
<1>12. HandlersRun'
  BY <1>1, <1>4 DEF Poll, IInv, TypeOK, HandlersRun
<1>13. \A j \in JobIds : j > created' => job'[j].status = "none" /\ starts'[j] = 0
  BY <1>1, <1>4 DEF Poll, IInv, Fresh
<1>14. /\ phase # "down" /\ phase' # "down" /\ created <= created'
       /\ \/ FileBacked /\ file' = Memory'
          \/ ~FileBacked /\ file' = file
  <2>1. phase # "down" /\ phase' # "down" /\ created' = created
    BY DEF Poll, PollEnabled
  <2>2. created <= created'
    BY <2>1, QueueAssumption DEF IInv, TypeOK
  <2>3. \/ FileBacked /\ file' = Memory'
        \/ ~FileBacked /\ file' = file
    BY QueueAssumption DEF Poll, Save, Written
  <2> QED
    BY <2>1, <2>2, <2>3
<1> QED
  BY <1>7, <1>8, <1>9, <1>10, <1>11, <1>12, <1>13, <1>14, AliveStep DEF Sound

-----------------------------------------------------------------------------
(* Time, and the process *)

LEMMA ElapseStep ==
  ASSUME IInv, Elapse
  PROVE  IInv'
<1> DEFINE id == Head(delayed)
           rest == Tail(delayed)
<1>1. /\ ready \in Seq(JobIds) /\ delayed \in Seq(JobIds) /\ delayed # <<>>
      /\ Listed(job, ready, delayed)
  BY DEF Elapse, IInv, TypeOK, Sound
<1>2. /\ id \in JobIds /\ rest \in Seq(JobIds)
      /\ Len(rest) = Len(delayed) - 1
      /\ \A i \in 1..Len(rest) : rest[i] = delayed[i + 1]
  BY <1>1, HeadTailProperties
<1>3. Len(delayed) \in Nat /\ Len(delayed) > 0 /\ id = delayed[1]
  BY <1>1
<1>4. Append(ready, id) \in Seq(JobIds)
  BY <1>1, <1>2
<1>5. ready' = Append(ready, id) /\ delayed' = rest
  BY DEF Elapse
<1> HIDE DEF id, rest
<1>6. \A i \in 1..Len(rest) : i + 1 \in 1..Len(delayed) /\ i + 1 # 1
  BY <1>2, <1>3
<1>7. 1 \in 1..Len(delayed)
  BY <1>3
<1>8. Listed(job, ready, rest)
  <2>1. \A i \in 1..Len(rest) : job[rest[i]].status = "queued"
    BY <1>1, <1>2, <1>6 DEF Listed
  <2>2. \A i, k \in 1..Len(rest) : rest[i] = rest[k] => i = k
    <3> SUFFICES ASSUME NEW i \in 1..Len(rest), NEW k \in 1..Len(rest), rest[i] = rest[k]
                 PROVE  i = k
      OBVIOUS
    <3>1. i + 1 = k + 1
      BY <1>1, <1>2, <1>6 DEF Listed
    <3> QED
      BY <3>1
  <2>3. \A i \in 1..Len(ready), k \in 1..Len(rest) : ready[i] # rest[k]
    BY <1>1, <1>2, <1>6 DEF Listed
  <2> QED
    BY <1>1, <2>1, <2>2, <2>3 DEF Listed
<1>9. Listed(job, Append(ready, id), rest)
  <2>1. \A i \in 1..Len(ready) : ready[i] # id
    BY <1>1, <1>3, <1>7 DEF Listed
  <2>2. \A i \in 1..Len(rest) : rest[i] # id
    BY <1>1, <1>2, <1>3, <1>6, <1>7 DEF Listed
  <2>3. job[id].status = "queued"
    BY <1>1, <1>3, <1>7 DEF Listed
  <2> QED
    BY <1>1, <1>2, <1>8, <2>1, <2>2, <2>3, ListedAppend
<1>10. job' = job /\ starts' = starts /\ handlers' = handlers /\ created' = created
  BY DEF Elapse
<1>11. TypeOK'
  BY <1>2, <1>4, <1>5, <1>10 DEF Elapse, IInv, TypeOK
<1>12. Sound(job, ready, delayed)'
  BY <1>5, <1>9, <1>10 DEF IInv, Sound, Listed, BudgetLeft, CountsStarts, UniqueActive
<1>13. HandlersRun' /\ \A j \in JobIds : j > created' => job'[j].status = "none" /\ starts'[j] = 0
  BY <1>10 DEF IInv, HandlersRun, Fresh
<1>14. phase # "down" /\ phase' # "down" /\ created <= created' /\ file' = file
  BY <1>10 DEF Elapse, IInv, TypeOK
<1> QED
  BY <1>10, <1>11, <1>12, <1>13, <1>14, QueueAssumption, AliveStep

LEMMA StopStep ==
  ASSUME IInv, Stop
  PROVE  IInv'
<1>1. TypeOK'
  BY DEF Stop, IInv, TypeOK
<1>2. /\ Sound(job, ready, delayed)'
      /\ HandlersRun' /\ \A j \in JobIds : j > created' => job'[j].status = "none" /\ starts'[j] = 0
  BY DEF Stop, IInv, Sound, Listed, BudgetLeft, CountsStarts, UniqueActive, HandlersRun, Fresh
<1>3. /\ phase # "down" /\ phase' # "down" /\ created <= created'
      /\ file' = file /\ job' = job /\ starts' = starts
  BY DEF Stop, IInv, TypeOK
<1> QED
  BY <1>1, <1>2, <1>3, QueueAssumption, AliveStep

LEMMA RestartStep ==
  ASSUME IInv, Restart
  PROVE  IInv'
<1>1. TypeOK'
  BY DEF Restart, IInv, TypeOK, FileType
<1>2. Sound(job, ready, delayed)' /\ Sound(file.job, file.ready, file.delayed)'
  BY DEF Restart, IInv, Sound, Listed, BudgetLeft, CountsStarts, UniqueActive
<1>3. Fresh' /\ DeadIsEmpty' /\ FileAgrees' /\ NoFileInMemory'
  BY DEF Restart, IInv, Fresh, DeadIsEmpty, FileAgrees, NoFileInMemory
<1>4. HandlersRun'
  BY DEF Restart, IInv, DeadIsEmpty, HandlersRun
<1> QED
  BY <1>1, <1>2, <1>3, <1>4 DEF IInv

LEMMA StutterStep ==
  ASSUME IInv, UNCHANGED vars
  PROVE  IInv'
BY DEF vars, IInv, TypeOK, Sound, Listed, BudgetLeft, CountsStarts, UniqueActive, Fresh,
       DeadIsEmpty, HandlersRun, FileAgrees, NoFileInMemory

-----------------------------------------------------------------------------
(* Invariance *)

LEMMA InitInv == Init => IInv
<1> SUFFICES ASSUME Init PROVE IInv
  OBVIOUS
<1>1. TypeOK
  BY EmptyFileType, QueueAssumption DEF Init, TypeOK
<1>2. Sound(job, ready, delayed)
  BY EmptySound DEF Init
<1>3. Sound(file.job, file.ready, file.delayed)
  BY EmptySound DEF Init, EmptyFile
<1>4. Fresh
  BY DEF Init, Fresh, EmptyFile, EmptyTable, NoJob
<1>5. DeadIsEmpty /\ HandlersRun /\ FileAgrees /\ NoFileInMemory
  BY DEF Init, DeadIsEmpty, HandlersRun, FileAgrees, NoFileInMemory, EmptyFile
<1> QED
  BY <1>1, <1>2, <1>3, <1>4, <1>5 DEF IInv

LEMMA SettleStep ==
  ASSUME IInv, NEW j \in JobIds, Settle(j)
  PROVE  IInv'
<1>1. CASE Complete(j)
  BY <1>1, CompleteStep
<1>2. CASE Fail(j)
  <2>1. j \in handlers /\ faults' \in Nat /\ succeeded' \subseteq JobIds
    BY <1>2 DEF Fail, IInv, TypeOK
  <2> QED
    BY <1>2, <2>1, FailedStep DEF Fail
<1>3. CASE \E result \in Faulty : CompleteUnsaved(j, result)
  <2>1. PICK result \in Faulty : CompleteUnsaved(j, result)
    BY <1>3
  <2>2. j \in handlers /\ faults' \in Nat /\ succeeded' \subseteq JobIds
    BY <2>1 DEF CompleteUnsaved, CountFault, IInv, TypeOK
  <2> QED
    BY <2>1, <2>2, FailedStep DEF CompleteUnsaved
<1>4. CASE \E result \in Faulty, first \in {"ok"} \cup Faulty : FailFatal(j, first, result)
  BY <1>4, FailFatalStep
<1> QED
  BY <1>1, <1>2, <1>3, <1>4 DEF Settle

LEMMA NextInv == IInv /\ [Next]_vars => IInv'
<1> SUFFICES ASSUME IInv, [Next]_vars PROVE IInv'
  OBVIOUS
<1>1. CASE \E k \in Keys \cup {NoKey}, result \in {"ok"} \cup Faulty :
              EnqueueNew(k, result) \/ EnqueueDuplicate(k, result)
  BY <1>1, EnqueueNewStep, EnqueueDuplicateStep
<1>2. CASE \E result \in Faulty : EnqueueFatal(result)
  BY <1>2, EnqueueFatalStep
<1>3. CASE Poll
  BY <1>3, PollStep
<1>4. CASE \E result \in Faulty : PollFatal(result)
  BY <1>4, PollFatalStep
<1>5. CASE \E j \in JobIds : Settle(j)
  BY <1>5, SettleStep
<1>6. CASE Elapse
  BY <1>6, ElapseStep
<1>7. CASE \E result \in Faulty : Crash(result)
  BY <1>7, CrashStep
<1>8. CASE Stop
  BY <1>8, StopStep
<1>9. CASE Exit
  BY <1>9, ExitStep
<1>10. CASE Restart
  BY <1>10, RestartStep
<1>11. CASE UNCHANGED vars
  BY <1>11, StutterStep
<1> QED
  BY <1>1, <1>2, <1>3, <1>4, <1>5, <1>6, <1>7, <1>8, <1>9, <1>10, <1>11 DEF Next

\* The inductive invariant holds in every reachable state.
THEOREM Inductive == Spec => []IInv
<1> QED
  BY InitInv, NextInv, PTL DEF Spec

\* Type correctness of the queue, the worker and the file.
THEOREM TypeCorrect == Spec => []TypeOK
<1>1. IInv => TypeOK
  BY DEF IInv
<1> QED
  BY <1>1, Inductive, PTL

\* Deduplication: at no time are two jobs with one dedupe key active, whatever
\* is redelivered, retried, crashed, half-written and reloaded.
THEOREM DedupeHolds == Spec => []OneActivePerKey
<1>1. IInv => OneActivePerKey
  BY DEF IInv, Sound, UniqueActive, OneActivePerKey
<1> QED
  BY <1>1, Inductive, PTL

\* The handler of a job starts at most maxAttempts times over all the lives of
\* the process, because memory and file have counted every start.
THEOREM AttemptsBounded == Spec => []AttemptBudget
<1>1. IInv => AttemptBudget
  <2> SUFFICES ASSUME IInv PROVE AttemptBudget
    OBVIOUS
  <2>1. \A j \in JobIds : starts[j] <= MaxAttempts
    BY QueueAssumption DEF IInv, TypeOK
  <2>2. TypeOK
    BY DEF IInv
  <2> QED
    BY <2>1, <2>2 DEF IInv, Sound, CountsStarts, AttemptBudget
<1> QED
  BY <1>1, Inductive, PTL

\* The file never contradicts the memory of a living process.
THEOREM FileConsistent == Spec => []FileAgrees
<1>1. IInv => FileAgrees
  BY DEF IInv
<1> QED
  BY <1>1, Inductive, PTL

-----------------------------------------------------------------------------
(* The refinement of AttemptLedger *)

\* A step of one job's life that the ledger allows, read off the queue.
LifeStep(j) ==
  \/ /\ Life(j) = "waiting" /\ Life(j)' = "active"
     /\ starts[j] < MaxAttempts /\ starts'[j] = starts[j] + 1
  \/ /\ starts'[j] = starts[j]
     /\ \/ Life(j) = "active" /\ Life(j)' = "waiting" /\ starts[j] < MaxAttempts
        \/ Life(j) = "unknown" /\ Life(j)' = "waiting"
        \/ Life(j) = "active" /\ Life(j)' \in {"settled", "stranded"}
        \/ Life(j)' = "gone"
        \/ Life(j)' = Life(j)

LEMMA LedgerStep ==
  ASSUME \A j \in JobIds : LifeStep(j)
  PROVE  Ledger!Next
<1> SUFFICES ASSUME NEW j \in JobIds
             PROVE  \/ Ledger!Begins(j)
                    \/ starts'[j] = starts[j] /\ (Ledger!Requeues(j) \/ Ledger!Moves(j))
  BY DEF Ledger!Next
<1> QED
  BY DEF LifeStep, Ledger!Begins, Ledger!Requeues, Ledger!Moves

\* What Life says while the process lives.
LEMMA LifeAlive ==
  ASSUME IInv, phase # "down", NEW j \in JobIds
  PROVE  /\ job[j].status = "none" => Life(j) \in {"gone", "unknown"}
         /\ job[j].status = "none" => (Life(j) = "gone" <=> j \in 1..created)
         /\ job[j].status = "queued" => Life(j) = "waiting"
         /\ job[j].status = "running" =>
              Life(j) = IF j \in handlers THEN "active" ELSE "stranded"
         /\ job[j].status \in Terminal => Life(j) = "settled"
         /\ job[j].status \in {"none", "queued", "running"} \cup Terminal
         /\ job[j].status # "none" => j \in 1..created
<1>1. job[j].status \in {"none", "queued", "running"} \cup Terminal
  BY DEF IInv, TypeOK, Job, Statuses, Active
<1>2. job[j].status # "none" => j \in 1..created
  BY QueueAssumption DEF IInv, TypeOK, Fresh, JobIds
<1> QED
  BY <1>1, <1>2 DEF Life, Terminal

\* The job is as it was, and so is its handler: its life is as it was.
LEMMA SameLife ==
  ASSUME IInv, NEW j \in JobIds, phase # "down", phase' # "down",
         job'[j] = job[j], starts'[j] = starts[j],
         j \in handlers' <=> j \in handlers,
         created' = created
  PROVE  LifeStep(j)
<1>1. Life(j)' = Life(j)
  BY DEF Life
<1> QED
  BY <1>1 DEF LifeStep

\* The process dies: a job keeps its place in the file, is stranded, or is lost.
LEMMA DieLives ==
  ASSUME IInv, Die, file' \in {file, EmptyFile}, starts' = starts, phase # "down",
         created' \in {created, created + 1}
  PROVE  \A j \in JobIds : LifeStep(j)
<1> SUFFICES ASSUME NEW j \in JobIds PROVE LifeStep(j)
  OBVIOUS
<1>1. file'.job[j].status = "none" \/ file'.job[j] = job[j]
  BY DEF IInv, FileAgrees, EmptyFile, EmptyTable, NoJob
<1>2. j \in 1..created => j \in 1..created'
  BY QueueAssumption DEF IInv, TypeOK, JobIds
<1>3. phase' = "down" /\ handlers' = {}
  BY DEF Die
<1>4. Life(j)' = IF file'.job[j].status = "queued" THEN "waiting"
                 ELSE IF file'.job[j].status = "running" THEN "stranded"
                 ELSE IF file'.job[j].status \in Terminal THEN "settled"
                 ELSE IF j \in 1..created' THEN "gone" ELSE "unknown"
  BY <1>3 DEF Life
<1>5. CASE job[j].status = "none"
  <2>1. file'.job[j].status = "none"
    BY <1>1, <1>5
  <2>2. Life(j)' = IF j \in 1..created' THEN "gone" ELSE "unknown"
    BY <1>4, <2>1 DEF Terminal
  <2>3. Life(j)' = "gone" \/ Life(j)' = Life(j)
    BY <1>2, <1>5, <2>2, LifeAlive
  <2> QED
    BY <2>3 DEF LifeStep
<1>6. CASE job[j].status # "none"
  <2>1. j \in 1..created'
    BY <1>2, <1>6, LifeAlive
  <2>2. CASE file'.job[j].status = "none"
    <3>1. Life(j)' = "gone"
      BY <1>4, <2>1, <2>2 DEF Terminal
    <3> QED
      BY <3>1 DEF LifeStep
  <2>3. CASE file'.job[j] = job[j]
    <3>1. Life(j)' = Life(j) \/ (Life(j) = "active" /\ Life(j)' = "stranded")
      BY <1>4, <1>6, <2>3, LifeAlive DEF Terminal
    <3> QED
      BY <3>1 DEF LifeStep
  <2> QED
    BY <1>1, <2>2, <2>3
<1> QED
  BY <1>5, <1>6

LEMMA PollLives ==
  ASSUME IInv, Poll
  PROVE  \A j \in JobIds : LifeStep(j)
<1> SUFFICES ASSUME NEW j \in JobIds PROVE LifeStep(j)
  OBVIOUS
<1>1. phase # "down" /\ phase' # "down" /\ created' = created
  BY DEF Poll, PollEnabled
<1>2. CASE j \in Batch
  <2>1. job[j].status = "queued"
    BY <1>2, BatchFacts DEF Poll
  <2>2. job'[j].status = "running" /\ j \in handlers' /\ starts'[j] = starts[j] + 1
    BY <1>2 DEF Poll, IInv, TypeOK, Job
  <2>3. starts[j] < MaxAttempts
    <3>1. starts[j] <= job[j].attempts /\ job[j].attempts < MaxAttempts
      BY <2>1 DEF IInv, Sound, CountsStarts, BudgetLeft
    <3>2. job[j].attempts \in Nat /\ starts[j] \in Nat
      BY DEF IInv, TypeOK, Job
    <3> QED
      BY <3>1, <3>2, QueueAssumption
  <2>4. Life(j) = "waiting" /\ Life(j)' = "active"
    BY <1>1, <2>1, <2>2 DEF Life
  <2> QED
    BY <2>2, <2>3, <2>4 DEF LifeStep
<1>3. CASE j \notin Batch
  <2>1. job'[j] = job[j] /\ starts'[j] = starts[j] /\ (j \in handlers' <=> j \in handlers)
    BY <1>3 DEF Poll, IInv, TypeOK
  <2> QED
    BY <1>1, <2>1, SameLife
<1> QED
  BY <1>2, <1>3

\* Only the settled job moves when a handler settles.
LEMMA OthersLive ==
  ASSUME IInv, NEW j \in JobIds, phase # "down", phase' = phase, HandlerDone(j),
         \A i \in JobIds \ {j} : job'[i] = job[i],
         starts' = starts, created' = created,
         LifeStep(j)
  PROVE  \A i \in JobIds : LifeStep(i)
<1> SUFFICES ASSUME NEW i \in JobIds, i # j PROVE LifeStep(i)
  OBVIOUS
<1>1. job'[i] = job[i] /\ (i \in handlers' <=> i \in handlers)
  BY DEF HandlerDone
<1> QED
  BY <1>1, SameLife

LEMMA CompleteLives ==
  ASSUME IInv, NEW j \in JobIds, Complete(j)
  PROVE  \A i \in JobIds : LifeStep(i)
<1>1. phase # "down" /\ job[j].status = "running" /\ j \in handlers
  BY HandlerFacts DEF Complete
<1>2. job'[j].status = "completed" /\ \A i \in JobIds \ {j} : job'[i] = job[i]
  BY DEF Complete, IInv, TypeOK, Job
<1>3. Life(j) = "active" /\ Life(j)' = "settled"
  BY <1>1, <1>2 DEF Complete, Life, Terminal
<1>4. LifeStep(j)
  BY <1>3 DEF LifeStep, Complete
<1> QED
  BY <1>1, <1>2, <1>4, OthersLive DEF Complete

LEMMA FailedLives ==
  ASSUME IInv, NEW j \in handlers, job' = FailedTable(j), phase' = phase,
         HandlerDone(j), starts' = starts, created' = created
  PROVE  \A i \in JobIds : LifeStep(i)
<1>1. phase # "down" /\ job[j].status = "running" /\ j \in JobIds
  BY HandlerFacts
<1>2. /\ job'[j].status = IF Retryable(j) THEN "queued" ELSE "failed"
      /\ \A i \in JobIds \ {j} : job'[i] = job[i]
  BY <1>1 DEF FailedTable, IInv, TypeOK, Job
<1>3. Life(j) = "active"
  BY <1>1 DEF Life
<1>4. LifeStep(j)
  <2>1. CASE Retryable(j)
    <3>1. starts[j] < MaxAttempts
      <4>1. starts[j] <= job[j].attempts /\ job[j].attempts < MaxAttempts
        BY <1>1, <2>1 DEF IInv, Sound, CountsStarts, Retryable
      <4>2. job[j].attempts \in Nat /\ starts[j] \in Nat
        BY <1>1 DEF IInv, TypeOK, Job
      <4> QED
        BY <4>1, <4>2, QueueAssumption
    <3>2. Life(j)' = "waiting"
      BY <1>1, <1>2, <2>1 DEF Life
    <3> QED
      BY <1>3, <3>1, <3>2 DEF LifeStep
  <2>2. CASE ~Retryable(j)
    <3>1. Life(j)' = "settled"
      BY <1>1, <1>2, <2>2 DEF Life, Terminal
    <3> QED
      BY <1>3, <3>1 DEF LifeStep
  <2> QED
    BY <2>1, <2>2
<1> QED
  BY <1>1, <1>2, <1>4, OthersLive

LEMMA EnqueueNewLives ==
  ASSUME IInv, NEW k \in Keys \cup {NoKey}, NEW result \in {"ok"} \cup Faulty,
         EnqueueNew(k, result)
  PROVE  \A j \in JobIds : LifeStep(j)
<1> SUFFICES ASSUME NEW j \in JobIds PROVE LifeStep(j)
  OBVIOUS
<1>1. phase # "down" /\ phase' # "down" /\ created' = created + 1 /\ starts' = starts
  BY DEF EnqueueNew
<1>2. CASE j = created'
  <2>1. j > created /\ j \notin 1..created
    BY <1>1, <1>2, QueueAssumption DEF IInv, TypeOK, JobIds
  <2>2. job[j].status = "none" /\ job'[j].status = "queued"
    BY <1>2, <2>1 DEF EnqueueNew, IInv, TypeOK, Fresh
  <2>3. Life(j) = "unknown" /\ Life(j)' = "waiting"
    BY <1>1, <2>1, <2>2 DEF Life, Terminal
  <2> QED
    BY <1>1, <2>3 DEF LifeStep
<1>3. CASE j # created'
  <2>1. job'[j] = job[j] /\ handlers' = handlers
    BY <1>3 DEF EnqueueNew, IInv, TypeOK
  <2>2. j \in 1..created' <=> j \in 1..created
    BY <1>1, <1>3, QueueAssumption DEF IInv, TypeOK, JobIds
  <2>3. Life(j)' = Life(j)
    BY <1>1, <2>1, <2>2 DEF Life
  <2> QED
    BY <1>1, <2>3 DEF LifeStep
<1> QED
  BY <1>2, <1>3

\* Neither memory nor file changes what they say of any job.
LEMMA QuietLives ==
  ASSUME IInv, starts' = starts, created' = created, handlers' = handlers,
         \/ phase # "down" /\ phase' # "down" /\ job' = job
         \/ phase = "down" /\ phase' # "down" /\ job' = file.job
         \/ UNCHANGED <<phase, job, file>>
  PROVE  \A j \in JobIds : LifeStep(j)
<1> SUFFICES ASSUME NEW j \in JobIds PROVE Life(j)' = Life(j)
  BY DEF LifeStep
<1> QED
  BY DEF Life

LEMMA SettleLives ==
  ASSUME IInv, NEW j \in JobIds, Settle(j)
  PROVE  \A i \in JobIds : LifeStep(i)
<1>1. CASE Complete(j)
  BY <1>1, CompleteLives
<1>2. CASE Fail(j)
  BY <1>2, FailedLives DEF Fail
<1>3. CASE \E result \in Faulty : CompleteUnsaved(j, result)
  BY <1>3, FailedLives DEF CompleteUnsaved
<1>4. CASE \E result \in Faulty, first \in {"ok"} \cup Faulty : FailFatal(j, first, result)
  <2>1. Die /\ file' \in {file, EmptyFile} /\ starts' = starts /\ created' = created
    BY <1>4 DEF FailFatal
  <2>2. phase # "down"
    BY <1>4 DEF FailFatal, IInv, DeadIsEmpty
  <2> QED
    BY <2>1, <2>2, DieLives
<1> QED
  BY <1>1, <1>2, <1>3, <1>4 DEF Settle

LEMMA NextRefines == IInv /\ [Next]_vars => Ledger!Next
<1> SUFFICES ASSUME IInv, [Next]_vars PROVE \A j \in JobIds : LifeStep(j)
  BY LedgerStep
<1>1. CASE \E k \in Keys \cup {NoKey}, result \in {"ok"} \cup Faulty : EnqueueNew(k, result)
  BY <1>1, EnqueueNewLives
<1>2. CASE \E k \in Keys \cup {NoKey}, result \in {"ok"} \cup Faulty : EnqueueDuplicate(k, result)
  <2>1. phase # "down" /\ phase' # "down" /\ job' = job
    BY <1>2 DEF EnqueueDuplicate
  <2>2. starts' = starts /\ created' = created /\ handlers' = handlers
    BY <1>2 DEF EnqueueDuplicate
  <2> QED
    BY <2>1, <2>2, QuietLives
<1>3. CASE \E result \in Faulty : EnqueueFatal(result)
  <2>1. PICK result \in Faulty : EnqueueFatal(result)
    BY <1>3
  <2>2. Die /\ file' \in {file, EmptyFile} /\ starts' = starts /\ phase # "down"
    BY <2>1 DEF EnqueueFatal, Written, Faulty
  <2>3. created' \in {created, created + 1}
    BY <2>1 DEF EnqueueFatal
  <2> QED
    BY <2>2, <2>3, DieLives
<1>4. CASE Poll
  BY <1>4, PollLives
<1>5. CASE \E result \in Faulty : PollFatal(result) \/ Crash(result)
  <2>1. PICK result \in Faulty : PollFatal(result) \/ Crash(result)
    BY <1>5
  <2>2. Die /\ file' \in {file, EmptyFile} /\ starts' = starts /\ phase # "down"
    BY <2>1 DEF PollFatal, PollEnabled, Crash, Written, Faulty
  <2>3. created' = created
    BY <2>1 DEF PollFatal, Crash
  <2> QED
    BY <2>2, <2>3, DieLives
<1>6. CASE \E j \in JobIds : Settle(j)
  BY <1>6, SettleLives
<1>7. CASE Elapse \/ Stop
  <2>1. phase # "down" /\ phase' # "down" /\ job' = job
    BY <1>7 DEF Elapse, Stop
  <2>2. starts' = starts /\ created' = created /\ handlers' = handlers
    BY <1>7 DEF Elapse, Stop
  <2> QED
    BY <2>1, <2>2, QuietLives
<1>8. CASE Exit
  <2>1. Die /\ file' = file /\ starts' = starts /\ phase # "down" /\ created' = created
    BY <1>8 DEF Exit
  <2> QED
    BY <2>1, DieLives
<1>9. CASE Restart
  <2>1. phase = "down" /\ phase' # "down" /\ job' = file.job
    BY <1>9 DEF Restart
  <2>2. starts' = starts /\ created' = created /\ handlers' = handlers
    BY <1>9 DEF Restart
  <2> QED
    BY <2>1, <2>2, QuietLives
<1>10. CASE UNCHANGED vars
  BY <1>10, QuietLives DEF vars
<1> QED
  BY <1>1, <1>2, <1>3, <1>4, <1>5, <1>6, <1>7, <1>8, <1>9, <1>10 DEF Next

\* The queue, its worker and its file implement the attempt ledger, with Life
\* as the refinement mapping: a job that settled stays settled, one that starts
\* has an attempt left, and only a crash strands or loses a job.
THEOREM Refinement == Spec => ImplementsLedger
<1>1. Init => Ledger!Init
  <2> SUFFICES ASSUME Init, NEW j \in JobIds PROVE Life(j) = "unknown"
    BY DEF Ledger!Init, Init
  <2> QED
    BY DEF Init, Life, EmptyTable, NoJob, Terminal
<1>2. IInv /\ [Next]_vars => [Ledger!Next]_<<[j \in JobIds |-> Life(j)], starts>>
  BY NextRefines
<1> QED
  BY <1>1, <1>2, Inductive, PTL DEF Spec, ImplementsLedger, Ledger!Spec

-----------------------------------------------------------------------------
(* Durability, when a write never truncates the file *)

Durable == AcceptedSurvives /\ TerminalIsDurable

\* The file keeps what it has; memory is empty, as it was, or loaded from it.
LEMMA KeptFile ==
  ASSUME Durable, file' = file, accepted' = accepted,
         \/ job' = EmptyTable
         \/ job' = job
         \/ job' = file.job
         \/ \A j \in JobIds : job'[j] = job[j] \/ job'[j].status = "queued"
  PROVE  Durable'
BY DEF Durable, AcceptedSurvives, TerminalIsDurable, EmptyTable, NoJob, Terminal

\* The file is rewritten with the table of a living process, which still knows
\* every job it knew.
LEMMA NewFile ==
  ASSUME IInv, Durable, phase # "down", file' = Memory',
         \A j \in JobIds : job[j].status # "none" => job'[j].status # "none",
         \A j \in accepted' : j \in accepted \/ job'[j].status # "none"
  PROVE  Durable'
<1>1. file'.job = job'
  BY DEF Memory
<1>2. \A j \in accepted : j \in JobIds /\ job[j].status # "none"
  BY DEF Durable, AcceptedSurvives, IInv, TypeOK, FileAgrees
<1> QED
  BY <1>1, <1>2 DEF Durable, AcceptedSurvives, TerminalIsDurable

LEMMA DurableStep ==
  ASSUME FileBacked, "torn" \notin WriteFaults, IInv, Durable, [Next]_vars
  PROVE  Durable'
<1>0. \A r \in WriteResults : r # "torn"
  BY DEF WriteResults
<1>1. CASE \E k \in Keys \cup {NoKey}, result \in {"ok"} \cup Faulty : EnqueueNew(k, result)
  <2>1. PICK k \in Keys \cup {NoKey}, result \in {"ok"} \cup Faulty : EnqueueNew(k, result)
    BY <1>1
  <2>2. created' \in JobIds /\ result # "torn" /\ phase # "down"
    BY <1>0, <2>1, QueueAssumption DEF EnqueueNew, IInv, TypeOK, JobIds
  <2>3. \A j \in JobIds : job'[j] = job[j] \/ job'[j].status = "queued"
    BY <2>1, <2>2 DEF EnqueueNew, IInv, TypeOK
  <2>4. job'[created'].status = "queued"
    BY <2>1, <2>2 DEF EnqueueNew, IInv, TypeOK
  <2>5. CASE result = "ok"
    <3>1. file' = Memory' /\ accepted' = accepted \cup {created'}
      BY <2>1, <2>5 DEF EnqueueNew, Written
    <3> QED
      BY <2>2, <2>3, <2>4, <3>1, NewFile
  <2>6. CASE result = "error"
    <3>1. file' = file /\ accepted' = accepted
      BY <2>1, <2>6 DEF EnqueueNew, Written
    <3> QED
      BY <2>3, <3>1, KeptFile
  <2> QED
    BY <2>2, <2>5, <2>6 DEF Faulty
<1>2. CASE \E k \in Keys \cup {NoKey}, result \in {"ok"} \cup Faulty : EnqueueDuplicate(k, result)
  <2>1. PICK k \in Keys \cup {NoKey}, result \in {"ok"} \cup Faulty : EnqueueDuplicate(k, result)
    BY <1>2
  <2>2. /\ job' = job /\ accepted' = accepted /\ phase # "down" /\ Memory' = Memory
        /\ file' = Written(result, Memory)
    BY <2>1 DEF EnqueueDuplicate, Memory
  <2>3. result # "torn"
    BY <1>0, <2>1 DEF EnqueueDuplicate
  <2>4. file' = file \/ file' = Memory'
    BY <2>2, <2>3 DEF Written
  <2> QED
    BY <2>2, <2>4, KeptFile, NewFile
<1>3. CASE \E result \in Faulty : EnqueueFatal(result) \/ PollFatal(result) \/ Crash(result)
  <2>1. PICK result \in Faulty : EnqueueFatal(result) \/ PollFatal(result) \/ Crash(result)
    BY <1>3
  <2>2. result = "error"
    BY <1>0, <2>1 DEF EnqueueFatal, PollFatal, Crash, Faulty
  <2>3. job' = EmptyTable /\ file' = file /\ accepted' = accepted
    BY <2>1, <2>2 DEF EnqueueFatal, PollFatal, Crash, Die, Written
  <2> QED
    BY <2>3, KeptFile
<1>4. CASE Poll
  <2>1. file' = Memory' /\ accepted' = accepted /\ phase # "down"
    BY <1>4 DEF Poll, PollEnabled, Save, Written
  <2>2. \A j \in JobIds : job[j].status # "none" => job'[j].status # "none"
    BY <1>4 DEF Poll, IInv, TypeOK, Job
  <2> QED
    BY <2>1, <2>2, NewFile
<1>5. CASE \E j \in JobIds : Settle(j)
  <2>1. PICK j \in JobIds : Settle(j)
    BY <1>5
  <2>2. CASE Complete(j) \/ Fail(j) \/ \E result \in Faulty : CompleteUnsaved(j, result)
    <3>1. phase # "down"
      BY <2>2, HandlerFacts DEF Complete, Fail, CompleteUnsaved
    <3>2. file' = Memory' /\ accepted' = accepted
      BY <2>2 DEF Complete, Fail, CompleteUnsaved, Save, Written
    <3>3. \A i \in JobIds : job[i].status # "none" => job'[i].status # "none"
      BY <2>2 DEF Complete, Fail, CompleteUnsaved, FailedTable, IInv, TypeOK, Job
    <3> QED
      BY <3>1, <3>2, <3>3, NewFile
  <2>3. CASE \E result \in Faulty, first \in {"ok"} \cup Faulty : FailFatal(j, first, result)
    <3>1. job' = EmptyTable /\ file' = file /\ accepted' = accepted
      BY <1>0, <2>3 DEF FailFatal, Die
    <3> QED
      BY <3>1, KeptFile
  <2> QED
    BY <2>1, <2>2, <2>3 DEF Settle
<1>6. CASE Elapse \/ Stop \/ Exit \/ Restart \/ UNCHANGED vars
  <2>1. file' = file /\ accepted' = accepted
    BY <1>6 DEF Elapse, Stop, Exit, Restart, vars
  <2>2. job' = EmptyTable \/ job' = job \/ job' = file.job
    BY <1>6 DEF Elapse, Stop, Exit, Restart, Die, vars
  <2> QED
    BY <2>1, <2>2, KeptFile
<1> QED
  BY <1>1, <1>2, <1>3, <1>4, <1>5, <1>6 DEF Next

\* With a queue file whose writes may fail but never truncate it, a delivery
\* whose enqueue returned is known to the file forever after, through any
\* number of crashes and failed writes.
THEOREM AcceptedIsKept ==
  ASSUME FileBacked, "torn" \notin WriteFaults
  PROVE  Spec => []AcceptedSurvives
<1>1. Init => Durable
  BY DEF Init, Durable, AcceptedSurvives, TerminalIsDurable, EmptyTable, NoJob, Terminal
<1>2. IInv /\ Durable /\ [Next]_vars => Durable'
  BY DurableStep
<1>3. Durable => AcceptedSurvives
  BY DEF Durable
<1> QED
  BY <1>1, <1>2, <1>3, Inductive, PTL DEF Spec

\* Under the same condition a final status seen in memory is on disk already,
\* so that no restart brings a finished job back.
THEOREM TerminalIsKept ==
  ASSUME FileBacked, "torn" \notin WriteFaults
  PROVE  Spec => []TerminalIsDurable
<1>1. Init => Durable
  BY DEF Init, Durable, AcceptedSurvives, TerminalIsDurable, EmptyTable, NoJob, Terminal
<1>2. IInv /\ Durable /\ [Next]_vars => Durable'
  BY DurableStep
<1>3. Durable => TerminalIsDurable
  BY DEF Durable
<1> QED
  BY <1>1, <1>2, <1>3, Inductive, PTL DEF Spec

=============================================================================
