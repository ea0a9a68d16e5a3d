----------------------------- MODULE JobRegistry -----------------------------
(***************************************************************************)
(* The asynchronous jobs of the SDK: BoundedJobRegistry (platform/jobs.ts) *)
(* and the functions that submit, run and poll jobs (api/jobs/index.ts).   *)
(*                                                                         *)
(* A job is an object that its own promise chain changes; the registry     *)
(* only holds a reference.  Dropping the reference stops nothing.  Ids are *)
(* numbered in the order of insertion, which breaks ties between jobs of   *)
(* the same millisecond.                                                   *)
(***************************************************************************)
EXTENDS Integers, FiniteSets

CONSTANTS
  MaxJobs,     \* bound: jobs ever submitted
  MaxTime,     \* bound: the clock
  Capacities,  \* values of maxCapacity
  Ttls         \* values of ttlMs

ASSUME RegistryAssumption ==
  /\ MaxJobs \in Nat
  /\ MaxTime \in Nat
  /\ Capacities \subseteq Nat \ {0} /\ Capacities # {}
  /\ Ttls \subseteq Nat \ {0} /\ Ttls # {}

VARIABLES
  now,
  kept,      \* ids the registry holds
  object,    \* id -> the job object, also after it was dropped
  submitted, \* ids 1..submitted have been handed out
  capacity,
  ttl

vars == <<now, kept, object, submitted, capacity, ttl>>

Ids == 1..MaxJobs
Active == {"pending", "running"}
Terminal == {"done", "failed"}
Never == -1

Object == [status: Active \cup Terminal \cup {"none"},
           submittedAt: 0..MaxTime, completedAt: {Never} \cup (0..MaxTime)]

Blank == [status |-> "none", submittedAt |-> 0, completedAt |-> Never]

Finished(j) == object[j].status \in Terminal

-----------------------------------------------------------------------------
(* Expiry and eviction *)

\* A job ages from its completion, an active one from its submission.
AgesFrom(j) ==
  IF object[j].completedAt # Never THEN object[j].completedAt
  ELSE object[j].submittedAt

Expired(j) == now - AgesFrom(j) > ttl

\* evictExpired
Fresh == {j \in kept : ~Expired(j)}

\* mutant: the oldest goes first, whatever its state
OldestGoesBefore(i, j) ==
  \/ AgesFrom(i) < AgesFrom(j)
  \/ AgesFrom(i) = AgesFrom(j) /\ i < j

\* evictOneCandidate prefers finished jobs, and among equals the oldest.
GoesBefore(i, j) ==
  \/ Finished(i) /\ ~Finished(j)
  \/ /\ Finished(i) <=> Finished(j)
     /\ \/ AgesFrom(i) < AgesFrom(j)
        \/ AgesFrom(i) = AgesFrom(j) /\ i < j

\* What may be left of the fresh jobs when candidates are evicted one by one
\* until only `size` jobs are left.
Shrunk(size) ==
  {left \in SUBSET Fresh :
     /\ Cardinality(left) = size
     /\ \A i \in Fresh \ left, j \in left : GoesBefore(i, j)}

-----------------------------------------------------------------------------
(* The operations *)

InsertedUnbounded(j) == {Fresh \cup {j}}  \* mutant

\* set of a new id: expired jobs go, one candidate goes if the registry is
\* full, and the job is added.
Inserted(j) ==
  IF Cardinality(Fresh) < capacity THEN {Fresh \cup {j}}
  ELSE {left \cup {j} : left \in Shrunk(Cardinality(Fresh) - 1)}

\* enforceCapacity
WithinCapacity(c) ==
  IF Cardinality(Fresh) <= c THEN {Fresh} ELSE Shrunk(c)

\* submitRemediateJob, submitScanJob, submitPortfolioJob
Submit ==
  LET j == submitted + 1
  IN  /\ submitted < MaxJobs
      /\ submitted' = j
      /\ kept' \in Inserted(j)
      /\ object' = [object EXCEPT ![j] =
                      [status |-> "pending", submittedAt |-> now,
                       completedAt |-> Never]]
      /\ UNCHANGED <<now, capacity, ttl>>

\* The promise chain of job j, which does not look at the registry.
Start(j) ==
  /\ object[j].status = "pending"
  /\ object' = [object EXCEPT ![j].status = "running"]
  /\ UNCHANGED <<now, kept, submitted, capacity, ttl>>

Ended(j, status) == [object[j] EXCEPT !.status = status, !.completedAt = now]

End(j, status) ==
  /\ object[j].status = "running"
  /\ object' = [object EXCEPT ![j] = Ended(j, status)]
  /\ UNCHANGED <<now, kept, submitted, capacity, ttl>>

\* pollJob, get and has: an expired job is dropped and not found.
Poll(j) ==
  /\ j \in kept
  /\ Expired(j)
  /\ kept' = kept \ {j}
  /\ UNCHANGED <<now, object, submitted, capacity, ttl>>

Prune ==
  /\ kept' = Fresh
  /\ UNCHANGED <<now, object, submitted, capacity, ttl>>

SetMaxCapacity(c) ==
  /\ capacity' = c
  /\ kept' \in WithinCapacity(c)
  /\ UNCHANGED <<now, object, submitted, ttl>>

SetTtl(t) ==
  /\ ttl' = t
  /\ UNCHANGED <<now, kept, object, submitted, capacity>>

Tick ==
  /\ now < MaxTime
  /\ now' = now + 1
  /\ UNCHANGED <<kept, object, submitted, capacity, ttl>>

Init ==
  /\ now = 0
  /\ kept = {}
  /\ object = [j \in Ids |-> Blank]
  /\ submitted = 0
  /\ capacity \in Capacities
  /\ ttl \in Ttls

Next ==
  \/ Submit
  \/ \E j \in Ids : Start(j) \/ Poll(j)
  \/ \E j \in Ids, status \in Terminal : End(j, status)
  \/ Prune
  \/ \E c \in Capacities : SetMaxCapacity(c)
  \/ \E t \in Ttls : SetTtl(t)
  \/ Tick

Spec == Init /\ [][Next]_vars

-----------------------------------------------------------------------------
(* Properties *)

\* Type invariant of the registry: it holds submitted jobs only, and finished
\* jobs are dated.
TypeOK ==
  /\ now \in 0..MaxTime
  /\ kept \subseteq 1..submitted
  /\ object \in [Ids -> Object]
  /\ \A j \in Ids : Finished(j) <=> object[j].completedAt # Never
  /\ submitted \in 0..MaxJobs
  /\ capacity \in Capacities
  /\ ttl \in Ttls

\* The registry never holds more jobs than its capacity, also right after the
\* capacity was lowered (platform/jobs.ts set, setMaxCapacity).
CapacityHolds == Cardinality(kept) <= capacity

Drops(j) == j \in kept /\ j \notin kept'

\* What may be dropped: see DropsAreDue.
IsDue(j) ==
  /\ ~Finished(j) /\ ~Expired(j) =>
       \A k \in kept \cap kept' :
         ~Finished(k) /\ object[k].submittedAt >= object[j].submittedAt
  /\ Finished(j) /\ now - object[j].completedAt <= ttl =>
       Cardinality(kept') = capacity'

\* A job that still runs is dropped before its time only when the registry is
\* left with nothing but running jobs, older ones first: a finished job never
\* survives it.  A result younger than its time to live, counted from the
\* completion, is dropped only from a full registry (platform/jobs.ts
\* evictExpired, evictOneCandidate, enforceCapacity).
DropsAreDue == [][\A j \in Ids : Drops(j) => IsDue(j)]_vars

=============================================================================
