------------------------------ MODULE SdkProofs ------------------------------
(***************************************************************************)
(* The SDK: the registry of its asynchronous jobs keeps to its capacity,   *)
(* for any number of jobs, any clock and any limits, and drops only what   *)
(* is due; the calls that run as its jobs resume only what is stored; and  *)
(* the decisions that the tools take from data alone are right for any     *)
(* versions, advisories, lockfiles, files and policies.                    *)
(***************************************************************************)
EXTENDS SdkJobs, Decisions, FiniteSetTheorems, SequenceTheorems,
        WellFoundedInduction, TLAPS

-----------------------------------------------------------------------------
(* The registry *)

\* The inductive invariant.  The capacity can only be counted on a registry
\* that is a set of submitted jobs, hence finite.
IInv == TypeOK /\ CapacityHolds

\* Expiry only takes jobs away, so what is fresh is finite and not larger than
\* what was kept (evictExpired).
LEMMA FreshFits ==
  ASSUME IInv
  PROVE  /\ Fresh \subseteq kept
         /\ IsFiniteSet(kept) /\ IsFiniteSet(Fresh)
         /\ Cardinality(Fresh) \in Nat
         /\ Cardinality(Fresh) <= Cardinality(kept)
         /\ capacity \in Nat \ {0}
<1>1. Fresh \subseteq kept
  BY DEF Fresh
<1>2. IsFiniteSet(1..submitted)
  BY FS_Interval, RegistryAssumption DEF IInv, TypeOK
<1>3. IsFiniteSet(kept)
  BY <1>2, FS_Subset DEF IInv, TypeOK
<1>4. IsFiniteSet(Fresh) /\ Cardinality(Fresh) <= Cardinality(kept)
  BY <1>1, <1>3, FS_Subset
<1> QED
  BY <1>1, <1>3, <1>4, FS_CardinalityType, RegistryAssumption DEF IInv, TypeOK

\* The eviction loop ends with a subset of the fresh jobs of the wanted size.
LEMMA ShrunkFits ==
  ASSUME NEW size, NEW left \in Shrunk(size)
  PROVE  left \subseteq Fresh /\ Cardinality(left) = size
BY DEF Shrunk

\* A new job fits: one candidate makes room in a full registry (set).
LEMMA InsertedFits ==
  ASSUME IInv, NEW j, NEW after \in Inserted(j)
  PROVE  /\ after \subseteq kept \cup {j}
         /\ Cardinality(after) <= capacity
<1> DEFINE n == Cardinality(Fresh)
<1>1. PICK left \in SUBSET Fresh :
        after = left \cup {j} /\ Cardinality(left) \in Nat /\ Cardinality(left) < capacity
  <2>1. CASE n < capacity
    BY <2>1, FreshFits DEF Inserted
  <2>2. CASE ~(n < capacity)
    <3>1. PICK left \in Shrunk(n - 1) : after = left \cup {j}
      BY <2>2 DEF Inserted
    <3>2. n \in Nat /\ n <= capacity /\ capacity \in Nat \ {0}
      <4>1. kept \subseteq 1..submitted /\ Cardinality(kept) \in Nat
        BY FreshFits, FS_CardinalityType DEF IInv, TypeOK
      <4> QED
        BY <4>1, FreshFits DEF IInv, CapacityHolds
    <3>3. left \subseteq Fresh /\ Cardinality(left) = n - 1
      BY <3>1, ShrunkFits
    <3> QED
      BY <2>2, <3>1, <3>2, <3>3
  <2> QED
    BY <2>1, <2>2
<1>2. IsFiniteSet(left)
  BY FreshFits, FS_Subset
<1>3. Cardinality(after) <= Cardinality(left) + 1
  BY <1>1, <1>2, FS_AddElement
<1> QED
  BY <1>1, <1>3, FreshFits, FS_CardinalityType, FS_AddElement, <1>2

\* Every step keeps the registry well-formed and within its capacity.
LEMMA Step ==
  IInv /\ [Next]_vars => IInv'
<1> SUFFICES ASSUME IInv, [Next]_vars PROVE IInv'
  OBVIOUS
<1> USE RegistryAssumption
<1>0. Cardinality(kept) \in Nat
  BY FreshFits, FS_CardinalityType
<1>1. CASE Submit
  <2> DEFINE j == submitted + 1
  <2>1. /\ submitted < MaxJobs /\ submitted' = j /\ kept' \in Inserted(j)
        /\ object' = [object EXCEPT ![j] =
             [status |-> "pending", submittedAt |-> now, completedAt |-> Never]]
        /\ UNCHANGED <<now, capacity, ttl>>
    BY <1>1 DEF Submit
  <2>2. j \in Ids /\ submitted \in Nat /\ now \in 0..MaxTime
    BY <2>1 DEF IInv, TypeOK, Ids
  <2>3. kept' \subseteq 1..submitted'
    <3>1. kept' \subseteq kept \cup {j}
      BY <2>1, InsertedFits
    <3> QED
      BY <2>1, <2>2, <3>1 DEF IInv, TypeOK
  <2>4. object' \in [Ids -> Object]
    BY <2>1, <2>2 DEF IInv, TypeOK, Object, Active
  <2>5. \A i \in Ids : Finished(i)' <=> object'[i].completedAt # Never
    <3> SUFFICES ASSUME NEW i \in Ids
                 PROVE  Finished(i)' <=> object'[i].completedAt # Never
      OBVIOUS
    <3>1. CASE i = j
      BY <2>1, <2>2, <3>1 DEF IInv, TypeOK, Finished, Terminal
    <3>2. CASE i # j
      BY <2>1, <2>2, <3>2 DEF IInv, TypeOK, Finished
    <3> QED
      BY <3>1, <3>2
  <2>6. CapacityHolds'
    BY <2>1, InsertedFits DEF CapacityHolds
  <2> QED
    BY <2>1, <2>2, <2>3, <2>4, <2>5, <2>6 DEF IInv, TypeOK
<1>2. ASSUME NEW j \in Ids, Start(j) PROVE IInv'
  <2>1. object' = [object EXCEPT ![j].status = "running"] /\ object[j].status = "pending"
        /\ UNCHANGED <<now, kept, submitted, capacity, ttl>>
    BY <1>2 DEF Start
  <2>2. object' \in [Ids -> Object]
    BY <2>1 DEF IInv, TypeOK, Object, Active
  <2>3. \A i \in Ids : Finished(i)' <=> object'[i].completedAt # Never
    BY <2>1 DEF IInv, TypeOK, Finished, Terminal, Object
  <2> QED
    BY <2>1, <2>2, <2>3 DEF IInv, TypeOK, CapacityHolds
<1>3. ASSUME NEW j \in Ids, NEW status \in Terminal, End(j, status) PROVE IInv'
  <2>1. /\ object' = [object EXCEPT ![j] = Ended(j, status)]
        /\ UNCHANGED <<now, kept, submitted, capacity, ttl>>
    BY <1>3 DEF End
  <2>2. Ended(j, status) \in Object /\ Ended(j, status).status = status
        /\ Ended(j, status).completedAt = now
    BY DEF Ended, IInv, TypeOK, Object, Terminal
  <2>3. now # Never
    BY DEF IInv, TypeOK, Never
  <2>4. object' \in [Ids -> Object]
    BY <2>1, <2>2 DEF IInv, TypeOK
  <2>5. \A i \in Ids : Finished(i)' <=> object'[i].completedAt # Never
    <3> SUFFICES ASSUME NEW i \in Ids
                 PROVE  Finished(i)' <=> object'[i].completedAt # Never
      OBVIOUS
    <3>1. CASE i = j
      BY <2>1, <2>2, <2>3, <3>1 DEF IInv, TypeOK, Finished
    <3>2. CASE i # j
      BY <2>1, <3>2 DEF IInv, TypeOK, Finished
    <3> QED
      BY <3>1, <3>2
  <2> QED
    BY <2>1, <2>4, <2>5 DEF IInv, TypeOK, CapacityHolds
<1>4. ASSUME NEW smaller \in SUBSET kept, kept' = smaller,
             UNCHANGED <<now, object, submitted, capacity, ttl>>
      PROVE  IInv'
  <2>1. Cardinality(smaller) \in Nat /\ Cardinality(smaller) <= Cardinality(kept)
    BY FreshFits, FS_Subset, FS_CardinalityType
  <2>2. CapacityHolds'
    BY <1>0, <1>4, <2>1, FreshFits DEF IInv, CapacityHolds
  <2> QED
    BY <1>4, <2>2 DEF IInv, TypeOK, Finished
<1>5. ASSUME NEW j \in Ids, Poll(j) PROVE IInv'
  BY <1>4, <1>5 DEF Poll
<1>6. CASE Prune
  BY <1>4, <1>6, FreshFits DEF Prune
<1>7. ASSUME NEW c \in Capacities, SetMaxCapacity(c) PROVE IInv'
  <2>1. /\ capacity' = c /\ kept' \in WithinCapacity(c)
        /\ UNCHANGED <<now, object, submitted, ttl>>
    BY <1>7 DEF SetMaxCapacity
  <2>2. kept' \subseteq kept /\ Cardinality(kept') <= c
    BY <2>1, FreshFits, ShrunkFits DEF WithinCapacity
  <2> QED
    BY <2>1, <2>2 DEF IInv, TypeOK, CapacityHolds, Finished
<1>8. ASSUME NEW t \in Ttls, SetTtl(t) PROVE IInv'
  BY <1>8 DEF SetTtl, IInv, TypeOK, CapacityHolds, Finished
<1>9. CASE Tick
  BY <1>9 DEF Tick, IInv, TypeOK, CapacityHolds, Finished
<1>10. CASE UNCHANGED vars
  BY <1>10 DEF vars, IInv, TypeOK, CapacityHolds, Finished
<1> QED
  BY <1>1, <1>2, <1>3, <1>5, <1>6, <1>7, <1>8, <1>9, <1>10 DEF Next

LEMMA Initially == Init => IInv
<1> SUFFICES ASSUME Init PROVE IInv
  OBVIOUS
<1>1. Cardinality({}) = 0
  BY FS_EmptySet
<1>2. Blank \in Object /\ Blank.completedAt = Never /\ Blank.status \notin Terminal
  BY RegistryAssumption DEF Blank, Object, Terminal, Active, Never
<1> QED
  BY <1>1, <1>2, RegistryAssumption DEF Init, IInv, TypeOK, CapacityHolds, Finished

\* The registry is well-formed, and its size never exceeds its capacity, also
\* right after the capacity was lowered (platform/jobs.ts set, setMaxCapacity).
THEOREM BoundedRegistry == Spec => []TypeOK /\ []CapacityHolds
<1>1. IInv => TypeOK /\ CapacityHolds
  BY DEF IInv
<1> QED
  BY Initially, Step, <1>1, PTL DEF Spec

-----------------------------------------------------------------------------
(* What is dropped is due *)

\* A job ages from a natural number, a finished one from its completion and an
\* active one from its submission (jobs.ts ageTimestamp).
LEMMA Ages ==
  ASSUME IInv, NEW j \in Ids
  PROVE  /\ object[j].submittedAt \in Nat
         /\ now \in Nat
         /\ ttl \in Nat
         /\ AgesFrom(j) \in Nat
         /\ Finished(j) => AgesFrom(j) = object[j].completedAt
         /\ ~Finished(j) => AgesFrom(j) = object[j].submittedAt
<1>1. object[j] \in Object /\ (Finished(j) <=> object[j].completedAt # Never)
  BY DEF IInv, TypeOK
<1>2. /\ object[j].submittedAt \in Nat
      /\ object[j].completedAt \in {Never} \cup Nat
  BY <1>1, RegistryAssumption DEF Object
<1>3. now \in Nat /\ ttl \in Nat
  BY RegistryAssumption DEF IInv, TypeOK
<1> QED
  BY <1>1, <1>2, <1>3 DEF AgesFrom

\* A finished job that is expired is older than its time to live.
LEMMA ExpiredIsDue ==
  ASSUME IInv, NEW j \in Ids, Expired(j)
  PROVE  IsDue(j)
<1>1. now - AgesFrom(j) > ttl
  BY DEF Expired
<1>2. Finished(j) => ~(now - object[j].completedAt <= ttl)
  BY <1>1, Ages
<1> QED
  BY <1>2 DEF IsDue

\* An evicted job leaves only jobs behind that had to go after it: none of them
\* is finished if it was not, and none is older.
LEMMA EvictedIsDue ==
  ASSUME IInv, NEW size, NEW left \in Shrunk(size), NEW j \in Ids, j \in Fresh,
         j \notin left, kept \cap kept' \subseteq left,
         Cardinality(kept') = capacity'
  PROVE  IsDue(j)
<1>1. ASSUME NEW k \in left, ~Finished(j)
      PROVE  ~Finished(k) /\ object[k].submittedAt >= object[j].submittedAt
  <2>1. GoesBefore(j, k)
    BY DEF Shrunk
  <2>2. k \in Ids
    BY RegistryAssumption DEF Shrunk, Fresh, IInv, TypeOK, Ids
  <2>3. ~Finished(k) /\ (AgesFrom(j) < AgesFrom(k) \/ AgesFrom(j) = AgesFrom(k))
    BY <1>1, <2>1 DEF GoesBefore
  <2> QED
    BY <1>1, <2>2, <2>3, Ages
<1> QED
  BY <1>1 DEF IsDue

\* A registry that evicts to insert is full afterwards (set).
LEMMA SubmitDropsDue ==
  ASSUME IInv, Submit, NEW j \in Ids, Drops(j)
  PROVE  IsDue(j)
<1> DEFINE new == submitted + 1
           n == Cardinality(Fresh)
<1>1. kept' \in Inserted(new) /\ capacity' = capacity
  BY DEF Submit
<1>2. j \in kept /\ j \notin kept'
  BY DEF Drops
<1>3. CASE Expired(j)
  BY <1>3, ExpiredIsDue
<1>4. CASE ~Expired(j)
  <2>1. j \in Fresh
    BY <1>2, <1>4 DEF Fresh
  <2>2. ~(n < capacity)
    BY <1>1, <1>2, <2>1 DEF Inserted
  <2>3. PICK left \in Shrunk(n - 1) : kept' = left \cup {new}
    BY <1>1, <2>2 DEF Inserted
  <2>4. n \in Nat /\ n = capacity
    <3>1. Cardinality(kept) \in Nat
      BY FreshFits, FS_CardinalityType
    <3> QED
      BY <2>2, <3>1, FreshFits DEF IInv, CapacityHolds
  <2>5. left \subseteq Fresh /\ Cardinality(left) = n - 1
    BY ShrunkFits
  <2>6. new \notin kept
    BY RegistryAssumption DEF IInv, TypeOK
  <2>7. new \notin left /\ IsFiniteSet(left)
    BY <2>5, <2>6, FreshFits, FS_Subset
  <2>8. Cardinality(kept') = Cardinality(left) + 1
    BY <2>3, <2>7, FS_AddElement
  <2>9. Cardinality(kept') = capacity'
    BY <1>1, <2>4, <2>5, <2>8
  <2>10. kept \cap kept' \subseteq left
    BY <2>3, <2>6
  <2> QED
    BY <1>2, <2>1, <2>3, <2>9, <2>10, EvictedIsDue
<1> QED
  BY <1>3, <1>4

\* A lowered capacity is used to the last place (setMaxCapacity).
LEMMA LoweringDropsDue ==
  ASSUME IInv, NEW c \in Capacities, SetMaxCapacity(c), NEW j \in Ids, Drops(j)
  PROVE  IsDue(j)
<1>1. kept' \in WithinCapacity(c) /\ capacity' = c
  BY DEF SetMaxCapacity
<1>2. j \in kept /\ j \notin kept'
  BY DEF Drops
<1>3. CASE Expired(j)
  BY <1>3, ExpiredIsDue
<1>4. CASE ~Expired(j)
  <2>1. j \in Fresh
    BY <1>2, <1>4 DEF Fresh
  <2>2. kept' \in Shrunk(c)
    BY <1>1, <1>2, <2>1 DEF WithinCapacity
  <2> QED
    BY <1>1, <1>2, <2>1, <2>2, ShrunkFits, EvictedIsDue
<1> QED
  BY <1>3, <1>4

\* Every step drops only what is due: a read or a prune takes expired jobs, an
\* insertion or a lowered capacity also evicts.
LEMMA StepDropsDue ==
  ASSUME IInv, [Next]_vars, NEW j \in Ids, Drops(j)
  PROVE  IsDue(j)
<1>1. j \in kept /\ j \notin kept'
  BY DEF Drops
<1>2. CASE Submit
  BY <1>2, SubmitDropsDue
<1>3. ASSUME NEW i \in Ids, Start(i) PROVE IsDue(j)
  BY <1>1, <1>3 DEF Start
<1>4. ASSUME NEW i \in Ids, NEW status \in Terminal, End(i, status) PROVE IsDue(j)
  BY <1>1, <1>4 DEF End
<1>5. ASSUME NEW i \in Ids, Poll(i) PROVE IsDue(j)
  BY <1>1, <1>5, ExpiredIsDue DEF Poll
<1>6. CASE Prune
  BY <1>1, <1>6, ExpiredIsDue DEF Prune, Fresh
<1>7. ASSUME NEW c \in Capacities, SetMaxCapacity(c) PROVE IsDue(j)
  BY <1>7, LoweringDropsDue
<1>8. ASSUME NEW t \in Ttls, SetTtl(t) PROVE IsDue(j)
  BY <1>1, <1>8 DEF SetTtl
<1>9. CASE Tick
  BY <1>1, <1>9 DEF Tick
<1>10. CASE UNCHANGED vars
  BY <1>1, <1>10 DEF vars
<1> QED
  BY <1>2, <1>3, <1>4, <1>5, <1>6, <1>7, <1>8, <1>9, <1>10 DEF Next

\* An active job is evicted only when nothing finished is left and nothing
\* older, and a young result only from a registry that stays full
\* (platform/jobs.ts evictOneCandidate, enforceCapacity).
THEOREM DueEvictions == Spec => DropsAreDue
<1>1. IInv /\ [Next]_vars => [\A j \in Ids : Drops(j) => IsDue(j)]_vars
  BY StepDropsDue
<1> QED
  BY Initially, Step, <1>1, PTL DEF Spec, DropsAreDue

-----------------------------------------------------------------------------
(* The calls are jobs of the registry *)

\* A call that ends is done or failed (runJobAsync).
LEMMA OutcomeEnds ==
  ASSUME NEW j \in Ids
  PROVE  Outcome(j) \in Terminal
BY DEF Outcome, Terminal

\* Every step of the calls is a step of the registry or leaves it alone.
LEMMA StepsOfRegistry ==
  ASSUME CallsNext
  PROVE  [Next]_vars
<1>1. CASE SubmitCall
  BY <1>1 DEF SubmitCall, Next
<1>2. ASSUME NEW j \in Ids, StartCall(j) PROVE [Next]_vars
  BY <1>2 DEF StartCall, Next
<1>3. ASSUME NEW j \in Ids, NEW turn \in Due(j), Begin(j, turn) PROVE [Next]_vars
  BY <1>3 DEF Begin
<1>4. ASSUME NEW j \in Ids, NEW turn \in Due(j), Settle(j, turn) PROVE [Next]_vars
  BY <1>4 DEF Settle
<1>5. ASSUME NEW j \in Ids, Finish(j) PROVE [Next]_vars
  BY <1>5, OutcomeEnds DEF Finish, Next
<1>6. CASE Forget
  BY <1>6 DEF Forget, Next
<1>7. ASSUME NEW p \in Projects, NEW state \in {"absent", "broken"}, Lose(p, state)
      PROVE  [Next]_vars
  BY <1>7 DEF Lose
<1> QED
  BY <1>1, <1>2, <1>3, <1>4, <1>5, <1>6, <1>7 DEF CallsNext

\* What holds of the registry alone holds of the registry with its calls: they
\* are composed as the run checks them (api/jobs/index.ts).
THEOREM CallsUseRegistry == CallsSpec => Spec
<1>1. CallsInit => Init
  BY DEF CallsInit
<1>2. [CallsNext]_allVars => [Next]_vars
  BY StepsOfRegistry DEF allVars
<1> QED
  BY <1>1, <1>2, PTL DEF CallsSpec, Spec

-----------------------------------------------------------------------------
(* The index of reports *)

Reports == [Cves -> Projects \cup {NoReport}]
IndexFile == [state : {"ok", "absent", "broken"}, reports : Reports]

\* Which turns of a call are over, and whether one is under way.
CallsTyped ==
  /\ over \in [Ids -> SUBSET (Nat \X Nat)]
  /\ busy \in [Ids -> BOOLEAN]

IndexTyped == memory \in Reports /\ disk \in [Projects -> IndexFile]

\* A stored report is in the file, unless the file was lost or spoiled since.
Lasting ==
  \A p \in Projects, c \in Cves :
    <<p, c>> \in stored =>
      \/ p \in spoiled
      \/ Readable(p) /\ disk[p].reports[c] # NoReport

\* A file that was always readable holds its own project's reports only.
Own ==
  \A p \in Projects, c \in Cves :
    Readable(p) /\ p \notin unreadable => disk[p].reports[c] \in {p, NoReport}

\* The inductive invariant of the calls.
CInv == CallsTyped /\ IndexTyped /\ Lasting /\ Own

\* A turn is one CVE of one project.
LEMMA TurnIs ==
  ASSUME NEW j \in Ids, NEW turn \in Turns(j)
  PROVE  /\ turn \in Nat \X Nat
         /\ turn[1] \in 1..Len(CallOf[j].targets)
         /\ Item(j, turn) \in [cwd : Projects, cve : Cves]
<1> DEFINE targets == CallOf[j].targets
<1>1. targets \in Seq(Targets)
  BY CallsAssumption
<1>2. PICK i \in 1..Len(targets) : turn \in {<<i, k>> : k \in 1..Len(targets[i].cves)}
  BY DEF Turns
<1>3. PICK k \in 1..Len(targets[i].cves) : turn = <<i, k>>
  BY <1>2
<1>4. targets[i] \in Targets
  BY <1>1, ElementOfSeq
<1>5. targets[i].cwd \in Projects /\ targets[i].cves \in Seq(Cves)
  BY <1>4 DEF Targets
<1>6. targets[i].cves[k] \in Cves
  BY <1>5, ElementOfSeq
<1>7. i \in Nat /\ k \in Nat
  OBVIOUS
<1> HIDE DEF targets
<1>8. Item(j, turn) = [cwd |-> targets[i].cwd, cve |-> targets[i].cves[k]]
  BY <1>3 DEF Item, targets
<1> QED
  BY <1>3, <1>5, <1>6, <1>7, <1>8 DEF targets

\* The loops are at one turn at a time (rankPortfolioTargets gives an order).
LEMMA OneIsDue ==
  ASSUME NEW j \in Ids, NEW s \in Due(j), NEW t \in Due(j)
  PROVE  s = t
<1> SUFFICES ASSUME s # t PROVE FALSE
  OBVIOUS
<1> DEFINE targets == CallOf[j].targets
           risk(n) == targets[n].risk
<1>1. s \in Turns(j) /\ t \in Turns(j) /\ Precedes(j, s, t) /\ Precedes(j, t, s)
  BY DEF Due, Left
<1>2. s \in Nat \X Nat /\ t \in Nat \X Nat
      /\ s[1] \in 1..Len(targets) /\ t[1] \in 1..Len(targets)
  BY <1>1, TurnIs
<1>3. risk(s[1]) \in Nat /\ risk(t[1]) \in Nat
  <2>1. targets \in Seq(Targets)
    BY CallsAssumption
  <2>2. targets[s[1]] \in Targets /\ targets[t[1]] \in Targets
    BY <1>2, <2>1, ElementOfSeq
  <2> QED
    BY <2>2 DEF Targets
<1>4. CASE s[1] = t[1]
  BY <1>1, <1>2, <1>4 DEF Precedes
<1>5. CASE s[1] # t[1]
  <2>1. Ranked(j, s[1], t[1]) /\ Ranked(j, t[1], s[1])
    BY <1>1, <1>5 DEF Precedes
  <2>2. CASE CallOf[j].campaign /\ risk(s[1]) # risk(t[1])
    <3>1. risk(s[1]) > risk(t[1]) /\ risk(t[1]) > risk(s[1])
      BY <2>1, <2>2 DEF Ranked
    <3> QED
      BY <1>3, <3>1
  <2>3. CASE ~(CallOf[j].campaign /\ risk(s[1]) # risk(t[1]))
    <3>1. s[1] < t[1] /\ t[1] < s[1]
      BY <2>1, <2>3 DEF Ranked
    <3> QED
      BY <1>2, <3>1
  <2> QED
    BY <2>2, <2>3
<1> QED
  BY <1>4, <1>5

\* What loadIndex returns maps CVEs to reports, whatever the file.
LEMMA IndexMaps ==
  ASSUME IndexTyped, NEW p \in Projects
  PROVE  Index(p) \in Reports
BY DEF IndexTyped, IndexFile, Index

\* Storing a report keeps the invariant: a readable file gets its own report
\* and keeps the others; an unreadable one is replaced by the object, and is
\* known as unreadable from then on (storeIdempotentReport).
LEMMA StoreKeeps ==
  ASSUME CInv, NEW j, NEW item \in [cwd : Projects, cve : Cves], Store(j, item),
         spoiled' = spoiled
  PROVE  IndexTyped' /\ Lasting' /\ Own'
<1> DEFINE p == item.cwd
           index == [Index(p) EXCEPT ![item.cve] = p]
<1>1. p \in Projects /\ item.cve \in Cves
  OBVIOUS
<1>2. index \in Reports /\ index[item.cve] = p
  BY <1>1, IndexMaps DEF CInv, Reports
<1>3. \A c \in Cves : c # item.cve => index[c] = Index(p)[c]
  BY <1>1, IndexMaps DEF CInv, Reports
<1>4. /\ unreadable' = IF Readable(p) THEN unreadable ELSE unreadable \cup {p}
      /\ memory' = IF Readable(p) THEN memory ELSE index
      /\ \/ /\ disk' = [disk EXCEPT ![p] = File(index)]
            /\ stored' = stored \cup {<<p, item.cve>>}
         \/ UNCHANGED <<disk, stored>>
  BY DEF Store, Asked
<1> HIDE DEF index, p
<1>5. File(index) \in IndexFile
  BY <1>2 DEF File, IndexFile
<1>6. IndexTyped'
  BY <1>1, <1>2, <1>4, <1>5 DEF CInv, IndexTyped
<1>7. CASE UNCHANGED <<disk, stored>>
  BY <1>4, <1>6, <1>7 DEF CInv, Lasting, Own, Readable
<1>8. CASE /\ disk' = [disk EXCEPT ![p] = File(index)]
           /\ stored' = stored \cup {<<p, item.cve>>}
  <2>1. /\ disk'[p].state = "ok" /\ disk'[p].reports = index
        /\ \A q \in Projects : q # p => disk'[q] = disk[q]
    BY <1>1, <1>8 DEF CInv, IndexTyped, File
  <2>2. Lasting'
    <3> SUFFICES ASSUME NEW q \in Projects, NEW c \in Cves, <<q, c>> \in stored',
                        q \notin spoiled
                 PROVE  disk'[q].state = "ok" /\ disk'[q].reports[c] # NoReport
      BY DEF Lasting, Readable
    <3>1. CASE q # p
      BY <1>8, <2>1, <3>1 DEF CInv, Lasting, Readable
    <3>2. CASE q = p /\ c = item.cve
      BY <1>1, <1>2, <2>1, <3>2, ReportAssumption
    <3>3. CASE q = p /\ c # item.cve
      <4>1. <<q, c>> \in stored
        BY <1>8, <3>3
      <4>2. Readable(p) /\ disk[p].reports[c] # NoReport
        BY <3>3, <4>1 DEF CInv, Lasting
      <4> QED
        BY <1>3, <2>1, <3>3, <4>2 DEF Index
    <3> QED
      BY <3>1, <3>2, <3>3
  <2>3. Own'
    <3> SUFFICES ASSUME NEW q \in Projects, NEW c \in Cves, q \notin unreadable',
                        disk'[q].state = "ok"
                 PROVE  disk'[q].reports[c] \in {q, NoReport}
      BY DEF Own, Readable
    <3>1. q \notin unreadable
      BY <1>4
    <3>2. CASE q # p
      BY <2>1, <3>1, <3>2 DEF CInv, Own, Readable
    <3>3. CASE q = p
      <4>1. Readable(p)
        BY <1>4, <3>3
      <4> QED
        BY <1>2, <1>3, <2>1, <3>1, <3>3, <4>1 DEF CInv, Own, Index
    <3> QED
      BY <3>2, <3>3
  <2> QED
    BY <1>6, <2>2, <2>3
<1> QED
  BY <1>4, <1>7, <1>8

\* Every step of the calls keeps the invariant.
LEMMA CallsStep ==
  ASSUME CInv, [CallsNext]_allVars
  PROVE  CInv'
<1>1. ASSUME UNCHANGED <<over, busy, memory, disk, stored, spoiled, unreadable>>
      PROVE  CInv'
  BY <1>1 DEF CInv, CallsTyped, IndexTyped, Lasting, Own, Readable
<1>2. CASE SubmitCall
  BY <1>1, <1>2 DEF SubmitCall, indexVars, callVars, history
<1>3. ASSUME NEW j \in Ids, StartCall(j) PROVE CInv'
  BY <1>1, <1>3 DEF StartCall, indexVars, callVars, history
<1>4. ASSUME NEW j \in Ids, NEW turn \in Due(j), Begin(j, turn) PROVE CInv'
  <2>1. /\ UNCHANGED <<memory, disk, stored, spoiled>>
        /\ unreadable \subseteq unreadable'
    BY <1>4 DEF Begin, indexVars, Asked
  <2>2. \/ over' = [over EXCEPT ![j] = @ \cup {turn}] /\ busy' = busy
        \/ busy' = [busy EXCEPT ![j] = TRUE] /\ over' = over
    BY <1>4 DEF Begin
  <2>3. turn \in Nat \X Nat
    BY TurnIs DEF Due, Left
  <2>4. CallsTyped'
    <3>1. CASE over' = [over EXCEPT ![j] = @ \cup {turn}] /\ busy' = busy
      BY <2>3, <3>1 DEF CInv, CallsTyped
    <3>2. CASE busy' = [busy EXCEPT ![j] = TRUE] /\ over' = over
      BY <3>2 DEF CInv, CallsTyped
    <3> QED
      BY <2>2, <3>1, <3>2
  <2> QED
    BY <2>1, <2>4 DEF CInv, IndexTyped, Lasting, Own, Readable
<1>5. ASSUME NEW j \in Ids, NEW turn \in Due(j), Settle(j, turn) PROVE CInv'
  <2>1. /\ spoiled' = spoiled
        /\ busy' = [busy EXCEPT ![j] = FALSE]
        /\ over' = [over EXCEPT ![j] = @ \cup {turn}]
        /\ \/ UNCHANGED <<memory, disk, stored, unreadable>>
           \/ Store(j, Item(j, turn))
    BY <1>5 DEF Settle, indexVars
  <2>2. turn \in Nat \X Nat /\ Item(j, turn) \in [cwd : Projects, cve : Cves]
    BY TurnIs DEF Due, Left
  <2>3. CallsTyped'
    BY <2>1, <2>2 DEF CInv, CallsTyped
  <2>4. CASE UNCHANGED <<memory, disk, stored, unreadable>>
    BY <2>1, <2>3, <2>4 DEF CInv, IndexTyped, Lasting, Own, Readable
  <2>5. CASE Store(j, Item(j, turn))
    BY <2>1, <2>2, <2>3, <2>5, StoreKeeps DEF CInv
  <2> QED
    BY <2>1, <2>4, <2>5
<1>6. ASSUME NEW j \in Ids, Finish(j) PROVE CInv'
  BY <1>1, <1>6 DEF Finish, indexVars, callVars, history
<1>7. CASE Forget
  BY <1>1, <1>7 DEF Forget, indexVars, callVars, history
<1>8. ASSUME NEW p \in Projects, NEW state \in {"absent", "broken"}, Lose(p, state)
      PROVE  CInv'
  <2>1. /\ disk' = [disk EXCEPT ![p] = Without(state)]
        /\ spoiled' = spoiled \cup {p}
        /\ UNCHANGED <<memory, over, busy, stored, unreadable>>
    BY <1>8 DEF Lose, callVars
  <2>2. Without(state) \in IndexFile /\ Without(state).state # "ok"
    BY DEF Without, IndexFile, Reports, Empty
  <2>3. CallsTyped' /\ IndexTyped'
    BY <2>1, <2>2 DEF CInv, CallsTyped, IndexTyped
  <2>4. \A q \in Projects : q # p => disk'[q] = disk[q]
    BY <2>1 DEF CInv, IndexTyped
  <2>5. disk'[p].state # "ok"
    BY <2>1, <2>2 DEF CInv, IndexTyped
  <2>6. Lasting'
    BY <2>1, <2>4 DEF CInv, Lasting, Readable
  <2>7. Own'
    BY <2>1, <2>4, <2>5 DEF CInv, Own, Readable
  <2> QED
    BY <2>3, <2>6, <2>7 DEF CInv
<1>9. CASE UNCHANGED allVars
  BY <1>1, <1>9 DEF allVars, indexVars, callVars, history
<1> QED
  BY <1>2, <1>3, <1>4, <1>5, <1>6, <1>7, <1>8, <1>9 DEF CallsNext

LEMMA CallsInitially == CallsInit => CInv
<1> SUFFICES ASSUME CallsInit PROVE CInv
  OBVIOUS
<1>1. PICK tracked \in Tracked :
        disk = [p \in Projects |-> IF p \in tracked THEN File(Empty)
                                   ELSE Without("absent")]
  BY DEF CallsInit
<1>2. Empty \in Reports
  BY DEF Empty, Reports
<1>3. File(Empty) \in IndexFile /\ Without("absent") \in IndexFile
  BY <1>2 DEF File, Without, IndexFile
<1>4. IndexTyped
  BY <1>1, <1>2, <1>3 DEF CallsInit, IndexTyped
<1>5. \A p \in Projects : disk[p].reports = Empty
  BY <1>1 DEF File, Without
<1>6. Lasting /\ Own
  BY <1>5 DEF CallsInit, Lasting, Own, Empty
<1> QED
  BY <1>4, <1>6 DEF CallsInit, CInv, CallsTyped

-----------------------------------------------------------------------------
(* What a resuming call does *)

\* Only the beginning of a remediation begins or resumes one, and what it finds
\* decides which (remediate).
LEMMA BeginIsSound ==
  ASSUME CInv, NEW j \in Ids, NEW turn \in Due(j), Begin(j, turn), CallOf[j].resume
  PROVE  IsSound(j)
<1> DEFINE p == Item(j, turn).cwd
           c == Item(j, turn).cve
           found == Index(p)[c]
<1>1. p \in Projects /\ c \in Cves
  <2>1. Item(j, turn) \in [cwd : Projects, cve : Cves]
    BY TurnIs DEF Due, Left
  <2> QED
    BY <2>1
<1>2. /\ ~busy[j]
      /\ unreadable' = IF Readable(p) THEN unreadable ELSE unreadable \cup {p}
      /\ IF found # NoReport
         THEN over' = [over EXCEPT ![j] = @ \cup {turn}] /\ busy' = busy
         ELSE over' = over
  BY DEF Begin, MayGoOn, Asked
<1> HIDE DEF p, c
<1>3. ASSUME Begins(j) PROVE <<p, c>> \notin stored \/ p \in spoiled
  <2>1. found = NoReport
    BY <1>2, <1>3 DEF Begins
  <2> QED
    BY <1>1, <2>1 DEF CInv, Lasting, Index
<1>4. ASSUME Resumes(j) PROVE found = p \/ p \in unreadable'
  <2>1. found # NoReport
    BY <1>2, <1>4 DEF Resumes
  <2> QED
    BY <1>1, <1>2, <2>1 DEF CInv, Own, Index
<1>5. \A t \in Due(j) : t = turn
  BY OneIsDue
<1> QED
  BY <1>3, <1>4, <1>5 DEF IsSound, p, c

LEMMA CallsStepSound ==
  ASSUME CInv, [CallsNext]_allVars, NEW j \in Ids, CallOf[j].resume
  PROVE  IsSound(j)
<1>1. ASSUME UNCHANGED <<over, busy>> PROVE IsSound(j)
  BY <1>1 DEF IsSound, Begins, Resumes
<1>2. CASE SubmitCall
  BY <1>1, <1>2 DEF SubmitCall, callVars
<1>3. ASSUME NEW i \in Ids, StartCall(i) PROVE IsSound(j)
  BY <1>1, <1>3 DEF StartCall, callVars
<1>4. ASSUME NEW i \in Ids, NEW turn \in Due(i), Begin(i, turn) PROVE IsSound(j)
  <2>1. CASE i = j
    BY <1>4, <2>1, BeginIsSound
  <2>2. CASE i # j
    <3>1. over'[j] = over[j] /\ busy'[j] = busy[j]
      BY <1>4, <2>2 DEF Begin, CInv, CallsTyped
    <3> QED
      BY <3>1 DEF IsSound, Begins, Resumes
  <2> QED
    BY <2>1, <2>2
<1>5. ASSUME NEW i \in Ids, NEW turn \in Due(i), Settle(i, turn) PROVE IsSound(j)
  <2>1. ~busy'[j] \/ busy[j]
    BY <1>5 DEF Settle, CInv, CallsTyped
  <2>2. ~busy[j] => over'[j] = over[j]
    BY <1>5 DEF Settle, CInv, CallsTyped
  <2> QED
    BY <2>1, <2>2 DEF IsSound, Begins, Resumes
<1>6. ASSUME NEW i \in Ids, Finish(i) PROVE IsSound(j)
  BY <1>1, <1>6 DEF Finish, callVars
<1>7. CASE Forget
  BY <1>1, <1>7 DEF Forget, callVars
<1>8. ASSUME NEW p \in Projects, NEW state \in {"absent", "broken"}, Lose(p, state)
      PROVE  IsSound(j)
  BY <1>1, <1>8 DEF Lose, callVars
<1>9. CASE UNCHANGED allVars
  BY <1>1, <1>9 DEF allVars, callVars
<1> QED
  BY <1>2, <1>3, <1>4, <1>5, <1>6, <1>7, <1>8, <1>9 DEF CallsNext

\* A resuming call repeats no remediation whose report is still on disk, and
\* takes another project's report for its own only where an index could not be
\* read (api/remediate/index.ts remediate, platform/idempotency.ts).
THEOREM ResumingIsSound == CallsSpec => ResumeIsSound
<1>1. CInv /\ [CallsNext]_allVars => CInv'
  BY CallsStep
<1>2. CInv /\ [CallsNext]_allVars
        => [\A j \in Ids : CallOf[j].resume => IsSound(j)]_allVars
  BY CallsStepSound
<1> QED
  BY CallsInitially, <1>1, <1>2, PTL DEF CallsSpec, ResumeIsSound

-----------------------------------------------------------------------------
(* The least element of a set of numbers *)

Less == {ss \in Nat \X Nat : ss[1] < ss[2]}

LEMMA LessIsWellFounded == IsWellFoundedOn(Less, Nat)
BY NatLessThanWellFounded DEF OpToRel, Less

\* The order of the numbers is well founded, so a set of them has a least element.
LEMMA Least ==
  ASSUME NEW I \in SUBSET Nat, I # {}
  PROVE  \E i \in I : \A j \in I : i <= j
<1>1. PICK i \in I : \A j \in I : ~(<<j, i>> \in Less)
  <2>1. \E i \in I : \A j \in I : ~(<<j, i>> \in Less)
    BY LessIsWellFounded, WFMin
  <2> QED
    BY <2>1
<1>2. ASSUME NEW j \in I PROVE i <= j
  <2>1. j < i => <<j, i>> \in Less
    BY DEF Less
  <2> QED
    BY <1>1, <2>1
<1> QED
  BY <1>2

-----------------------------------------------------------------------------
(* Delta *)

\* The versions that a lockfile has of a package are those of its entries, and
\* the tree is exposed to what those versions are (parseLockfileDependencies).
LEMMA Exposed ==
  ASSUME NEW lock \in Seq([name : Packages, version : Numbers]), NEW cves,
         NEW x \in D!Exposure(lock, cves)
  PROVE  /\ x[1] \in D!Names(lock)
         /\ \E f : x = <<x[1], f>> /\ \E v \in D!Resolved(lock, x[1]) : f \in cves[x[1]][v]
<1>1. PICK i \in 1..Len(lock) :
        x \in {<<lock[i].name, f>> : f \in cves[lock[i].name][lock[i].version]}
  BY DEF D!Exposure
<1>2. PICK f \in cves[lock[i].name][lock[i].version] : x = <<lock[i].name, f>>
  BY <1>1
<1>3. x[1] = lock[i].name /\ x = <<x[1], f>>
  BY <1>2
<1>4. lock[i].version \in D!Resolved(lock, x[1])
  BY <1>3 DEF D!Resolved, D!At
<1> QED
  BY <1>2, <1>3, <1>4 DEF D!Names

LEMMA Exposes ==
  ASSUME NEW lock \in Seq([name : Packages, version : Numbers]), NEW cves,
         NEW p, NEW v \in D!Resolved(lock, p), NEW f \in cves[p][v]
  PROVE  <<p, f>> \in D!Exposure(lock, cves)
BY DEF D!Exposure, D!Resolved, D!At

\* A version that only the new lockfile has is a change that is evaluated.
LEMMA NewVersionIsChange ==
  ASSUME NEW old, NEW new, NEW p \in D!Names(new),
         NEW v \in D!Resolved(new, p) \ D!Resolved(old, p)
  PROVE  \E c \in D!LockChanges(old, new) :
           c.package = p /\ c.new = v /\ D!Evaluated(c)
<1> DEFINE c == IF D!Resolved(old, p) = {} THEN D!Change(p, "added", 0, v)
                ELSE D!Change(p, D!Direction(D!First(old, p), v), D!First(old, p), v)
<1>1. c \in D!VersionChanges(p, old, new)
  BY DEF D!VersionChanges
<1>2. c.package = p /\ c.new = v /\ D!Evaluated(c)
  BY DEF D!Change, D!Direction, D!Evaluated
<1>3. c \in D!LockChanges(old, new)
  BY <1>1 DEF D!LockChanges
<1> QED
  BY <1>2, <1>3

\* What has changed in a package whose entry in package.json has not is a
\* change of the lockfile; a package with an "upgraded" change has the new
\* version, one with a "removed" change has gone.
LEMMA LockChange ==
  ASSUME NEW old, NEW new, NEW c \in D!LockChanges(old, new)
  PROVE  /\ c.kind = "upgraded" => c.new \in D!Resolved(new, c.package)
         /\ c.kind = "removed" => D!Resolved(new, c.package) = {}
<1>1. PICK p \in D!Names(old) \cup D!Names(new) : c \in D!VersionChanges(p, old, new)
  BY DEF D!LockChanges
<1>2. CASE c \in {IF D!Resolved(old, p) = {} THEN D!Change(p, "added", 0, v)
                  ELSE D!Change(p, D!Direction(D!First(old, p), v), D!First(old, p), v)
                    : v \in D!Resolved(new, p) \ D!Resolved(old, p)}
  BY <1>2 DEF D!Change, D!Direction
<1>3. CASE c \in {D!Change(p, "removed", v, 0) :
                    v \in IF D!Resolved(new, p) = {} THEN D!Resolved(old, p) ELSE {}}
  BY <1>3 DEF D!Change
<1> QED
  BY <1>1, <1>2, <1>3 DEF D!VersionChanges

\* DeltaMissesNothing, of one question.
LEMMA DeltaAnswer ==
  ASSUME NEW old, NEW new, NEW cves,
         old.lock \in Seq([name : Packages, version : Numbers]),
         new.lock \in Seq([name : Packages, version : Numbers])
  PROVE  LET report == D!ScanDelta(old, new, cves)
             before == D!Exposure(old.lock, cves)
             after == D!Exposure(new.lock, cves)
             direct == D!Direct(old, new)
         IN /\ \A x \in after \ before : x \in report.introduced \/ x[1] \in direct
            /\ \A x \in report.resolved \cap after :
                 x[1] \in direct \/ D!Several(new.lock, x[1])
            /\ report.verdict # "degraded" => \A x \in after \ before : x[1] \in direct
<1> DEFINE report == D!ScanDelta(old, new, cves)
           before == D!Exposure(old.lock, cves)
           after == D!Exposure(new.lock, cves)
           direct == D!Direct(old, new)
           changes == D!Changes(old, new)
<1>1. /\ report.introduced = D!IntroducedFindings(changes, cves)
      /\ report.resolved = D!ResolvedFindings(changes, cves)
      /\ report.verdict = D!Verdict(report.introduced, report.resolved)
  BY DEF D!ScanDelta
<1> HIDE DEF report
<1>2. ASSUME NEW x \in after \ before, x[1] \notin direct
      PROVE  x \in report.introduced
  <2>1. PICK f : x = <<x[1], f>>
                 /\ \E v \in D!Resolved(new.lock, x[1]) : f \in cves[x[1]][v]
    BY Exposed
  <2>2. PICK v \in D!Resolved(new.lock, x[1]) : f \in cves[x[1]][v]
    BY <2>1
  <2>3. v \notin D!Resolved(old.lock, x[1])
    BY <2>1, <2>2, Exposes
  <2>4. PICK c \in D!LockChanges(old.lock, new.lock) :
          c.package = x[1] /\ c.new = v /\ D!Evaluated(c)
    <3>1. x[1] \in D!Names(new.lock)
      BY Exposed
    <3>2. v \in D!Resolved(new.lock, x[1]) \ D!Resolved(old.lock, x[1])
      BY <2>3
    <3> QED
      BY <3>1, <3>2, NewVersionIsChange
  <2>5. c \in changes
    BY <1>2, <2>4 DEF D!Changes
  <2> QED
    BY <1>1, <2>1, <2>2, <2>4, <2>5 DEF D!IntroducedFindings
<1>3. ASSUME NEW x \in report.resolved \cap after, x[1] \notin direct
      PROVE  D!Several(new.lock, x[1])
  <2>1. PICK c \in changes :
          /\ c.kind \in {"upgraded", "removed"}
          /\ x \in {<<c.package, f>> : f \in cves[c.package][c.old]
                      \ (IF c.new = 0 THEN {} ELSE cves[c.package][c.new])}
    BY <1>1 DEF D!ResolvedFindings
  <2>2. x[1] = c.package /\ (c.new # 0 => x[2] \notin cves[x[1]][c.new])
    BY <2>1
  <2>3. c \in D!LockChanges(old.lock, new.lock)
    BY <1>3, <2>2 DEF D!Changes, D!Direct
  <2>4. PICK f : x = <<x[1], f>>
                 /\ \E v \in D!Resolved(new.lock, x[1]) : f \in cves[x[1]][v]
    BY Exposed
  <2>5. PICK v \in D!Resolved(new.lock, x[1]) : x[2] \in cves[x[1]][v]
    BY <2>4
  <2>6. c.new \in D!Resolved(new.lock, x[1])
    BY <2>1, <2>2, <2>3, <2>5, LockChange
  <2>7. c.new # 0
    <3>1. PICK i \in 1..Len(new.lock) : c.new = new.lock[i].version
      BY <2>6 DEF D!Resolved, D!At
    <3>2. new.lock[i] \in [name : Packages, version : Numbers]
      BY ElementOfSeq
    <3> QED
      BY <3>1, <3>2, LocksAssumption
  <2> QED
    BY <2>2, <2>5, <2>6, <2>7 DEF D!Several
<1>4. ASSUME report.verdict # "degraded" PROVE report.introduced = {}
  BY <1>1, <1>4 DEF D!Verdict
<1> QED
  BY <1>2, <1>3, <1>4 DEF report

-----------------------------------------------------------------------------
(* Reachability *)

\* A file whose use of the symbol is neither traced nor in a shape that the
\* trace does not see does not use it (traceSymbolInvocations).
LEMMA TracedOrUnseen ==
  ASSUME NEW f \in R!Files, f.use # "none", ~R!Hidden(f), ~R!Invoked(f)
  PROVE  R!Unseen(f)
<1>1. f.use \in {"call", "value"} /\ f.name \in R!Names /\ f.reference \in R!References
  BY DEF R!Files, R!Uses
<1>2. R!WellFormed(f)
  BY DEF R!Files
<1>3. CASE f.use = "value"
  BY <1>3 DEF R!Unseen
<1>4. CASE f.use = "call"
  BY <1>1, <1>2, <1>4 DEF R!WellFormed, R!Hidden, R!Unseen, R!Invoked, R!ImportedName,
                          R!Direct, R!Names, R!References
<1> QED
  BY <1>1, <1>3, <1>4

\* NotReachableMisses, of one question.
LEMMA ReachabilityAnswer ==
  ASSUME NEW files \in SUBSET R!Files, NEW withSymbol \in BOOLEAN, NEW below,
         R!Assess(files, withSymbol, below) = "not-reachable"
  PROVE  /\ \A f \in files : f.use # "none" => R!Hidden(f) \/ (withSymbol /\ R!Unseen(f))
         /\ \A f \in files : f.reference = "reexport" => R!Hidden(f)
         /\ below = "direct" =>
              \/ \A f \in files : f.reference = "parent" => R!Hidden(f)
              \/ \E f \in files : ~R!Hidden(f) /\ f.reference \notin {"none", "parent"}
<1>1. ~\A f \in files : f.scan = "skipped"
  BY DEF R!Assess
<1>2. CASE R!Referring(files) = {}
  <2>1. \A f \in files : R!Hidden(f) \/ f.reference \in {"none", "parent"}
    BY <1>2 DEF R!Referring
  <2>2. \A f \in files : R!Hidden(f) \/ f.use = "none"
    BY <2>1 DEF R!Files, R!WellFormed
  <2>3. ~R!TransitiveDependency(files, below)
    BY <1>1, <1>2 DEF R!Assess
  <2>4. below = "direct" => \A f \in files : f.reference = "parent" => R!Hidden(f)
    BY <2>3 DEF R!TransitiveDependency, R!Hidden
  <2> QED
    BY <2>1, <2>2, <2>4
<1>3. CASE R!Referring(files) # {}
  <2>1. withSymbol /\ \A f \in R!Referring(files) : f.reference # "reexport" /\ ~R!Invoked(f)
    BY <1>1, <1>3 DEF R!Assess
  <2>2. \A f \in files : f.reference \in {"none", "parent"} => f.use = "none"
    BY DEF R!Files, R!WellFormed
  <2>3. \E f \in files : ~R!Hidden(f) /\ f.reference \notin {"none", "parent"}
    BY <1>3 DEF R!Referring
  <2> QED
    BY <2>1, <2>2, <2>3, TracedOrUnseen DEF R!Referring
<1> QED
  BY <1>2, <1>3

-----------------------------------------------------------------------------
(* The order of versions *)

\* semver compares the parts in their order.
LEMMA BeforeIs ==
  ASSUME NEW v \in A!Version, NEW w \in A!Version
  PROVE  A!Before(v, w) <=>
           \/ v[1] < w[1]
           \/ v[1] = w[1] /\ v[2] < w[2]
           \/ v[1] = w[1] /\ v[2] = w[2] /\ v[3] < w[3]
           \/ v[1] = w[1] /\ v[2] = w[2] /\ v[3] = w[3] /\ v[4] < w[4]
<1> DEFINE Here(i) == v[i] < w[i] /\ \A j \in 1..(i - 1) : v[j] = w[j]
<1>1. 1..4 = {1, 2, 3, 4}
  OBVIOUS
<1>2. A!Before(v, w) <=> Here(1) \/ Here(2) \/ Here(3) \/ Here(4)
  BY <1>1 DEF A!Before
<1>3. 1..(1 - 1) = {} /\ 1..(2 - 1) = {1} /\ 1..(3 - 1) = {1, 2} /\ 1..(4 - 1) = {1, 2, 3}
  OBVIOUS
<1>4. Here(1) <=> v[1] < w[1]
  BY <1>3
<1>5. Here(2) <=> v[1] = w[1] /\ v[2] < w[2]
  BY <1>3
<1>6. Here(3) <=> v[1] = w[1] /\ v[2] = w[2] /\ v[3] < w[3]
  BY <1>3
<1>7. Here(4) <=> v[1] = w[1] /\ v[2] = w[2] /\ v[3] = w[3] /\ v[4] < w[4]
  BY <1>3
<1> QED
  BY <1>2, <1>4, <1>5, <1>6, <1>7

\* A version is its four parts.
LEMMA Parts ==
  ASSUME NEW v \in A!Version
  PROVE  /\ v[1] \in Nat /\ v[2] \in Nat /\ v[3] \in Nat /\ v[4] \in {0, 1}
         /\ v = <<v[1], v[2], v[3], v[4]>>
         /\ v # A!NoVersion
<1>1. v[1] \in Nat /\ v[2] \in Nat /\ v[3] \in Nat /\ v[4] \in {0, 1}
      /\ v = <<v[1], v[2], v[3], v[4]>>
  BY DEF A!Version
<1>2. <<v[1], v[2], v[3], v[4]>> # <<>>
  OBVIOUS
<1> QED
  BY <1>1, <1>2 DEF A!NoVersion

\* It is a linear order.
LEMMA Linear ==
  ASSUME NEW v \in A!Version, NEW w \in A!Version
  PROVE  A!Before(v, w) <=> ~A!AtMost(w, v)
<1>1. v = w <=> v[1] = w[1] /\ v[2] = w[2] /\ v[3] = w[3] /\ v[4] = w[4]
  BY Parts
<1> QED
  BY <1>1, BeforeIs, Parts DEF A!AtMost

LEMMA Transitive ==
  ASSUME NEW u \in A!Version, NEW v \in A!Version, NEW w \in A!Version,
         A!AtMost(u, v), A!AtMost(v, w)
  PROVE  A!AtMost(u, w)
<1>1. ~A!Before(v, u) /\ ~A!Before(w, v)
  BY Linear
<1>2. ~A!Before(w, u)
  BY <1>1, BeforeIs, Parts
<1> QED
  BY <1>2, Linear

\* A set of versions has a lowest one.
LEMMA LowestIs ==
  ASSUME NEW vs \in SUBSET A!Version, vs # {}
  PROVE  A!Lowest(vs) \in vs /\ \A w \in vs : A!AtMost(A!Lowest(vs), w)
<1>1. PICK a \in {v[1] : v \in vs} : \A b \in {v[1] : v \in vs} : a <= b
  <2>1. {v[1] : v \in vs} \in SUBSET Nat /\ {v[1] : v \in vs} # {}
    BY Parts
  <2> QED
    BY <2>1, Least
<1> DEFINE S1 == {v \in vs : v[1] = a}
<1>2. PICK b \in {v[2] : v \in S1} : \A c \in {v[2] : v \in S1} : b <= c
  <2>1. {v[2] : v \in S1} \in SUBSET Nat /\ {v[2] : v \in S1} # {}
    BY Parts
  <2> QED
    BY <2>1, Least
<1> DEFINE S2 == {v \in S1 : v[2] = b}
<1>3. PICK c \in {v[3] : v \in S2} : \A d \in {v[3] : v \in S2} : c <= d
  <2>1. {v[3] : v \in S2} \in SUBSET Nat /\ {v[3] : v \in S2} # {}
    BY Parts
  <2> QED
    BY <2>1, Least
<1> DEFINE S3 == {v \in S2 : v[3] = c}
<1>4. PICK d \in {v[4] : v \in S3} : \A e \in {v[4] : v \in S3} : d <= e
  <2>1. {v[4] : v \in S3} \in SUBSET Nat /\ {v[4] : v \in S3} # {}
    BY Parts
  <2> QED
    BY <2>1, Least
<1>5. PICK v \in S3 : v[4] = d
  OBVIOUS
<1>6. ASSUME NEW w \in vs PROVE ~A!Before(w, v)
  <2>1. v[1] <= w[1]
    BY <1>1
  <2>2. w[1] = v[1] => v[2] <= w[2]
    BY <1>2
  <2>3. w[1] = v[1] /\ w[2] = v[2] => v[3] <= w[3]
    BY <1>3
  <2>4. w[1] = v[1] /\ w[2] = v[2] /\ w[3] = v[3] => v[4] <= w[4]
    BY <1>4, <1>5
  <2>5. v \in A!Version /\ w \in A!Version
    OBVIOUS
  <2> HIDE DEF S1, S2, S3
  <2> QED
    BY <2>1, <2>2, <2>3, <2>4, <2>5, BeforeIs, Parts
<1>7. v \in vs /\ \A w \in vs : A!AtMost(v, w)
  BY <1>6, Linear
<1> QED
  BY <1>7 DEF A!Lowest

-----------------------------------------------------------------------------
(* The safe upgrade *)

\* What classifyUpgradeLevel tells of a version.
LEMMA LevelIs ==
  ASSUME NEW i \in A!Version, NEW v \in A!Version
  PROVE  /\ A!UpgradeLevel(i, v) \in {"none"} \cup A!Levels
         /\ A!UpgradeLevel(i, v) = "none" <=> ~A!AtMost(i, v)
         /\ A!UpgradeLevel(i, v) = "patch" => v[1] = i[1] /\ v[2] = i[2]
         /\ A!UpgradeLevel(i, v) = "minor" => v[1] = i[1]
         /\ A!AtMost(i, v) /\ v[1] = i[1] /\ v[2] = i[2] => A!UpgradeLevel(i, v) = "patch"
         /\ A!AtMost(i, v) /\ v[1] = i[1] => A!UpgradeLevel(i, v) \in {"patch", "minor"}
BY Linear, BeforeIs, Parts DEF A!UpgradeLevel, A!Levels

LEMMA OfLevelIs ==
  ASSUME NEW i \in A!Version, NEW cands \in SUBSET A!Version, NEW level
  PROVE  LET vs == {v \in cands : A!UpgradeLevel(i, v) = level}
             best == A!OfLevel(i, cands, level)
         IN /\ best # A!NoVersion <=> vs # {}
            /\ vs # {} => best \in vs /\ \A v \in vs : A!AtMost(best, v)
<1> DEFINE vs == {v \in cands : A!UpgradeLevel(i, v) = level}
<1>1. CASE vs = {}
  BY <1>1 DEF A!OfLevel
<1>2. CASE vs # {}
  <2>1. A!Lowest(vs) \in vs /\ \A v \in vs : A!AtMost(A!Lowest(vs), v)
    BY <1>2, LowestIs
  <2>2. A!Lowest(vs) # A!NoVersion
    BY <2>1, Parts
  <2>3. A!OfLevel(i, cands, level) = A!Lowest(vs)
    BY <1>2 DEF A!OfLevel
  <2>4. A!OfLevel(i, cands, level) # A!NoVersion
    BY <2>2, <2>3
  <2> QED
    BY <1>2, <2>1, <2>3, <2>4
<1> QED
  BY <1>1, <1>2

\* The upgrade is one of the candidates and no downgrade; there is one when a
\* candidate is no downgrade, and it stays as close as a candidate allows.
LEMMA ResolveIs ==
  ASSUME NEW i \in A!Version, NEW published \in SUBSET A!Version, NEW floor, NEW range
  PROVE  LET cands == A!Candidates(published, floor, range)
             fix == A!Resolve(i, published, floor, range)
         IN /\ fix # A!NoVersion => fix \in cands /\ A!AtMost(i, fix)
            /\ \A v \in cands : A!AtMost(i, v) =>
                 /\ fix # A!NoVersion
                 /\ v[1] = i[1] => fix[1] = v[1]
                 /\ v[1] = i[1] /\ v[2] = i[2] => A!AtMost(fix, v)
<1> DEFINE cands == A!Candidates(published, floor, range)
           fix == A!Resolve(i, published, floor, range)
           best(level) == A!OfLevel(i, cands, level)
           At(level) == {v \in cands : A!UpgradeLevel(i, v) = level}
<1>1. cands \in SUBSET A!Version
  BY DEF A!Candidates
<1>2. fix = IF best("patch") # A!NoVersion THEN best("patch")
            ELSE IF best("minor") # A!NoVersion THEN best("minor") ELSE best("major")
  BY DEF A!Resolve, A!Levels
<1> HIDE DEF cands, fix
<1>3. \A level : /\ best(level) # A!NoVersion <=> At(level) # {}
                 /\ At(level) # {} => /\ best(level) \in At(level)
                                      /\ \A v \in At(level) : A!AtMost(best(level), v)
  BY <1>1, OfLevelIs
<1> HIDE DEF best
<1>4. ASSUME fix # A!NoVersion PROVE fix \in cands /\ A!AtMost(i, fix)
  <2>1. PICK level \in A!Levels : fix = best(level)
    BY <1>2 DEF A!Levels
  <2>2. fix \in At(level)
    BY <1>3, <1>4, <2>1
  <2>3. level # "none"
    BY DEF A!Levels
  <2> QED
    BY <1>1, <2>2, <2>3, LevelIs
<1>5. ASSUME NEW v \in cands, A!AtMost(i, v)
      PROVE  /\ fix # A!NoVersion
             /\ v[1] = i[1] => fix[1] = v[1]
             /\ v[1] = i[1] /\ v[2] = i[2] => A!AtMost(fix, v)
  <2> DEFINE level == A!UpgradeLevel(i, v)
  <2>1. v \in A!Version /\ level \in A!Levels /\ v \in At(level)
    BY <1>1, <1>5, LevelIs
  <2>2. best(level) # A!NoVersion
    BY <1>3, <2>1
  <2>3. level = "patch" \/ level = "minor" \/ level = "major"
    BY <2>1 DEF A!Levels
  <2>4. fix # A!NoVersion
    BY <1>2, <2>2, <2>3
  <2>5. ASSUME v[1] = i[1], v[2] = i[2] PROVE A!AtMost(fix, v)
    <3>1. level = "patch"
      BY <1>5, <2>1, <2>5, LevelIs
    <3> QED
      BY <1>2, <1>3, <2>1, <2>2, <3>1
  <2>6. ASSUME v[1] = i[1] PROVE fix[1] = v[1]
    <3>1. level \in {"patch", "minor"}
      BY <1>5, <2>1, <2>6, LevelIs
    <3>2. \/ fix = best("patch") /\ best("patch") # A!NoVersion
          \/ fix = best("minor") /\ best("minor") # A!NoVersion
      <4>1. CASE level = "patch"
        BY <1>2, <2>2, <4>1
      <4>2. CASE level = "minor"
        BY <1>2, <2>2, <4>2
      <4> QED
        BY <3>1, <4>1, <4>2
    <3>3. fix \in At("patch") \cup At("minor")
      BY <1>3, <3>2
    <3> QED
      BY <1>1, <2>6, <3>3, LevelIs
  <2> QED
    BY <2>4, <2>5, <2>6
<1> QED
  BY <1>4, <1>5 DEF cands, fix

-----------------------------------------------------------------------------
(* Induction on the numbers *)

\* A set of numbers that has 0 and, with each number, the next one, has all.
LEMMA Induction ==
  ASSUME NEW N \in SUBSET Nat, 0 \in N, \A n \in N : n + 1 \in N
  PROVE  N = Nat
<1> SUFFICES ASSUME Nat \ N # {} PROVE FALSE
  OBVIOUS
<1>1. PICK m \in Nat \ N : \A j \in Nat \ N : m <= j
  BY Least
<1>2. m # 0 /\ m - 1 \in Nat /\ m - 1 \notin Nat \ N
  BY <1>1
<1> QED
  BY <1>1, <1>2

-----------------------------------------------------------------------------
(* Flattening *)

\* What FlattenSeq builds up exists.
LEMMA FlattenStep ==
  ASSUME NEW ss, NEW n \in Nat
  PROVE  \E g : g = [i \in 1..n |-> IF i = 1 THEN ss[i] ELSE g[i - 1] \o ss[i]]
<1> DEFINE Eq(g, m) == g = [i \in 1..m |-> IF i = 1 THEN ss[i] ELSE g[i - 1] \o ss[i]]
           N == {m \in Nat : \E g : Eq(g, m)}
<1>1. 0 \in N
  <2>1. Eq([i \in 1..0 |-> ss], 0)
    OBVIOUS
  <2> QED
    BY <2>1
<1>2. ASSUME NEW m \in N PROVE m + 1 \in N
  <2>1. m \in Nat /\ \E g : Eq(g, m)
    OBVIOUS
  <2>2. PICK g : Eq(g, m)
    BY <2>1
  <2> DEFINE h == [i \in 1..(m + 1) |-> IF i = 1 THEN ss[i] ELSE g[i - 1] \o ss[i]]
  <2>3. ASSUME NEW i \in 1..m PROVE h[i] = g[i]
    <3>1. g[i] = IF i = 1 THEN ss[i] ELSE g[i - 1] \o ss[i]
      BY <2>2
    <3> QED
      BY <3>1, <2>1
  <2>4. h = [i \in 1..(m + 1) |-> IF i = 1 THEN ss[i] ELSE h[i - 1] \o ss[i]]
    <3>1. ASSUME NEW i \in 1..(m + 1), i # 1 PROVE h[i - 1] = g[i - 1]
      <4>1. i - 1 \in 1..m
        BY <3>1, <2>1
      <4> HIDE DEF h
      <4> QED
        BY <4>1, <2>3
    <3> DEFINE new(i) == IF i = 1 THEN ss[i] ELSE h[i - 1] \o ss[i]
               old(i) == IF i = 1 THEN ss[i] ELSE g[i - 1] \o ss[i]
    <3>2. \A i \in 1..(m + 1) : old(i) = new(i)
      BY <3>1
    <3>3. h = [i \in 1..(m + 1) |-> old(i)]
      OBVIOUS
    <3> HIDE DEF old, h
    <3>4. h = [i \in 1..(m + 1) |-> new(i)]
      BY <3>2, <3>3, Zenon
    <3> QED
      BY <3>4
  <2>5. m + 1 \in Nat /\ \E k : Eq(k, m + 1)
    <3>1. Eq(h, m + 1)
      BY <2>4
    <3> HIDE DEF h, Eq
    <3> QED
      BY <2>1, <3>1
  <2> QED
    BY <2>5
<1>3. N = Nat
  <2> HIDE DEF N
  <2>1. N \in SUBSET Nat
    BY DEF N
  <2> QED
    BY <1>1, <1>2, <2>1, Induction
<1> QED
  BY <1>3

\* Its equations.
LEMMA FlattenEmpty == F!FlattenSeq(<<>>) = <<>>
BY DEF F!FlattenSeq

LEMMA FlattenIs ==
  ASSUME NEW ss, Len(ss) \in Nat \ {0}
  PROVE  \E g : /\ g = [i \in 1..Len(ss) |-> IF i = 1 THEN ss[i] ELSE g[i - 1] \o ss[i]]
                /\ F!FlattenSeq(ss) = g[Len(ss)]
<1> DEFINE Eq(g) == g = [i \in 1..Len(ss) |-> IF i = 1 THEN ss[i] ELSE g[i - 1] \o ss[i]]
           f == CHOOSE g : Eq(g)
<1>1. \E g : Eq(g)
  BY FlattenStep
<1>2. Eq(f)
  BY <1>1
<1>3. F!FlattenSeq(ss) = f[Len(ss)]
  BY DEF F!FlattenSeq
<1> QED
  BY <1>2, <1>3

\* FlattenSeq by prefixes: what it makes of the first n sequences.
LEMMA Flatten ==
  ASSUME NEW T, NEW ss \in Seq(Seq(T))
  PROVE  \E f \in [0..Len(ss) -> Seq(T)] :
           /\ f[0] = <<>>
           /\ \A n \in 1..Len(ss) : f[n] = f[n - 1] \o ss[n]
           /\ \A n \in 0..Len(ss) : f[n] = F!FlattenSeq(SubSeq(ss, 1, n))
           /\ f[Len(ss)] = F!FlattenSeq(ss)
<1>0. /\ Len(ss) \in Nat /\ \A n \in 1..Len(ss) : ss[n] \in Seq(T)
      /\ SubSeq(ss, 1, Len(ss)) = ss /\ SubSeq(ss, 1, 0) = <<>>
  BY SubSeqFull, SubSeqEmpty
<1>1. CASE Len(ss) = 0
  <2> DEFINE f == [n \in {0} |-> <<>>]
  <2>1. ss = <<>> /\ 0..Len(ss) = {0} /\ 1..Len(ss) = {}
    BY <1>1
  <2>2. f \in [0..Len(ss) -> Seq(T)] /\ f[0] = <<>>
    BY <2>1, EmptySeq
  <2> HIDE DEF f
  <2> QED
    BY <1>0, <2>1, <2>2, FlattenEmpty
<1>2. CASE Len(ss) # 0
  <2>1. PICK g : /\ g = [i \in 1..Len(ss) |-> IF i = 1 THEN ss[i] ELSE g[i - 1] \o ss[i]]
                 /\ F!FlattenSeq(ss) = g[Len(ss)]
    BY <1>0, <1>2, FlattenIs
  <2>2. /\ g[1] = ss[1]
        /\ \A i \in 1..Len(ss) : i # 1 => g[i] = g[i - 1] \o ss[i]
    <3>1. \A i \in 1..Len(ss) : g[i] = IF i = 1 THEN ss[i] ELSE g[i - 1] \o ss[i]
      BY <2>1
    <3>2. 1 \in 1..Len(ss)
      BY <1>0, <1>2
    <3>3. g[1] = ss[1]
      BY <3>1, <3>2
    <3>4. ASSUME NEW i \in 1..Len(ss), i # 1 PROVE g[i] = g[i - 1] \o ss[i]
      BY <3>1, <3>4
    <3> QED
      BY <3>3, <3>4
  <2>3. \A n \in 1..Len(ss) : g[n] \in Seq(T)
    <3> DEFINE N == {n \in Nat : n + 1 \in 1..Len(ss) => g[n + 1] \in Seq(T)}
    <3>1. 0 \in N
      BY <1>0, <2>2
    <3>2. ASSUME NEW n \in N PROVE n + 1 \in N
      <4>1. n + 1 \in Nat
        OBVIOUS
      <4>2. ASSUME (n + 1) + 1 \in 1..Len(ss) PROVE g[(n + 1) + 1] \in Seq(T)
        <5>1. n + 1 \in 1..Len(ss) /\ ((n + 1) + 1) - 1 = n + 1 /\ (n + 1) + 1 # 1
          BY <1>0, <4>2
        <5>2. g[n + 1] \in Seq(T)
          BY <5>1
        <5>3. g[(n + 1) + 1] = g[n + 1] \o ss[(n + 1) + 1]
          BY <2>2, <4>2, <5>1
        <5> QED
          BY <1>0, <4>2, <5>2, <5>3, ConcatProperties
      <4> QED
        BY <4>1, <4>2
    <3>3. N = Nat
      <4>1. N \in SUBSET Nat
        OBVIOUS
      <4> HIDE DEF N
      <4> QED
        BY <3>1, <3>2, <4>1, Induction
    <3>4. ASSUME NEW n \in 1..Len(ss) PROVE g[n] \in Seq(T)
      <4>1. n - 1 \in Nat /\ (n - 1) + 1 = n
        BY <1>0
      <4>2. n - 1 \in N
        BY <3>3, <4>1, Zenon
      <4> QED
        BY <4>1, <4>2
    <3> QED
      BY <3>4
  <2>4. ASSUME NEW n \in 1..Len(ss) PROVE F!FlattenSeq(SubSeq(ss, 1, n)) = g[n]
    <3> DEFINE pre == SubSeq(ss, 1, n)
    <3>1. /\ n \in Nat \ {0} /\ pre \in Seq(Seq(T)) /\ Len(pre) = n
          /\ \A i \in 1..n : pre[i] = ss[i]
      BY <1>0
    <3> HIDE DEF pre
    <3>2. PICK h : /\ h = [i \in 1..Len(pre) |-> IF i = 1 THEN pre[i] ELSE h[i - 1] \o pre[i]]
                   /\ F!FlattenSeq(pre) = h[Len(pre)]
      BY <3>1, FlattenIs
    <3>3. \A i \in 1..n : h[i] = IF i = 1 THEN pre[i] ELSE h[i - 1] \o pre[i]
      BY <3>1, <3>2
    <3> DEFINE N == {m \in Nat : m + 1 \in 1..n => h[m + 1] = g[m + 1]}
    <3>4. 0 \in N
      BY <1>0, <2>2, <3>1, <3>3
    <3>5. ASSUME NEW m \in N PROVE m + 1 \in N
      <4>1. m + 1 \in Nat
        OBVIOUS
      <4>2. ASSUME (m + 1) + 1 \in 1..n PROVE h[(m + 1) + 1] = g[(m + 1) + 1]
        <5>1. /\ m + 1 \in 1..n /\ ((m + 1) + 1) - 1 = m + 1 /\ (m + 1) + 1 # 1
              /\ (m + 1) + 1 \in 1..Len(ss)
          BY <1>0, <3>1, <4>2
        <5>2. h[m + 1] = g[m + 1]
          BY <5>1
        <5>3. h[(m + 1) + 1] = h[m + 1] \o pre[(m + 1) + 1]
          BY <3>3, <4>2, <5>1
        <5>4. g[(m + 1) + 1] = g[m + 1] \o ss[(m + 1) + 1]
          BY <2>2, <5>1
        <5> QED
          BY <3>1, <4>2, <5>2, <5>3, <5>4
      <4> QED
        BY <4>1, <4>2
    <3>6. N = Nat
      <4>1. N \in SUBSET Nat
        OBVIOUS
      <4> HIDE DEF N
      <4> QED
        BY <3>4, <3>5, <4>1, Induction
    <3>7. n - 1 \in Nat /\ (n - 1) + 1 = n /\ n \in 1..n
      BY <3>1
    <3>8. n - 1 \in N
      BY <3>6, <3>7, Zenon
    <3>9. h[n] = g[n]
      BY <3>7, <3>8
    <3> QED
      BY <3>1, <3>2, <3>9 DEF pre
  <2> DEFINE f == [n \in 0..Len(ss) |-> IF n = 0 THEN <<>> ELSE g[n]]
  <2>5. f \in [0..Len(ss) -> Seq(T)]
    BY <1>0, <2>3, EmptySeq
  <2>6. f[0] = <<>> /\ \A n \in 1..Len(ss) : f[n] = g[n]
    BY <1>0
  <2>7. ASSUME NEW n \in 1..Len(ss) PROVE f[n] = f[n - 1] \o ss[n]
    <3> HIDE DEF f
    <3>1. CASE n = 1
      BY <1>0, <2>2, <2>6, <3>1, ConcatEmptySeq, SMTT(40)
    <3>2. CASE n # 1
      <4>1. n - 1 \in 1..Len(ss)
        BY <1>0, <3>2
      <4> QED
        BY <2>2, <2>6, <3>2, <4>1
    <3> QED
      BY <3>1, <3>2
  <2>8. ASSUME NEW n \in 0..Len(ss) PROVE f[n] = F!FlattenSeq(SubSeq(ss, 1, n))
    <3> HIDE DEF f
    <3>1. n = 0 \/ n \in 1..Len(ss)
      BY <1>0
    <3> QED
      BY <1>0, <2>4, <2>6, <3>1, FlattenEmpty
  <2>9. f[Len(ss)] = F!FlattenSeq(ss)
    <3> HIDE DEF f
    <3>1. Len(ss) \in 1..Len(ss)
      BY <1>0, <1>2
    <3> QED
      BY <2>1, <2>6, <3>1
  <2> HIDE DEF f
  <2> QED
    BY <2>5, <2>6, <2>7, <2>8, <2>9
<1> QED
  BY <1>1, <1>2

\* A sequence that is empty but for one place flattens to what is there.
LEMMA FlattenOne ==
  ASSUME NEW T, NEW ss \in Seq(Seq(T)), NEW i \in 1..Len(ss),
         \A j \in 1..Len(ss) : j # i => ss[j] = <<>>
  PROVE  F!FlattenSeq(ss) = ss[i]
<1>1. PICK f \in [0..Len(ss) -> Seq(T)] :
        /\ f[0] = <<>>
        /\ \A n \in 1..Len(ss) : f[n] = f[n - 1] \o ss[n]
        /\ f[Len(ss)] = F!FlattenSeq(ss)
  BY Flatten
<1>2. Len(ss) \in Nat /\ \A n \in 1..Len(ss) : ss[n] \in Seq(T)
  OBVIOUS
<1> DEFINE N == {n \in Nat : n \in 0..Len(ss) => f[n] = IF n < i THEN <<>> ELSE ss[i]}
<1>3. 0 \in N
  BY <1>1, <1>2
<1>4. ASSUME NEW n \in N PROVE n + 1 \in N
  <2>1. n + 1 \in Nat
    OBVIOUS
  <2>2. ASSUME n + 1 \in 0..Len(ss) PROVE f[n + 1] = IF n + 1 < i THEN <<>> ELSE ss[i]
    <3>1. n \in 0..Len(ss) /\ n + 1 \in 1..Len(ss) /\ (n + 1) - 1 = n
      BY <2>2, <1>2
    <3>2. f[n] = IF n < i THEN <<>> ELSE ss[i]
      BY <3>1
    <3>3. f[n + 1] = f[n] \o ss[n + 1]
      BY <1>1, <3>1
    <3>4. CASE n + 1 = i
      <4>1. f[n] = <<>>
        BY <3>2, <3>4
      <4>2. f[n + 1] = ss[i]
        BY <1>2, <3>3, <3>4, <4>1, ConcatEmptySeq
      <4> QED
        BY <3>4, <4>2
    <3>5. CASE n + 1 # i
      <4>1. ss[n + 1] = <<>>
        BY <3>1, <3>5
      <4>2. f[n] \in Seq(T)
        BY <3>1
      <4>3. f[n + 1] = f[n]
        BY <3>3, <4>1, <4>2, ConcatEmptySeq
      <4>4. n < i <=> n + 1 < i
        BY <3>5
      <4> QED
        BY <3>2, <4>3, <4>4
    <3> QED
      BY <3>4, <3>5
  <2> QED
    BY <2>1, <2>2
<1>5. N = Nat
  <2>1. N \in SUBSET Nat
    OBVIOUS
  <2> HIDE DEF N
  <2> QED
    BY <1>3, <1>4, <2>1, Induction
<1>6. Len(ss) \in N
  BY <1>2, <1>5, Zenon
<1> QED
  BY <1>1, <1>2, <1>6

LEMMA FlattenNone ==
  ASSUME NEW T, NEW ss \in Seq(Seq(T)), \A j \in 1..Len(ss) : ss[j] = <<>>
  PROVE  F!FlattenSeq(ss) = <<>>
<1>1. CASE Len(ss) = 0
  <2>1. ss = <<>>
    BY <1>1
  <2> QED
    BY <2>1, FlattenEmpty
<1>2. CASE Len(ss) # 0
  <2>1. 1 \in 1..Len(ss) /\ ss[1] = <<>>
    BY <1>2
  <2> QED
    BY <2>1, FlattenOne
<1> QED
  BY <1>1, <1>2

-----------------------------------------------------------------------------
(* Edits of one text *)

\* Pieces can be joined in any order.
LEMMA Associative ==
  \A T : \A s, t, u \in Seq(T) : (s \o t) \o u = s \o (t \o u)
BY ConcatAssociative

EditOf(T) == [start : Nat, end : Nat, text : Seq(T)]

\* Edits that remove something, within a text of n tokens.
Within(edits, n) ==
  \A i \in DOMAIN edits : edits[i].start < edits[i].end /\ edits[i].end <= n

\* Of some edits one is applied last.
LEMMA OneIsLast ==
  ASSUME NEW T, NEW edits \in Seq(EditOf(T)),
         NEW s \in SUBSET DOMAIN edits, s # {}
  PROVE  \E i \in s : \A j \in s \ {i} : F!Descending(edits, j, i)
<1>1. /\ Len(edits) \in Nat /\ DOMAIN edits = 1..Len(edits)
      /\ \A i \in DOMAIN edits : edits[i].start \in Nat
  <2>1. \A i \in 1..Len(edits) : edits[i] \in EditOf(T)
    BY ElementOfSeq
  <2>2. \A i \in 1..Len(edits) : edits[i].start \in Nat
    BY <2>1 DEF EditOf
  <2> QED
    BY <2>2
<1> DEFINE starts == {edits[i].start : i \in s}
<1>2. PICK a \in starts : \A b \in starts : a <= b
  <2>1. starts \in SUBSET Nat /\ starts # {}
    BY <1>1
  <2> HIDE DEF starts
  <2> QED
    BY <2>1, Least
<1> DEFINE back == {Len(edits) - i : i \in {i \in s : edits[i].start = a}}
<1>3. PICK b \in back : \A c \in back : b <= c
  <2>1. back \in SUBSET Nat /\ back # {}
    BY <1>1, <1>2
  <2> HIDE DEF back
  <2> QED
    BY <2>1, Least
<1>4. PICK i \in s : edits[i].start = a /\ b = Len(edits) - i
  BY <1>3
<1>5. ASSUME NEW j \in s \ {i} PROVE F!Descending(edits, j, i)
  <2>1. /\ edits[j].start \in Nat /\ edits[i].start \in Nat /\ i \in Nat /\ j \in Nat
        /\ edits[i].start <= edits[j].start
    BY <1>1, <1>2, <1>4
  <2>2. edits[j].start = edits[i].start => j < i
    <3> SUFFICES ASSUME edits[j].start = edits[i].start PROVE j < i
      OBVIOUS
    <3>1. Len(edits) - j \in back
      BY <1>4
    <3>2. Len(edits) - i <= Len(edits) - j
      BY <1>3, <1>4, <3>1
    <3> QED
      BY <1>1, <2>1, <3>2, <1>5
  <2> QED
    BY <2>1, <2>2 DEF F!Descending
<1> QED
  BY <1>5

\* The edit of some edits that is applied last.
Lowest(edits, left) == CHOOSE i \in left : \A j \in left \ {i} : F!Descending(edits, j, i)

LEMMA LowestIsLast ==
  ASSUME NEW T, NEW edits \in Seq(EditOf(T)),
         NEW s \in SUBSET DOMAIN edits, s # {}
  PROVE  /\ Lowest(edits, s) \in s
         /\ \A j \in s \ {Lowest(edits, s)} : F!Descending(edits, j, Lowest(edits, s))
BY OneIsLast DEF Lowest

\* What applying some edits makes of a text.
Applied(g, text, edits, sets) ==
  g = [s \in sets |-> IF s = {} THEN text
                      ELSE F!Apply(g[s \ {Lowest(edits, s)}], edits[Lowest(edits, s)])]

\* applyEdits applies the other edits of a set before its last.
LEMMA ApplyIs ==
  ASSUME NEW T, NEW text, NEW edits \in Seq(EditOf(T))
  PROVE  \E g : /\ Applied(g, text, edits, SUBSET DOMAIN edits)
                /\ F!ApplyEdits(text, edits) = g[DOMAIN edits]
<1>0. Len(edits) \in Nat /\ DOMAIN edits = 1..Len(edits)
  OBVIOUS
<1> DEFINE Small(n) == {s \in SUBSET DOMAIN edits : Cardinality(s) <= n}
           N == {n \in Nat : \E g : Applied(g, text, edits, Small(n))}
<1>1. IsFiniteSet(DOMAIN edits) /\ Cardinality(DOMAIN edits) = Len(edits)
  BY <1>0, FS_Interval
<1>2. \A s \in SUBSET DOMAIN edits :
        /\ IsFiniteSet(s) /\ Cardinality(s) \in Nat /\ Cardinality(s) <= Len(edits)
        /\ Cardinality(s) = 0 <=> s = {}
  BY <1>1, FS_Subset, FS_CardinalityType, FS_EmptySet
<1>3. ASSUME NEW s \in SUBSET DOMAIN edits, s # {}
      PROVE  Cardinality(s \ {Lowest(edits, s)}) = Cardinality(s) - 1
  BY <1>2, <1>3, LowestIsLast, FS_RemoveElement
<1>4. 0 \in N
  <2>1. Small(0) = {{}}
    BY <1>2
  <2> DEFINE g == [s \in {{}} |-> text]
  <2>2. Applied(g, text, edits, {{}})
    BY DEF Applied
  <2> QED
    BY <2>1, <2>2
<1>5. ASSUME NEW n \in N PROVE n + 1 \in N
  <2>1. n \in Nat /\ \E g : Applied(g, text, edits, Small(n))
    OBVIOUS
  <2>2. PICK g : Applied(g, text, edits, Small(n))
    BY <2>1
  <2> DEFINE new(h, s) == IF s = {} THEN text
                          ELSE F!Apply(h[s \ {Lowest(edits, s)}], edits[Lowest(edits, s)])
             k == [s \in Small(n + 1) |-> new(g, s)]
  <2>3. ASSUME NEW s \in Small(n) PROVE k[s] = g[s]
    <3>1. g[s] = new(g, s)
      BY <2>2 DEF Applied
    <3>2. s \in Small(n + 1)
      BY <1>2, <2>1
    <3> HIDE DEF new, Small
    <3> QED
      BY <3>1, <3>2
  <2>4. ASSUME NEW s \in Small(n + 1) PROVE new(g, s) = new(k, s)
    <3>1. CASE s = {}
      BY <3>1
    <3>2. CASE s # {}
      <4>1. s \ {Lowest(edits, s)} \in Small(n)
        BY <1>2, <1>3, <2>1, <3>2
      <4> HIDE DEF k, Small
      <4> QED
        BY <2>3, <3>2, <4>1
    <3> QED
      BY <3>1, <3>2
  <2>5. k = [s \in Small(n + 1) |-> new(k, s)]
    <3>1. k = [s \in Small(n + 1) |-> new(g, s)]
      OBVIOUS
    <3> HIDE DEF k, new, Small
    <3> QED
      BY <2>4, <3>1, Zenon
  <2>6. Applied(k, text, edits, Small(n + 1))
    BY <2>5 DEF Applied
  <2>7. n + 1 \in Nat
    BY <2>1
  <2> HIDE DEF k, Small
  <2> QED
    BY <2>6, <2>7
<1>6. N = Nat
  <2>1. N \in SUBSET Nat
    OBVIOUS
  <2> HIDE DEF N
  <2> QED
    BY <1>4, <1>5, <2>1, Induction
<1>7. Small(Len(edits)) = SUBSET DOMAIN edits
  BY <1>2
<1>8. \E g : Applied(g, text, edits, SUBSET DOMAIN edits)
  <2>1. Len(edits) \in N
    BY <1>0, <1>6, Zenon
  <2> QED
    BY <1>7, <2>1
<1> DEFINE f == CHOOSE g : Applied(g, text, edits, SUBSET DOMAIN edits)
<1>9. Applied(f, text, edits, SUBSET DOMAIN edits)
  BY <1>8
<1>10. F!ApplyEdits(text, edits) = f[DOMAIN edits]
  BY DEF F!ApplyEdits, F!MapThenFoldSet, Applied, Lowest
<1> QED
  BY <1>9, <1>10

\* Two sequences one after the other.
LEMMA Concat ==
  ASSUME NEW T, NEW u \in Seq(T), NEW v \in Seq(T)
  PROVE  /\ u \o v \in Seq(T) /\ Len(u \o v) = Len(u) + Len(v)
         /\ \A i \in 1..Len(u) : (u \o v)[i] = u[i]
         /\ \A i \in 1..Len(v) : (u \o v)[Len(u) + i] = v[i]
<1>1. Len(u) \in Nat /\ Len(v) \in Nat
  OBVIOUS
<1>2. /\ u \o v \in Seq(T) /\ Len(u \o v) = Len(u) + Len(v)
      /\ \A i \in 1..Len(u) + Len(v) :
           (u \o v)[i] = IF i <= Len(u) THEN u[i] ELSE v[i - Len(u)]
  BY ConcatProperties
<1>3. ASSUME NEW i \in 1..Len(v) PROVE (u \o v)[Len(u) + i] = v[i]
  <2>1. /\ Len(u) + i \in 1..Len(u) + Len(v) /\ ~(Len(u) + i <= Len(u))
        /\ (Len(u) + i) - Len(u) = i
    BY <1>1
  <2> QED
    BY <1>2, <2>1
<1>4. ASSUME NEW i \in 1..Len(u) PROVE (u \o v)[i] = u[i]
  <2>1. i \in 1..Len(u) + Len(v) /\ i <= Len(u)
    BY <1>1
  <2> QED
    BY <1>2, <2>1
<1> QED
  BY <1>2, <1>3, <1>4

\* An edit of a text that is untouched up to the edit's end.
LEMMA ApplyAt ==
  ASSUME NEW T, NEW text \in Seq(T), NEW z \in Seq(T), NEW edit \in EditOf(T),
         edit.start < edit.end, edit.end <= Len(text)
  PROVE  F!Apply(SubSeq(text, 1, edit.end) \o z, edit)
           = SubSeq(text, 1, edit.start) \o (edit.text \o z)
<1> DEFINE u == SubSeq(text, 1, edit.end)
           t == u \o z
           a == SubSeq(text, 1, edit.start)
<1>1. /\ edit.start \in Nat /\ edit.end \in Nat /\ edit.text \in Seq(T)
      /\ Len(text) \in Nat /\ Len(z) \in Nat
  BY DEF EditOf
<1>2. /\ u \in Seq(T) /\ Len(u) = edit.end
      /\ \A i \in 1..edit.end : u[i] = text[i]
  BY <1>1
<1>3. /\ a \in Seq(T) /\ Len(a) = edit.start
      /\ \A i \in 1..edit.start : a[i] = text[i]
  BY <1>1
<1> HIDE DEF u, a
<1>4. /\ t \in Seq(T) /\ Len(t) = edit.end + Len(z)
      /\ \A i \in 1..edit.end : t[i] = text[i]
      /\ \A i \in 1..Len(z) : t[edit.end + i] = z[i]
  <2>1. /\ t \in Seq(T) /\ Len(t) = Len(u) + Len(z)
        /\ \A i \in 1..Len(u) : t[i] = u[i]
        /\ \A i \in 1..Len(z) : t[Len(u) + i] = z[i]
    BY <1>2, Concat
  <2> HIDE DEF t
  <2> QED
    BY <1>2, <2>1
<1> HIDE DEF t
<1>5. SubSeq(t, 1, edit.start) = a
  <2> DEFINE p == SubSeq(t, 1, edit.start)
  <2>1. p \in Seq(T) /\ Len(p) = edit.start /\ \A i \in 1..edit.start : p[i] = t[i]
    BY <1>1, <1>4
  <2> HIDE DEF p
  <2>2. \A i \in 1..Len(p) : p[i] = a[i]
    BY <1>1, <1>3, <1>4, <2>1
  <2>3. p = a
    BY <1>3, <2>1, <2>2, SeqEqual
  <2> QED
    BY <2>3 DEF p
<1>6. SubSeq(t, edit.end + 1, Len(t)) = z
  <2> DEFINE q == SubSeq(t, edit.end + 1, Len(t))
  <2>1. q \in Seq(T) /\ Len(q) = Len(z) /\ \A i \in 1..Len(z) : q[i] = t[edit.end + i]
    <3>1. \A i \in edit.end + 1 .. Len(t) : t[i] \in T
      BY <1>1, <1>4, ElementOfSeq
    <3>2. edit.end + 1 \in Int /\ Len(t) \in Int
      BY <1>1, <1>4
    <3>3. /\ q \in Seq(T)
          /\ Len(q) = IF edit.end + 1 <= Len(t) THEN Len(t) - (edit.end + 1) + 1 ELSE 0
          /\ \A i \in 1..Len(t) - (edit.end + 1) + 1 : q[i] = t[(edit.end + 1) + i - 1]
      BY <3>1, <3>2, SubSeqProperties
    <3>4. Len(q) = Len(z) /\ Len(t) - (edit.end + 1) + 1 = Len(z)
      BY <1>1, <1>4, <3>3
    <3>5. \A i \in 1..Len(z) : (edit.end + 1) + i - 1 = edit.end + i
      BY <1>1
    <3> QED
      BY <3>3, <3>4, <3>5
  <2> HIDE DEF q
  <2>2. \A i \in 1..Len(q) : q[i] = z[i]
    BY <1>1, <1>4, <2>1
  <2>3. q = z
    BY <2>1, <2>2, SeqEqual
  <2> QED
    BY <2>3 DEF q
<1>7. F!Apply(t, edit) = (a \o edit.text) \o z
  BY <1>5, <1>6 DEF F!Apply
<1>8. F!Apply(t, edit) = a \o (edit.text \o z)
  <2> DEFINE b == edit.text
  <2>1. a \in Seq(T) /\ b \in Seq(T) /\ z \in Seq(T)
    BY <1>1, <1>3
  <2> HIDE DEF b
  <2>2. (a \o b) \o z = a \o (b \o z)
    BY <2>1, Associative, SMTT(60)
  <2> QED
    BY <1>7, <2>2 DEF b
<1> QED
  BY <1>8 DEF t, u, a

\* Splice token by token: what becomes of token k and the edit before it.
TextsAt(edits, k) ==
  [i \in 1..Len(edits) |-> IF edits[i].start = k THEN edits[i].text ELSE <<>>]
Kept(text, edits, k) ==
  IF \E i \in DOMAIN edits : edits[i].start < k /\ k <= edits[i].end
  THEN <<>> ELSE <<text[k]>>
Pieces(text, edits) ==
  [k \in 1..Len(text) |-> F!FlattenSeq(TextsAt(edits, k - 1)) \o Kept(text, edits, k)]

LEMMA PiecesAre ==
  ASSUME NEW T, NEW text \in Seq(T), NEW edits \in Seq(EditOf(T)),
         Within(edits, Len(text)), F!Disjoint(edits)
  PROVE  /\ Pieces(text, edits) \in Seq(Seq(T))
         /\ Len(Pieces(text, edits)) = Len(text)
         /\ \A k \in 1..Len(text), i \in DOMAIN edits :
              edits[i].start < k /\ k <= edits[i].end =>
                Pieces(text, edits)[k] = IF k = edits[i].start + 1 THEN edits[i].text ELSE <<>>
         /\ \A k \in 1..Len(text) :
              (\A i \in DOMAIN edits : edits[i].end < k \/ k <= edits[i].start) =>
                Pieces(text, edits)[k] = <<text[k]>>
<1>1. /\ Len(edits) \in Nat /\ DOMAIN edits = 1..Len(edits) /\ Len(text) \in Nat
      /\ \A i \in DOMAIN edits : /\ edits[i].start \in Nat /\ edits[i].end \in Nat
                                 /\ edits[i].text \in Seq(T)
                                 /\ edits[i].start < edits[i].end
                                 /\ edits[i].end <= Len(text)
  <2>1. \A i \in 1..Len(edits) : edits[i] \in EditOf(T)
    BY ElementOfSeq
  <2>2. \A i \in 1..Len(edits) : /\ edits[i].start \in Nat /\ edits[i].end \in Nat
                                 /\ edits[i].text \in Seq(T)
    BY <2>1 DEF EditOf
  <2> QED
    BY <2>2 DEF Within
<1>2. ASSUME NEW k \in Nat
      PROVE  /\ TextsAt(edits, k) \in Seq(Seq(T)) /\ Len(TextsAt(edits, k)) = Len(edits)
             /\ \A i \in 1..Len(edits) :
                  TextsAt(edits, k)[i] = IF edits[i].start = k THEN edits[i].text ELSE <<>>
  <2>1. \A i \in 1..Len(edits) :
          (IF edits[i].start = k THEN edits[i].text ELSE <<>>) \in Seq(T)
    BY <1>1, EmptySeq
  <2> QED
    BY <1>1, <2>1 DEF TextsAt
<1>3. ASSUME NEW k \in 1..Len(text), NEW i \in DOMAIN edits,
             edits[i].start < k, k <= edits[i].end
      PROVE  /\ F!FlattenSeq(TextsAt(edits, k - 1))
                  = IF k = edits[i].start + 1 THEN edits[i].text ELSE <<>>
             /\ Kept(text, edits, k) = <<>>
  <2>1. k - 1 \in Nat
    BY <1>1
  <2>2. ASSUME NEW j \in 1..Len(edits), j # i PROVE edits[j].start # k - 1
    <3>1. edits[i].end <= edits[j].start \/ edits[j].end <= edits[i].start
      BY <1>1, <2>2 DEF F!Disjoint
    <3> QED
      BY <1>1, <1>3, <3>1
  <2>3. \A j \in 1..Len(edits) : j # i => TextsAt(edits, k - 1)[j] = <<>>
    BY <1>2, <2>1, <2>2
  <2>4. TextsAt(edits, k - 1)[i] = IF k = edits[i].start + 1 THEN edits[i].text ELSE <<>>
    <3>1. edits[i].start = k - 1 <=> k = edits[i].start + 1
      BY <1>1
    <3>2. i \in 1..Len(edits)
      BY <1>1
    <3>3. TextsAt(edits, k - 1)[i]
            = IF edits[i].start = k - 1 THEN edits[i].text ELSE <<>>
      BY <1>2, <2>1, <3>2
    <3> QED
      BY <3>1, <3>3
  <2>5. F!FlattenSeq(TextsAt(edits, k - 1)) = TextsAt(edits, k - 1)[i]
    <3> DEFINE ss == TextsAt(edits, k - 1)
    <3>1. ss \in Seq(Seq(T)) /\ Len(ss) = Len(edits)
      BY <1>2, <2>1
    <3>2. i \in 1..Len(ss) /\ \A j \in 1..Len(ss) : j # i => ss[j] = <<>>
      BY <1>1, <2>3, <3>1
    <3> HIDE DEF ss
    <3>3. F!FlattenSeq(ss) = ss[i]
      BY <3>1, <3>2, FlattenOne, Zenon
    <3> QED
      BY <3>3 DEF ss
  <2>6. Kept(text, edits, k) = <<>>
    BY <1>3 DEF Kept
  <2> QED
    BY <2>4, <2>5, <2>6
<1>4. ASSUME NEW k \in 1..Len(text),
             \A i \in DOMAIN edits : edits[i].end < k \/ k <= edits[i].start
      PROVE  /\ F!FlattenSeq(TextsAt(edits, k - 1)) = <<>>
             /\ Kept(text, edits, k) = <<text[k]>>
  <2>1. k - 1 \in Nat
    BY <1>1
  <2>2. ASSUME NEW j \in 1..Len(edits) PROVE edits[j].start # k - 1
    BY <1>1, <1>4, SMTT(40)
  <2>3. \A j \in 1..Len(edits) : TextsAt(edits, k - 1)[j] = <<>>
    BY <1>2, <2>1, <2>2
  <2>4. F!FlattenSeq(TextsAt(edits, k - 1)) = <<>>
    BY <1>2, <2>1, <2>3, FlattenNone
  <2>5. ~ \E i \in DOMAIN edits : edits[i].start < k /\ k <= edits[i].end
    BY <1>1, <1>4, SMTT(40)
  <2> QED
    BY <2>4, <2>5 DEF Kept
<1>5. ASSUME NEW k \in 1..Len(text), NEW i \in DOMAIN edits,
             edits[i].start < k, k <= edits[i].end
      PROVE  F!FlattenSeq(TextsAt(edits, k - 1)) \o Kept(text, edits, k)
               = IF k = edits[i].start + 1 THEN edits[i].text ELSE <<>>
  BY <1>1, <1>3, <1>5, ConcatEmptySeq, EmptySeq
<1>6. ASSUME NEW k \in 1..Len(text),
             \A i \in DOMAIN edits : edits[i].end < k \/ k <= edits[i].start
      PROVE  F!FlattenSeq(TextsAt(edits, k - 1)) \o Kept(text, edits, k) = <<text[k]>>
  <2>1. <<text[k]>> \in Seq(T)
    BY ElementOfSeq
  <2> QED
    BY <1>4, <1>6, <2>1, ConcatEmptySeq
<1>7. \A k \in 1..Len(text) :
        F!FlattenSeq(TextsAt(edits, k - 1)) \o Kept(text, edits, k) \in Seq(T)
  <2> TAKE k \in 1..Len(text)
  <2>1. CASE \E i \in DOMAIN edits : edits[i].start < k /\ k <= edits[i].end
    BY <1>1, <1>5, <2>1, EmptySeq, ZenonT(60)
  <2>2. CASE ~ \E i \in DOMAIN edits : edits[i].start < k /\ k <= edits[i].end
    <3>1. \A i \in DOMAIN edits : edits[i].end < k \/ k <= edits[i].start
      BY <1>1, <2>2
    <3>2. <<text[k]>> \in Seq(T)
      BY ElementOfSeq
    <3> QED
      BY <1>6, <3>1, <3>2
  <2> QED
    BY <2>1, <2>2
<1>8. /\ Pieces(text, edits) \in Seq(Seq(T)) /\ Len(Pieces(text, edits)) = Len(text)
      /\ \A k \in 1..Len(text) : Pieces(text, edits)[k]
             = F!FlattenSeq(TextsAt(edits, k - 1)) \o Kept(text, edits, k)
  BY <1>1, <1>7 DEF Pieces
<1> QED
  BY <1>5, <1>6, <1>8

\* Where no edit is, the pieces are the text itself.
LEMMA KeptSegment ==
  ASSUME NEW T, NEW text \in Seq(T), NEW edits \in Seq(EditOf(T)),
         Within(edits, Len(text)), F!Disjoint(edits),
         NEW pre \in [0..Len(text) -> Seq(T)],
         \A n \in 1..Len(text) : pre[n] = pre[n - 1] \o Pieces(text, edits)[n],
         NEW lo \in 0..Len(text), NEW hi \in lo..Len(text),
         \A i \in DOMAIN edits : edits[i].end <= lo \/ hi <= edits[i].start
  PROVE  pre[hi] = pre[lo] \o SubSeq(text, lo + 1, hi)
<1>1. /\ Len(text) \in Nat /\ lo \in Nat /\ hi \in Nat /\ lo <= hi /\ hi <= Len(text)
      /\ pre[lo] \in Seq(T)
  OBVIOUS
<1>2. \A i \in DOMAIN edits : edits[i].start \in Nat /\ edits[i].end \in Nat
  <2>1. \A i \in 1..Len(edits) : edits[i] \in EditOf(T)
    BY ElementOfSeq
  <2>2. DOMAIN edits = 1..Len(edits)
    OBVIOUS
  <2> QED
    BY <2>1, <2>2 DEF EditOf
<1> DEFINE N == {k \in Nat : lo + k <= hi =>
                     pre[lo + k] = pre[lo] \o SubSeq(text, lo + 1, lo + k)}
<1>3. 0 \in N
  <2>1. SubSeq(text, lo + 1, lo + 0) = <<>>
    BY <1>1, SubSeqEmpty
  <2>2. pre[lo] \o <<>> = pre[lo] /\ lo + 0 = lo
    BY <1>1, ConcatEmptySeq
  <2> QED
    BY <2>1, <2>2
<1>4. ASSUME NEW k \in N PROVE k + 1 \in N
  <2>1. k \in Nat /\ k + 1 \in Nat
    OBVIOUS
  <2>2. ASSUME lo + (k + 1) <= hi
        PROVE  pre[lo + (k + 1)] = pre[lo] \o SubSeq(text, lo + 1, lo + (k + 1))
    <3> DEFINE n == lo + (k + 1)
               w == SubSeq(text, lo + 1, lo + k)
               c == <<text[n]>>
    <3>1. /\ n \in 1..Len(text) /\ n - 1 = lo + k /\ lo + k <= hi
          /\ lo + 1 \in 1..Len(text) /\ n \in lo + 1 .. Len(text)
      BY <1>1, <2>1, <2>2
    <3>2. pre[lo + k] = pre[lo] \o w
      BY <3>1
    <3>3. ASSUME NEW i \in DOMAIN edits PROVE edits[i].end < n \/ n <= edits[i].start
      <4>1. edits[i].end <= lo \/ hi <= edits[i].start
        OBVIOUS
      <4>2. edits[i].start \in Nat /\ edits[i].end \in Nat
        BY <1>2
      <4>3. lo < n /\ n <= hi
        BY <1>1, <2>1, <2>2
      <4> HIDE DEF n
      <4> QED
        BY <1>1, <3>1, <4>1, <4>2, <4>3
    <3>4. Pieces(text, edits)[n] = c
      BY <3>1, <3>3, PiecesAre, ZenonT(60)
    <3>5. pre[n] = pre[lo + k] \o c
      BY <3>1, <3>4
    <3>6. SubSeq(text, lo + 1, n) = w \o c
      BY <3>1, SubSeqRecursiveSecond
    <3>7. w \in Seq(T) /\ c \in Seq(T)
      <4>1. \A i \in lo + 1 .. lo + k : text[i] \in T
        BY <1>1, <2>1, <3>1, ElementOfSeq
      <4>2. lo + 1 \in Int /\ lo + k \in Int
        BY <1>1, <2>1
      <4>3. text[n] \in T
        BY <3>1, ElementOfSeq
      <4> QED
        BY <4>1, <4>2, <4>3, SubSeqProperties
    <3> DEFINE p == pre[lo]
    <3>8. p \in Seq(T)
      BY <1>1
    <3> HIDE DEF w, c, n, p
    <3>9. (p \o w) \o c = p \o (w \o c)
      BY <3>7, <3>8, Associative, SMTT(60)
    <3>10. pre[n] = p \o SubSeq(text, lo + 1, n)
      BY <3>2, <3>5, <3>6, <3>9 DEF p
    <3> QED
      BY <3>10 DEF n, p
  <2> QED
    BY <2>1, <2>2
<1>5. N = Nat
  <2>1. N \in SUBSET Nat
    OBVIOUS
  <2> HIDE DEF N
  <2> QED
    BY <1>3, <1>4, <2>1, Induction
<1> DEFINE k == hi - lo
<1>6. k \in Nat /\ lo + k = hi /\ hi <= hi
  BY <1>1
<1> HIDE DEF k
<1>7. k \in N
  BY <1>5, <1>6, Zenon
<1> QED
  BY <1>6, <1>7

\* Where an edit is, they are its text.
LEMMA EditedSegment ==
  ASSUME NEW T, NEW text \in Seq(T), NEW edits \in Seq(EditOf(T)),
         Within(edits, Len(text)), F!Disjoint(edits),
         NEW pre \in [0..Len(text) -> Seq(T)],
         \A n \in 1..Len(text) : pre[n] = pre[n - 1] \o Pieces(text, edits)[n],
         NEW i \in DOMAIN edits
  PROVE  pre[edits[i].end] = pre[edits[i].start] \o edits[i].text
<1> DEFINE start == edits[i].start
           end == edits[i].end
           b == edits[i].text
<1>1. /\ Len(text) \in Nat /\ start \in Nat /\ end \in Nat /\ b \in Seq(T)
      /\ start < end /\ end <= Len(text)
  <2>1. \A j \in 1..Len(edits) : edits[j] \in EditOf(T)
    BY ElementOfSeq
  <2>2. DOMAIN edits = 1..Len(edits)
    OBVIOUS
  <2> QED
    BY <2>1, <2>2 DEF EditOf, Within
<1>2. \A k \in 1..Len(text) : start < k /\ k <= end =>
        Pieces(text, edits)[k] = IF k = start + 1 THEN b ELSE <<>>
  BY PiecesAre
<1> HIDE DEF start, end, b
<1>3. pre[start] \in Seq(T) /\ pre[start] \o b \in Seq(T)
  BY <1>1, ConcatProperties
<1> DEFINE N == {k \in Nat : start + 1 + k <= end => pre[start + 1 + k] = pre[start] \o b}
<1>4. 0 \in N
  <2>1. start + 1 \in 1..Len(text) /\ start + 1 + 0 = start + 1 /\ (start + 1) - 1 = start
    BY <1>1
  <2>2. Pieces(text, edits)[start + 1] = b
    <3> DEFINE k == start + 1
    <3>1. k \in 1..Len(text) /\ start < k /\ k <= end /\ k = start + 1
      BY <1>1
    <3> HIDE DEF k
    <3>2. Pieces(text, edits)[k] = b
      BY <1>2, <3>1
    <3> QED
      BY <3>2 DEF k
  <2>3. pre[start + 1] = pre[start] \o b
    BY <2>1, <2>2
  <2> QED
    BY <2>1, <2>3
<1>5. ASSUME NEW k \in N PROVE k + 1 \in N
  <2>1. k \in Nat /\ k + 1 \in Nat
    OBVIOUS
  <2>2. ASSUME start + 1 + (k + 1) <= end
        PROVE  pre[start + 1 + (k + 1)] = pre[start] \o b
    <3> DEFINE n == start + 1 + (k + 1)
    <3>1. /\ n \in 1..Len(text) /\ n - 1 = start + 1 + k /\ start + 1 + k <= end
          /\ n # start + 1 /\ start < n /\ n <= end
      BY <1>1, <2>1, <2>2
    <3>2. pre[n - 1] = pre[start] \o b
      BY <3>1
    <3>3. Pieces(text, edits)[n] = <<>>
      BY <1>2, <3>1
    <3>4. pre[n] = pre[n - 1] \o <<>>
      BY <3>1, <3>3
    <3> HIDE DEF n
    <3>5. pre[n] = pre[start] \o b
      BY <1>3, <3>2, <3>4, ConcatEmptySeq
    <3> QED
      BY <3>5 DEF n
  <2> QED
    BY <2>1, <2>2
<1>6. N = Nat
  <2>1. N \in SUBSET Nat
    OBVIOUS
  <2> HIDE DEF N
  <2> QED
    BY <1>4, <1>5, <2>1, Induction
<1> DEFINE k == end - start - 1
<1>7. k \in Nat /\ start + 1 + k = end /\ end <= end
  BY <1>1
<1> HIDE DEF k
<1>8. k \in N
  BY <1>6, <1>7, Zenon
<1>9. pre[end] = pre[start] \o b
  BY <1>7, <1>8
<1> QED
  BY <1>9 DEF start, end, b

\* Applying disjoint edits from the last to the first puts each where it belongs.
LEMMA EditsSplice ==
  ASSUME NEW T, NEW text \in Seq(T), NEW edits \in Seq(EditOf(T)),
         Within(edits, Len(text)), F!Disjoint(edits)
  PROVE  F!ApplyEdits(text, edits) = F!Splice(text, edits)
<1> DEFINE Dom == DOMAIN edits
           L == Len(text)
           all == F!Splice(text, edits)
           Upto(m) == SubSeq(text, 1, m)
<1>1. PICK g : /\ Applied(g, text, edits, SUBSET Dom)
               /\ F!ApplyEdits(text, edits) = g[Dom]
  BY ApplyIs
<1>2. PICK pre \in [0..L -> Seq(T)] :
        /\ pre[0] = <<>>
        /\ \A n \in 1..L : pre[n] = pre[n - 1] \o Pieces(text, edits)[n]
        /\ pre[L] = all
  <2>1. Pieces(text, edits) \in Seq(Seq(T)) /\ Len(Pieces(text, edits)) = L
    BY PiecesAre
  <2>2. all = F!FlattenSeq(Pieces(text, edits))
    BY DEF F!Splice, Pieces, TextsAt, Kept
  <2> DEFINE ps == Pieces(text, edits)
  <2>3. \E f \in [0..Len(ps) -> Seq(T)] :
           /\ f[0] = <<>>
           /\ \A n \in 1..Len(ps) : f[n] = f[n - 1] \o ps[n]
           /\ f[Len(ps)] = F!FlattenSeq(ps)
    <3>1. ps \in Seq(Seq(T))
      BY <2>1
    <3> HIDE DEF ps
    <3> QED
      BY <3>1, Flatten
  <2> HIDE DEF all
  <2> QED
    BY <2>1, <2>2, <2>3
<1>3. /\ L \in Nat /\ Dom = 1..Len(edits) /\ Len(edits) \in Nat
      /\ \A i \in Dom : /\ edits[i] \in EditOf(T)
                      /\ edits[i].start \in Nat /\ edits[i].end \in Nat
                      /\ edits[i].text \in Seq(T)
                      /\ edits[i].start < edits[i].end /\ edits[i].end <= L
  <2>1. \A j \in 1..Len(edits) : edits[j] \in EditOf(T)
    BY ElementOfSeq
  <2>2. DOMAIN edits = 1..Len(edits)
    OBVIOUS
  <2> QED
    BY <2>1, <2>2 DEF EditOf, Within
<1>4. \A m \in 0..L : Upto(m) \in Seq(T) /\ pre[m] \in Seq(T)
  BY <1>3
<1>5. IsFiniteSet(Dom) /\ Cardinality(Dom) = Len(edits)
  <2> DEFINE n == Len(edits)
  <2>1. n \in Nat /\ Dom = 1..n
    OBVIOUS
  <2> HIDE DEF n, Dom
  <2>2. IsFiniteSet(1..n) /\ Cardinality(1..n) = n
    BY <2>1, FS_Interval
  <2> QED
    BY <2>1, <2>2 DEF n
<1> DEFINE Ready(s, m) == /\ \A i \in s : m <= edits[i].start
                          /\ \A i \in Dom \ s : edits[i].end <= m
           Good(s) == \A m \in 0..L : Ready(s, m) =>
                        \E z \in Seq(T) : all = pre[m] \o z /\ g[s] = Upto(m) \o z
           N == {n \in Nat : \A s \in SUBSET Dom : Cardinality(s) = n => Good(s)}
<1> HIDE DEF all
<1>6. Good({})
  <2> SUFFICES ASSUME NEW m \in 0..L, Ready({}, m)
               PROVE  \E z \in Seq(T) : all = pre[m] \o z /\ g[{}] = Upto(m) \o z
    OBVIOUS
  <2> DEFINE z == SubSeq(text, m + 1, L)
  <2>1. g[{}] = text
    <3>1. {} \in SUBSET Dom
      OBVIOUS
    <3> QED
      BY <1>1, <3>1 DEF Applied
  <2>2. z \in Seq(T)
    <3>1. \A i \in m + 1 .. L : text[i] \in T
      BY <1>3, ElementOfSeq
    <3> QED
      BY <1>3, <3>1, SubSeqProperties
  <2>3. pre[L] = pre[m] \o z
    <3>1. L \in m..L
      BY <1>3
    <3>2. \A i \in Dom : edits[i].end <= m \/ L <= edits[i].start
      OBVIOUS
    <3> QED
      BY <1>2, <3>1, <3>2, KeptSegment, ZenonT(60)
  <2>4. text = Upto(m) \o z
    <3>1. 1 \in 1..L + 1 /\ m \in 1 - 1 .. L /\ L \in m..L
      BY <1>3
    <3>2. Upto(m) \o z = SubSeq(text, 1, L)
      BY <3>1, ConcatAdjacentSubSeq
    <3> QED
      BY <3>2, SubSeqFull
  <2> HIDE DEF z
  <2> QED
    BY <1>2, <2>1, <2>2, <2>3, <2>4
<1>7. ASSUME NEW s \in SUBSET Dom, s # {},
             Good(s \ {Lowest(edits, s)})
      PROVE  Good(s)
  <2> SUFFICES ASSUME NEW m \in 0..L, Ready(s, m)
               PROVE  \E z \in Seq(T) : all = pre[m] \o z /\ g[s] = Upto(m) \o z
    OBVIOUS
  <2> DEFINE low == Lowest(edits, s)
             start == edits[low].start
             end == edits[low].end
             b == edits[low].text
  <2>1. low \in s /\ \A j \in s \ {low} : F!Descending(edits, j, low)
    BY <1>7, LowestIsLast
  <2>2. /\ start \in Nat /\ end \in Nat /\ b \in Seq(T) /\ start < end /\ end <= L
        /\ m <= start /\ m \in Nat /\ edits[low] \in EditOf(T)
    BY <1>3, <2>1
  <2>3. ASSUME NEW j \in s \ {low} PROVE start <= edits[j].start
    <3>1. edits[j].start \in Nat /\ start \in Nat
      BY <1>3, <2>2
    <3>2. edits[j].start > start \/ edits[j].start = start
      BY <2>1 DEF F!Descending
    <3> QED
      BY <3>1, <3>2
  <2>4. Ready(s \ {low}, end)
    <3>1. ASSUME NEW j \in s \ {low} PROVE end <= edits[j].start
      <4>1. end <= edits[j].start \/ edits[j].end <= start
        BY <2>1 DEF F!Disjoint
      <4> QED
        BY <1>3, <2>2, <2>3, <4>1
    <3>2. ASSUME NEW j \in Dom \ (s \ {low}) PROVE edits[j].end <= end
      <4>1. j = low \/ edits[j].end <= m
        OBVIOUS
      <4> QED
        BY <1>3, <2>2, <4>1
    <3> QED
      BY <3>1, <3>2
  <2>5. PICK z \in Seq(T) : all = pre[end] \o z /\ g[s \ {low}] = Upto(end) \o z
    <3>1. end \in 0..L
      BY <1>3, <2>2
    <3> HIDE DEF Ready, end, low
    <3> QED
      BY <1>7, <2>4, <3>1 DEF low
  <2>6. g[s] = Upto(start) \o (b \o z)
    <3>1. g[s] = F!Apply(g[s \ {low}], edits[low])
      BY <1>1, <1>7 DEF Applied
    <3>2. F!Apply(Upto(end) \o z, edits[low]) = Upto(start) \o (b \o z)
      BY <2>2, ApplyAt
    <3> QED
      BY <2>5, <3>1, <3>2
  <2> DEFINE w == SubSeq(text, m + 1, start)
  <2>7. w \in Seq(T)
    <3>1. \A i \in m + 1 .. start : text[i] \in T
      BY <1>3, <2>2, ElementOfSeq
    <3> QED
      BY <2>2, <3>1, SubSeqProperties
  <2>8. Upto(start) = Upto(m) \o w
    <3>1. 1 \in 1..L + 1 /\ m \in 1 - 1 .. L /\ start \in m..L
      BY <1>3, <2>2
    <3> QED
      BY <3>1, ConcatAdjacentSubSeq
  <2>9. pre[start] = pre[m] \o w
    <3>1. start \in m..L
      BY <1>3, <2>2
    <3>2. \A i \in Dom : edits[i].end <= m \/ start <= edits[i].start
      <4>1. \A i \in s \ {low} : start <= edits[i].start
        BY <2>3
      <4>2. start <= edits[low].start
        BY <2>2
      <4>3. \A i \in Dom \ s : edits[i].end <= m
        OBVIOUS
      <4> HIDE DEF start, low
      <4> QED
        BY <4>1, <4>2, <4>3
    <3> HIDE DEF start
    <3> QED
      BY <1>2, <3>1, <3>2, KeptSegment, ZenonT(60)
  <2>10. pre[end] = pre[start] \o b
    BY <1>2, <2>1, EditedSegment
  <2> DEFINE p == pre[m]
             q == Upto(m)
             bz == b \o z
             y == p \o w
             t == w \o bz
  <2>11. p \in Seq(T) /\ q \in Seq(T) /\ b \in Seq(T)
    BY <1>4, <2>2
  <2> HIDE DEF p, q, w, b, start, end, Upto, low
  <2>12. y \in Seq(T) /\ bz \in Seq(T)
    BY <2>7, <2>11, ConcatProperties
  <2> HIDE DEF y, bz
  <2>13. t \in Seq(T)
    BY <2>7, <2>12, ConcatProperties
  <2> HIDE DEF t, Ready, Good, N
  <2>14. (y \o b) \o z = y \o (b \o z)
    <3>1. y \in Seq(T) /\ b \in Seq(T) /\ z \in Seq(T)
      BY <2>11, <2>12
    <3> QED
      BY <3>1, Associative, SMTT(60)
  <2>15. (p \o w) \o bz = p \o (w \o bz) /\ (q \o w) \o bz = q \o (w \o bz)
    <3>1. p \in Seq(T) /\ w \in Seq(T) /\ bz \in Seq(T)
      BY <2>7, <2>11, <2>12
    <3>2. (p \o w) \o bz = p \o (w \o bz)
      BY <3>1, Associative, SMTT(60)
    <3>3. q \in Seq(T) /\ w \in Seq(T) /\ bz \in Seq(T)
      BY <2>7, <2>11, <2>12
    <3>4. (q \o w) \o bz = q \o (w \o bz)
      BY <3>3, Associative, SMTT(60)
    <3> QED
      BY <3>2, <3>4
  <2>16. all = p \o t /\ g[s] = q \o t
    BY <2>5, <2>6, <2>8, <2>9, <2>10, <2>14, <2>15 DEF p, q, y, bz, t
  <2> QED
    BY <2>13, <2>16 DEF p, q
<1>8. N = Nat
  <2>1. 0 \in N
    <3>1. \A s \in SUBSET Dom : Cardinality(s) = 0 => s = {}
      BY <1>5, FS_Subset, FS_EmptySet
    <3> HIDE DEF Good
    <3> QED
      BY <1>6, <3>1
  <2>2. ASSUME NEW n \in N PROVE n + 1 \in N
    <3>1. ASSUME NEW s \in SUBSET Dom, Cardinality(s) = n + 1 PROVE Good(s)
      <4>1. IsFiniteSet(s) /\ s # {}
        BY <1>5, <3>1, FS_Subset, FS_EmptySet
      <4>2. Lowest(edits, s) \in s
        BY <4>1, LowestIsLast
      <4>3. Cardinality(s \ {Lowest(edits, s)}) = n
        <5>1. Cardinality(s \ {Lowest(edits, s)}) = Cardinality(s) - 1
          BY <4>1, <4>2, FS_RemoveElement
        <5> QED
          BY <3>1, <5>1
      <4> HIDE DEF Good
      <4>4. Good(s \ {Lowest(edits, s)})
        BY <4>3
      <4> QED
        BY <1>7, <4>1, <4>4
    <3> HIDE DEF Good
    <3> QED
      BY <3>1
  <2>3. N \in SUBSET Nat
    OBVIOUS
  <2> HIDE DEF N
  <2> QED
    BY <2>1, <2>2, <2>3, Induction
<1>9. Good(Dom)
  <2>1. Len(edits) \in N
    BY <1>3, <1>8, Zenon
  <2> HIDE DEF Good
  <2> QED
    BY <1>5, <2>1
<1>10. PICK z \in Seq(T) : all = pre[0] \o z /\ g[Dom] = Upto(0) \o z
  <2>1. 0 \in 0..L /\ Ready(Dom, 0)
    BY <1>3
  <2> QED
    BY <1>9, <2>1
<1>11. pre[0] = <<>> /\ Upto(0) = <<>>
  BY <1>2, SubSeqEmpty
<1>12. all = z /\ g[Dom] = z
  BY <1>10, <1>11, ConcatEmptySeq
<1> QED
  BY <1>1, <1>12 DEF all

-----------------------------------------------------------------------------
(* Flattened pieces and their places *)

\* Every place of a flattened sequence comes from a place of its own.
LEMMA FlattenFrom ==
  ASSUME NEW T, NEW ss \in Seq(Seq(T))
  PROVE  /\ F!FlattenSeq(ss) \in Seq(T)
         /\ \E o \in [1..Len(F!FlattenSeq(ss)) -> Nat \X Nat] :
              \A p \in 1..Len(F!FlattenSeq(ss)) :
                /\ o[p][1] \in 1..Len(ss) /\ o[p][2] \in 1..Len(ss[o[p][1]])
                /\ F!FlattenSeq(ss)[p] = ss[o[p][1]][o[p][2]]
                /\ \A q \in 1..Len(F!FlattenSeq(ss)) : o[p] = o[q] => p = q
<1>1. PICK f \in [0..Len(ss) -> Seq(T)] :
        /\ f[0] = <<>>
        /\ \A n \in 1..Len(ss) : f[n] = f[n - 1] \o ss[n]
        /\ f[Len(ss)] = F!FlattenSeq(ss)
  BY Flatten
<1>2. Len(ss) \in Nat /\ \A n \in 1..Len(ss) : ss[n] \in Seq(T)
  OBVIOUS
<1> DEFINE From(n, o) == \A p \in 1..Len(f[n]) :
             /\ o[p][1] \in 1..n /\ o[p][2] \in 1..Len(ss[o[p][1]])
             /\ f[n][p] = ss[o[p][1]][o[p][2]]
             /\ \A q \in 1..Len(f[n]) : o[p] = o[q] => p = q
           Good(n) == \E o \in [1..Len(f[n]) -> Nat \X Nat] : From(n, o)
           N == {n \in Nat : n <= Len(ss) => Good(n)}
<1>3. Good(0)
  <2>1. 1..Len(f[0]) = {}
    BY <1>1
  <2> DEFINE o == [p \in 1..Len(f[0]) |-> <<0, 0>>]
  <2>2. o \in [1..Len(f[0]) -> Nat \X Nat] /\ From(0, o)
    BY <2>1
  <2> HIDE DEF o, From
  <2> QED
    BY <2>2
<1>4. ASSUME NEW n \in Nat, n + 1 <= Len(ss), Good(n) PROVE Good(n + 1)
  <2>1. PICK o \in [1..Len(f[n]) -> Nat \X Nat] : From(n, o)
    BY <1>4
  <2> DEFINE u == f[n]
             v == ss[n + 1]
             w == u \o v
             k == [p \in 1..Len(w) |-> IF p <= Len(u) THEN o[p] ELSE <<n + 1, p - Len(u)>>]
  <2>2. n + 1 \in 1..Len(ss) /\ n \in 0..Len(ss) /\ (n + 1) - 1 = n
    BY <1>2, <1>4
  <2>3. u \in Seq(T) /\ v \in Seq(T) /\ f[n + 1] = w /\ Len(u) \in Nat /\ Len(v) \in Nat
    <3>1. f[n + 1] = f[(n + 1) - 1] \o ss[n + 1]
      BY <1>1, <2>2
    <3>2. f[n + 1] = w
      BY <2>2, <3>1
    <3>3. u \in Seq(T) /\ v \in Seq(T)
      BY <1>2, <2>2
    <3> HIDE DEF u, v, w
    <3> QED
      BY <3>2, <3>3
  <2>4. \A p \in 1..Len(u) :
          /\ o[p] \in Nat \X Nat /\ o[p][1] \in 1..n /\ o[p][2] \in 1..Len(ss[o[p][1]])
          /\ u[p] = ss[o[p][1]][o[p][2]]
          /\ \A q \in 1..Len(u) : o[p] = o[q] => p = q
    BY <2>1
  <2> HIDE DEF u, v, From
  <2>5. /\ w \in Seq(T) /\ Len(w) = Len(u) + Len(v)
        /\ \A p \in 1..Len(u) : w[p] = u[p]
        /\ \A p \in 1..Len(v) : w[Len(u) + p] = v[p]
    BY <2>3, Concat
  <2> HIDE DEF w
  <2>6. ASSUME NEW p \in 1..Len(w)
        PROVE  \/ p \in 1..Len(u) /\ k[p] = o[p]
               \/ /\ p - Len(u) \in 1..Len(v) /\ p = Len(u) + (p - Len(u))
                  /\ k[p] = <<n + 1, p - Len(u)>> /\ ~(p <= Len(u))
    BY <2>3, <2>5
  <2> HIDE DEF k
  <2>7. k \in [1..Len(w) -> Nat \X Nat]
    <3>1. ASSUME NEW p \in 1..Len(w) PROVE k[p] \in Nat \X Nat
      <4>1. CASE p \in 1..Len(u) /\ k[p] = o[p]
        BY <2>4, <4>1
      <4>2. CASE p - Len(u) \in 1..Len(v) /\ k[p] = <<n + 1, p - Len(u)>>
        <5>1. n + 1 \in Nat /\ p - Len(u) \in Nat
          BY <2>2, <4>2
        <5> QED
          BY <4>2, <5>1
      <4> QED
        BY <2>6, <4>1, <4>2
    <3> QED
      BY <3>1 DEF k
  <2>8. ASSUME NEW p \in 1..Len(w)
        PROVE  /\ k[p][1] \in 1..n + 1 /\ k[p][2] \in 1..Len(ss[k[p][1]])
               /\ w[p] = ss[k[p][1]][k[p][2]]
    <3>1. CASE p \in 1..Len(u) /\ k[p] = o[p]
      <4>1. /\ o[p][1] \in 1..n /\ o[p][2] \in 1..Len(ss[o[p][1]])
            /\ u[p] = ss[o[p][1]][o[p][2]] /\ w[p] = u[p]
        BY <2>4, <2>5, <3>1
      <4>2. o[p][1] \in 1..n + 1
        BY <4>1
      <4> QED
        BY <3>1, <4>1, <4>2
    <3>2. CASE /\ p - Len(u) \in 1..Len(v) /\ p = Len(u) + (p - Len(u))
               /\ k[p] = <<n + 1, p - Len(u)>>
      <4> DEFINE d == p - Len(u)
      <4>1. d \in 1..Len(v) /\ p = Len(u) + d /\ k[p] = <<n + 1, d>>
        BY <3>2
      <4> HIDE DEF d
      <4>2. k[p][1] = n + 1 /\ k[p][2] = d /\ w[p] = v[d]
        BY <2>5, <4>1
      <4> QED
        BY <4>1, <4>2 DEF v
    <3> QED
      BY <2>6, <3>1, <3>2
  <2>9. ASSUME NEW p \in 1..Len(w), NEW q \in 1..Len(w), k[p] = k[q] PROVE p = q
    <3>1. ASSUME NEW x \in 1..Len(w), x \in 1..Len(u), k[x] = o[x] PROVE k[x][1] # n + 1
      BY <2>4, <3>1
    <3>2. CASE p <= Len(u) /\ q <= Len(u)
      BY <2>3, <2>4, <2>6, <2>9, <3>2
    <3>3. CASE ~(p <= Len(u)) /\ ~(q <= Len(u))
      <4>1. k[p] = <<n + 1, p - Len(u)>> /\ k[q] = <<n + 1, q - Len(u)>>
        BY <2>6, <3>3
      <4>2. p - Len(u) = q - Len(u)
        <5>1. k[p][2] = p - Len(u) /\ k[q][2] = q - Len(u)
          BY <4>1
        <5> QED
          BY <2>9, <5>1
      <4>3. p \in Int /\ q \in Int /\ Len(u) \in Int
        BY <2>3
      <4> QED
        BY <4>2, <4>3
    <3>4. CASE p <= Len(u) /\ ~(q <= Len(u))
      BY <2>6, <2>9, <3>1, <3>4
    <3>5. CASE ~(p <= Len(u)) /\ q <= Len(u)
      BY <2>6, <2>9, <3>1, <3>5
    <3> QED
      BY <3>2, <3>3, <3>4, <3>5
  <2>10. From(n + 1, k)
    BY <2>3, <2>8, <2>9 DEF From
  <2> QED
    BY <2>3, <2>7, <2>10
<1>5. N = Nat
  <2> HIDE DEF Good
  <2>1. 0 \in N
    BY <1>3
  <2>2. ASSUME NEW n \in N PROVE n + 1 \in N
    BY <1>2, <1>4
  <2>3. N \in SUBSET Nat
    OBVIOUS
  <2> HIDE DEF N
  <2> QED
    BY <2>1, <2>2, <2>3, Induction
<1>6. Good(Len(ss))
  <2>1. Len(ss) \in N
    BY <1>2, <1>5, Zenon
  <2> HIDE DEF Good
  <2> QED
    BY <1>2, <2>1
<1>7. F!FlattenSeq(ss) \in Seq(T)
  <2>1. Len(ss) \in 0..Len(ss)
    BY <1>2
  <2>2. f[Len(ss)] \in Seq(T)
    BY <2>1
  <2> QED
    BY <1>1, <2>2
<1>8. PICK o \in [1..Len(f[Len(ss)]) -> Nat \X Nat] : From(Len(ss), o)
  BY <1>6
<1> DEFINE all == F!FlattenSeq(ss)
<1>9. f[Len(ss)] = all
  BY <1>1
<1> HIDE DEF all
<1>10. /\ o \in [1..Len(all) -> Nat \X Nat]
       /\ \A p \in 1..Len(all) :
            /\ o[p][1] \in 1..Len(ss) /\ o[p][2] \in 1..Len(ss[o[p][1]])
            /\ all[p] = ss[o[p][1]][o[p][2]]
            /\ \A q \in 1..Len(all) : o[p] = o[q] => p = q
  BY <1>8, <1>9
<1>11. all \in Seq(T)
  BY <1>7 DEF all
<1> HIDE DEF From
<1> QED
  BY <1>10, <1>11 DEF all

\* out has only e's items at places in K, each once.
Chosen(out, e, K) ==
  \E c \in [1..Len(out) -> K] : \A p \in 1..Len(out) :
    /\ out[p] = e[c[p]]
    /\ \A q \in 1..Len(out) : c[p] = c[q] => p = q

\* Keeping some of the items of a sequence.
LEMMA FlattenWhen ==
  ASSUME NEW T, NEW ss \in Seq(Seq(T)), NEW e, NEW K,
         \A k \in 1..Len(ss) : ss[k] = IF k \in K THEN <<e[k]>> ELSE <<>>
  PROVE  Chosen(F!FlattenSeq(ss), e, K)
<1>1. ss \in Seq(Seq(T))
  OBVIOUS
<1>3. PICK o \in [1..Len(F!FlattenSeq(ss)) -> Nat \X Nat] :
        \A p \in 1..Len(F!FlattenSeq(ss)) :
          /\ o[p][1] \in 1..Len(ss) /\ o[p][2] \in 1..Len(ss[o[p][1]])
          /\ F!FlattenSeq(ss)[p] = ss[o[p][1]][o[p][2]]
          /\ \A q \in 1..Len(F!FlattenSeq(ss)) : o[p] = o[q] => p = q
  BY <1>1, FlattenFrom
<1> DEFINE c == [p \in 1..Len(F!FlattenSeq(ss)) |-> o[p][1]]
<1>4. ASSUME NEW p \in 1..Len(F!FlattenSeq(ss))
      PROVE  /\ o[p][1] \in K /\ o[p][2] = 1 /\ F!FlattenSeq(ss)[p] = e[o[p][1]]
             /\ o[p] = <<o[p][1], 1>>
  <2>1. o[p][1] \in 1..Len(ss) /\ o[p][2] \in 1..Len(ss[o[p][1]]) /\ o[p] \in Nat \X Nat
    BY <1>1, <1>3
  <2>2. o[p][1] \in K
    <3>1. o[p][1] \notin K => ss[o[p][1]] = <<>>
      BY <1>1, <2>1
    <3> QED
      BY <2>1, <3>1
  <2>3. ss[o[p][1]] = <<e[o[p][1]]>>
    BY <1>1, <2>1, <2>2
  <2> QED
    BY <1>3, <2>1, <2>2, <2>3
<1>5. c \in [1..Len(F!FlattenSeq(ss)) -> K]
  BY <1>4
<1>6. ASSUME NEW p \in 1..Len(F!FlattenSeq(ss)), NEW q \in 1..Len(F!FlattenSeq(ss)),
             c[p] = c[q]
      PROVE  p = q
  <2>1. o[p] = o[q]
    BY <1>4, <1>6, ZenonT(60)
  <2> QED
    BY <1>3, <2>1
<1>7. \A p \in 1..Len(F!FlattenSeq(ss)) : F!FlattenSeq(ss)[p] = e[c[p]]
  BY <1>4
<1> HIDE DEF c
<1> QED
  BY <1>5, <1>6, <1>7 DEF Chosen

-----------------------------------------------------------------------------
(* Files *)

Occurrence == [use : F!Uses, line : Nat]
SourceFile == [binding : F!Bindings, lines : Seq(Seq(F!Uses))]

LEMMA OccurrencesAre ==
  ASSUME NEW file \in SourceFile
  PROVE  F!Occurrences(file) \in Seq(Occurrence)
<1> DEFINE lines == file.lines
           of(l) == [i \in 1..Len(lines[l]) |-> [use |-> lines[l][i], line |-> l + 1]]
           ss == [l \in 1..Len(lines) |-> of(l)]
<1>1. lines \in Seq(Seq(F!Uses))
  BY DEF SourceFile
<1>2. ASSUME NEW l \in 1..Len(lines) PROVE of(l) \in Seq(Occurrence)
  <2>1. lines[l] \in Seq(F!Uses) /\ l \in Nat
    BY <1>1, ElementOfSeq
  <2> DEFINE row == lines[l]
  <2>2. row \in Seq(F!Uses)
    BY <2>1
  <2> HIDE DEF row
  <2>3. Len(row) \in Nat /\ \A i \in 1..Len(row) : row[i] \in F!Uses
    BY <2>2
  <2>4. \A i \in 1..Len(row) : [use |-> row[i], line |-> l + 1] \in Occurrence
    BY <2>1, <2>3 DEF Occurrence
  <2>5. [i \in 1..Len(row) |-> [use |-> row[i], line |-> l + 1]] \in Seq(Occurrence)
    BY <2>3, <2>4
  <2> QED
    BY <2>5 DEF row
<1>3. ss \in Seq(Seq(Occurrence))
  <2>1. Len(lines) \in Nat
    BY <1>1
  <2> HIDE DEF of, lines
  <2> QED
    BY <1>2, <2>1
<1>4. F!Occurrences(file) = F!FlattenSeq(ss)
  BY DEF F!Occurrences
<1> HIDE DEF ss
<1> QED
  BY <1>3, <1>4, FlattenFrom

\* Where occurrence k starts in the text, and its length.
At(file, k) ==
  Len(F!ImportText(file.binding)) + Len(F!TextOf(SubSeq(F!Occurrences(file), 1, k - 1)))
Width(file, k) == Len(F!UseText(F!Occurrences(file)[k].use))

\* The tokens of a file and of the edits.
Tokens == {"import", "x", "from", "pkg", "/x", "*", "as", "=", "require", "await", "{", "}",
           ".", "()", "sync", "old", "xSync", "new", "er"}

LEMMA UseTexts ==
  ASSUME NEW use \in F!Uses
  PROVE  /\ F!UseText(use) \in Seq(Tokens)
         /\ Len(F!UseText(use)) = IF use = "whole" THEN 2 ELSE IF use = "import" THEN 6 ELSE 4
<1>1. {"x", ".", "()", "sync", "old"} \subseteq Tokens
  BY DEF Tokens
<1>2. CASE use = "whole"
  <2>1. F!UseText(use) = <<"x", "()">>
    BY <1>2 DEF F!UseText
  <2>2. "x" \in Tokens /\ "()" \in Tokens
    BY <1>1
  <2>3. F!UseText(use) \in Seq(Tokens) /\ Len(F!UseText(use)) = 2
    BY <2>1, <2>2
  <2> QED
    BY <1>2, <2>3
<1>3. CASE use = "import"
  <2> DEFINE open == "{"
             close == "}"
  <2>1. F!UseText(use) = <<"import", open, "old", close, "from", "pkg">>
    <3>1. use # "whole" /\ use = "import"
      BY <1>3
    <3> QED
      BY <3>1, Zenon DEF F!UseText
  <2>2. /\ "import" \in Tokens /\ open \in Tokens /\ "old" \in Tokens
        /\ close \in Tokens /\ "from" \in Tokens /\ "pkg" \in Tokens
    BY DEF Tokens
  <2> HIDE DEF open, close
  <2>3. F!UseText(use) \in Seq(Tokens) /\ Len(F!UseText(use)) = 6
    BY <2>1, <2>2
  <2> QED
    BY <1>3, <2>3
<1>4. CASE use # "whole" /\ use # "import"
  <2>1. F!UseText(use) = <<"x", ".", use, "()">>
    BY <1>4 DEF F!UseText
  <2>2. use \in Tokens
    BY <1>1, <1>4 DEF F!Uses
  <2> QED
    BY <1>1, <1>4, <2>1, <2>2
<1> QED
  BY <1>2, <1>3, <1>4

LEMMA ImportTexts ==
  ASSUME NEW binding \in F!Bindings
  PROVE  /\ F!ImportText(binding) \in Seq(Tokens)
         /\ Len(F!ImportText(binding)) \in Nat \ {0}
<1>1. {"import", "x", "from", "pkg", "*", "as", "/x", "=", "require", "await"} \subseteq Tokens
  BY DEF Tokens
<1>2. CASE binding = "default"
  <2>1. F!ImportText(binding) = <<"import", "x", "from", "pkg">>
    BY <1>2 DEF F!ImportText
  <2> QED
    BY <1>1, <2>1
<1>3. CASE binding = "namespace"
  <2>1. F!ImportText(binding) = <<"import", "*", "as", "x", "from", "pkg">>
    BY <1>3 DEF F!ImportText
  <2> QED
    BY <1>1, <2>1
<1>4. CASE binding = "subpath"
  <2>1. F!ImportText(binding) = <<"import", "x", "from", "pkg", "/x">>
    BY <1>4 DEF F!ImportText
  <2> QED
    BY <1>1, <2>1
<1>5. CASE binding = "require"
  <2>1. F!ImportText(binding) = <<"x", "=", "require", "pkg">>
    BY <1>5 DEF F!ImportText
  <2> QED
    BY <1>1, <2>1
<1>6. CASE binding = "dynamic"
  <2>1. F!ImportText(binding) = <<"x", "=", "await", "import", "pkg">>
    BY <1>6 DEF F!ImportText
  <2> QED
    BY <1>1, <2>1
<1> QED
  BY <1>2, <1>3, <1>4, <1>5, <1>6 DEF F!Bindings

\* The text of the first occurrences grows by one use at a time.
LEMMA Positions ==
  ASSUME NEW file \in SourceFile
  PROVE  \E f \in [0..Len(F!Occurrences(file)) -> Seq(Tokens)] :
           /\ \A k \in 1..Len(F!Occurrences(file)) :
                Len(f[k]) = Len(f[k - 1]) + Width(file, k)
           /\ \A k \in 1..Len(F!Occurrences(file)) :
                At(file, k) = Len(F!ImportText(file.binding)) + Len(f[k - 1])
           /\ F!Source(file) = F!ImportText(file.binding) \o f[Len(F!Occurrences(file))]
<1> DEFINE all == F!Occurrences(file)
           n == Len(all)
           ss == [i \in 1..n |-> F!UseText(all[i].use)]
<1>1. all \in Seq(Occurrence)
  BY OccurrencesAre
<1> HIDE DEF all
<1>2. /\ n \in Nat /\ \A k \in 1..n : all[k] \in Occurrence
  BY <1>1
<1>3. \A k \in 1..n : F!UseText(all[k].use) \in Seq(Tokens)
  BY <1>2, UseTexts DEF Occurrence
<1>4. ss \in Seq(Seq(Tokens)) /\ Len(ss) = n /\ \A k \in 1..n : ss[k] = F!UseText(all[k].use)
  BY <1>2, <1>3
<1> HIDE DEF ss
<1>5. PICK f \in [0..Len(ss) -> Seq(Tokens)] :
        /\ \A k \in 1..Len(ss) : f[k] = f[k - 1] \o ss[k]
        /\ \A k \in 0..Len(ss) : f[k] = F!FlattenSeq(SubSeq(ss, 1, k))
        /\ f[Len(ss)] = F!FlattenSeq(ss)
  BY <1>4, Flatten
<1>6. ASSUME NEW k \in 1..n PROVE Len(f[k]) = Len(f[k - 1]) + Width(file, k)
  <2> DEFINE u == f[k - 1]
             v == ss[k]
  <2>1. u \in Seq(Tokens) /\ v \in Seq(Tokens) /\ f[k] = u \o v
    <3>1. k - 1 \in 0..Len(ss) /\ k \in 1..Len(ss)
      BY <1>2, <1>4
    <3>2. u \in Seq(Tokens) /\ v \in Seq(Tokens)
      BY <1>3, <1>4, <3>1
    <3> QED
      BY <1>5, <3>1, <3>2
  <2> HIDE DEF u, v
  <2>2. Len(f[k]) = Len(u) + Len(v)
    BY <2>1, ConcatProperties
  <2> QED
    BY <1>4, <2>2 DEF u, v, Width, all
<1>7. ASSUME NEW k \in 1..n
      PROVE  At(file, k) = Len(F!ImportText(file.binding)) + Len(f[k - 1])
  <2> DEFINE m == k - 1
             part == SubSeq(all, 1, m)
  <2>1. m \in 0..n
    BY <1>2
  <2> HIDE DEF m
  <2>2. Len(part) = m /\ \A i \in 1..m : part[i] = all[i]
    <3>1. \A i \in 1..m : all[i] \in Occurrence
      BY <1>2, <2>1
    <3>2. m \in Int /\ m - 1 + 1 = m /\ (1 <= m \/ m = 0)
      BY <1>2, <2>1
    <3>3. /\ Len(part) = IF 1 <= m THEN m - 1 + 1 ELSE 0
          /\ \A i \in 1..m - 1 + 1 : part[i] = all[1 + i - 1]
      BY <3>1, <3>2, SubSeqProperties
    <3>4. \A i \in 1..m : 1 + i - 1 = i
      BY <2>1
    <3> HIDE DEF part
    <3> QED
      BY <3>2, <3>3, <3>4
  <2> HIDE DEF part
  <2>3. [i \in 1..Len(part) |-> F!UseText(part[i].use)] = SubSeq(ss, 1, m)
    <3>1. m \in 0..Len(ss)
      BY <1>4, <2>1
    <3>2. SubSeq(ss, 1, m) = [i \in 1..m |-> ss[i]]
      BY <1>4, <3>1
    <3>3. \A i \in 1..m : ss[i] = F!UseText(part[i].use)
      BY <1>2, <1>4, <2>1, <2>2
    <3> QED
      BY <2>2, <3>2, <3>3
  <2>4. F!TextOf(part) = F!FlattenSeq(SubSeq(ss, 1, m))
    BY <2>3 DEF F!TextOf
  <2>5. f[m] = F!TextOf(part)
    BY <1>4, <1>5, <2>1, <2>4
  <2> QED
    BY <2>5 DEF At, m, part, all
<1>8. F!Source(file) = F!ImportText(file.binding) \o f[n]
  <2>1. F!TextOf(all) = F!FlattenSeq(ss)
    BY DEF F!TextOf, ss
  <2> QED
    BY <1>4, <1>5, <2>1 DEF F!Source, all
<1> QED
  BY <1>4, <1>6, <1>7, <1>8 DEF all

\* Occurrences do not overlap: the next starts after this one's end.
LEMMA Apart ==
  ASSUME NEW file \in SourceFile
  PROVE  /\ F!Source(file) \in Seq(Tokens)
         /\ Len(F!ImportText(file.binding)) <= Len(F!Source(file))
         /\ \A k \in 1..Len(F!Occurrences(file)) :
              /\ At(file, k) \in Nat /\ Width(file, k) \in Nat
              /\ Len(F!ImportText(file.binding)) <= At(file, k)
              /\ At(file, k) + Width(file, k) <= Len(F!Source(file))
              /\ \A j \in 1..Len(F!Occurrences(file)) :
                   k < j => At(file, k) + Width(file, k) <= At(file, j)
<1> DEFINE all == F!Occurrences(file)
           n == Len(all)
           head == F!ImportText(file.binding)
           h == Len(head)
<1>1. n \in Nat /\ \A k \in 1..n : Width(file, k) \in Nat
  <2>1. all \in Seq(Occurrence)
    BY OccurrencesAre
  <2> HIDE DEF all
  <2>2. n \in Nat /\ \A k \in 1..n : all[k] \in Occurrence
    BY <2>1
  <2>3. ASSUME NEW k \in 1..n PROVE Len(F!UseText(all[k].use)) \in Nat
    <3>1. all[k].use \in F!Uses
      BY <2>2 DEF Occurrence
    <3> QED
      BY <3>1, UseTexts
  <2> QED
    BY <2>2, <2>3 DEF Width, all
<1>2. head \in Seq(Tokens) /\ h \in Nat
  BY ImportTexts DEF SourceFile
<1>3. PICK f \in [0..n -> Seq(Tokens)] :
        /\ \A k \in 1..n : Len(f[k]) = Len(f[k - 1]) + Width(file, k)
        /\ \A k \in 1..n : At(file, k) = h + Len(f[k - 1])
        /\ F!Source(file) = head \o f[n]
  BY Positions
<1>4. \A k \in 0..n : f[k] \in Seq(Tokens) /\ Len(f[k]) \in Nat
  BY LenProperties
<1> HIDE DEF n, head, h
<1>5. ASSUME NEW k \in 0..n, NEW j \in k..n PROVE Len(f[k]) <= Len(f[j])
  <2> DEFINE N == {d \in Nat : k + d <= n => Len(f[k]) <= Len(f[k + d])}
  <2>1. 0 \in N
    BY <1>1, <1>4
  <2>2. ASSUME NEW d \in N PROVE d + 1 \in N
    <3>1. d \in Nat /\ (k + d <= n => Len(f[k]) <= Len(f[k + d]))
      OBVIOUS
    <3>2. ASSUME k + (d + 1) <= n PROVE Len(f[k]) <= Len(f[k + (d + 1)])
      <4> DEFINE x == k + (d + 1)
      <4>1. x \in 1..n /\ x - 1 = k + d /\ k + d \in 0..n /\ k + d <= n
        BY <1>1, <3>1, <3>2
      <4> HIDE DEF x
      <4>2. Len(f[x]) = Len(f[k + d]) + Width(file, x)
        BY <1>3, <4>1
      <4>3. Width(file, x) \in Nat /\ Len(f[k + d]) \in Nat /\ Len(f[k]) \in Nat
        BY <1>1, <1>4, <4>1
      <4>4. Len(f[k]) <= Len(f[x])
        BY <3>1, <4>1, <4>2, <4>3
      <4> QED
        BY <4>4 DEF x
    <3>3. d + 1 \in Nat
      BY <3>1
    <3> QED
      BY <3>2, <3>3
  <2>3. N = Nat
    <3>1. N \in SUBSET Nat
      OBVIOUS
    <3> HIDE DEF N
    <3> QED
      BY <2>1, <2>2, <3>1, Induction
  <2> DEFINE d == j - k
  <2>4. d \in Nat /\ k + d = j /\ j <= n
    BY <1>1
  <2> HIDE DEF d
  <2>5. d \in N
    BY <2>3, <2>4, Zenon
  <2> QED
    BY <2>4, <2>5
<1>6. F!Source(file) \in Seq(Tokens) /\ Len(F!Source(file)) = h + Len(f[n])
  <2> DEFINE v == f[n]
  <2>1. v \in Seq(Tokens)
    BY <1>1, <1>4
  <2> HIDE DEF v
  <2>2. head \o v \in Seq(Tokens) /\ Len(head \o v) = Len(head) + Len(v)
    BY <1>2, <2>1, ConcatProperties
  <2> QED
    BY <1>3, <2>2 DEF v, h
<1>7. ASSUME NEW k \in 1..n
      PROVE  /\ At(file, k) \in Nat /\ Width(file, k) \in Nat /\ h <= At(file, k)
             /\ At(file, k) + Width(file, k) <= Len(F!Source(file))
             /\ \A j \in 1..n : k < j => At(file, k) + Width(file, k) <= At(file, j)
  <2>1. k - 1 \in 0..n /\ k \in 0..n /\ n \in k..n
    BY <1>1
  <2>2. /\ At(file, k) = h + Len(f[k - 1]) /\ Len(f[k]) = Len(f[k - 1]) + Width(file, k)
        /\ Len(f[k - 1]) \in Nat /\ Len(f[k]) \in Nat /\ Width(file, k) \in Nat
        /\ Len(f[k]) <= Len(f[n])
    BY <1>1, <1>3, <1>4, <1>5, <2>1
  <2>3. ASSUME NEW j \in 1..n, k < j
        PROVE  At(file, k) + Width(file, k) <= At(file, j)
    <3>1. j - 1 \in k..n /\ j - 1 \in 0..n
      BY <1>1, <2>3
    <3>2. Len(f[k]) <= Len(f[j - 1]) /\ At(file, j) = h + Len(f[j - 1])
      BY <1>3, <1>5, <2>1, <3>1
    <3>3. Len(f[j - 1]) \in Nat
      BY <1>4, <3>1
    <3> QED
      BY <1>2, <2>2, <3>2, <3>3, SMTT(40)
  <2>4. Len(f[n]) \in Nat
    BY <1>1, <1>4
  <2> DEFINE at == At(file, k)
             l == Len(f[k - 1])
             w == Width(file, k)
  <2>5. at = h + l /\ Len(f[k]) = l + w
    BY <2>2
  <2>6. h \in Nat /\ l \in Nat /\ w \in Nat
    BY <1>2, <2>2
  <2> HIDE DEF at, l, w
  <2>7. at \in Nat /\ h <= at /\ at + w <= Len(F!Source(file))
    BY <1>6, <2>2, <2>4, <2>5, <2>6
  <2> QED
    BY <2>2, <2>3, <2>7 DEF at, w
<1>8. h <= Len(F!Source(file))
  <2>1. Len(f[n]) \in Nat
    BY <1>1, <1>4
  <2> QED
    BY <1>2, <1>6, <2>1
<1> QED
  BY <1>6, <1>7, <1>8 DEF n, h, head

-----------------------------------------------------------------------------
(* The edits of the rules *)

Fits(n, edits) == edits \in Seq(EditOf(Tokens)) /\ Within(edits, n)
AllApart(u, v) ==
  \A i \in DOMAIN u, j \in DOMAIN v : u[i].end <= v[j].start \/ v[j].end <= u[i].start

\* Edits of the import, and edits within the occurrences in K.
OnImport(file, edits) ==
  \A i \in DOMAIN edits : edits[i].end = Len(F!ImportText(file.binding))
OnUses(file, K, edits) ==
  \A i \in DOMAIN edits : \E k \in K :
    /\ At(file, k) <= edits[i].start
    /\ edits[i].end <= At(file, k) + Width(file, k)

LEMMA EditsAre ==
  ASSUME NEW n \in Nat, NEW edits, Fits(n, edits)
  PROVE  /\ Len(edits) \in Nat /\ DOMAIN edits = 1..Len(edits)
         /\ \A i \in DOMAIN edits : /\ edits[i] \in EditOf(Tokens)
                                    /\ edits[i].start \in Nat /\ edits[i].end \in Nat
                                    /\ edits[i].start < edits[i].end /\ edits[i].end <= n
<1>1. edits \in Seq(EditOf(Tokens))
  BY DEF Fits
<1>2. \A i \in 1..Len(edits) : edits[i] \in EditOf(Tokens)
  BY <1>1, ElementOfSeq
<1>3. Len(edits) \in Nat /\ DOMAIN edits = 1..Len(edits)
  BY <1>1
<1> QED
  BY <1>2, <1>3 DEF Fits, Within, EditOf

LEMMA JoinFits ==
  ASSUME NEW n \in Nat, NEW u, NEW v, Fits(n, u), Fits(n, v)
  PROVE  /\ Fits(n, u \o v)
         /\ \A i \in DOMAIN (u \o v) :
              \/ i \in DOMAIN u /\ (u \o v)[i] = u[i]
              \/ i - Len(u) \in DOMAIN v /\ (u \o v)[i] = v[i - Len(u)]
<1>1. u \in Seq(EditOf(Tokens)) /\ v \in Seq(EditOf(Tokens))
  BY DEF Fits
<1> DEFINE w == u \o v
<1>2. /\ w \in Seq(EditOf(Tokens)) /\ Len(w) = Len(u) + Len(v)
      /\ \A i \in 1..Len(u) + Len(v) : w[i] = IF i <= Len(u) THEN u[i] ELSE v[i - Len(u)]
  BY <1>1, ConcatProperties
<1> HIDE DEF w
<1>3. /\ Len(u) \in Nat /\ Len(v) \in Nat /\ DOMAIN u = 1..Len(u) /\ DOMAIN v = 1..Len(v)
      /\ DOMAIN w = 1..Len(u) + Len(v)
  BY <1>1, <1>2
<1>4. \A i \in DOMAIN w : \/ i \in DOMAIN u /\ w[i] = u[i]
                          \/ i - Len(u) \in DOMAIN v /\ w[i] = v[i - Len(u)]
  BY <1>2, <1>3
<1>5. Within(w, n)
  BY <1>4 DEF Fits, Within
<1> QED
  BY <1>2, <1>4, <1>5 DEF w, Fits

LEMMA Join ==
  ASSUME NEW n \in Nat, NEW u, NEW v, Fits(n, u), Fits(n, v),
         F!Disjoint(u), F!Disjoint(v), AllApart(u, v)
  PROVE  F!Disjoint(u \o v)
<1> DEFINE w == u \o v
<1>1. /\ Fits(n, w)
      /\ \A i \in DOMAIN w : \/ i \in DOMAIN u /\ w[i] = u[i]
                             \/ i - Len(u) \in DOMAIN v /\ w[i] = v[i - Len(u)]
  BY JoinFits
<1> HIDE DEF w
<1>2. /\ DOMAIN w \subseteq Int /\ Len(u) \in Int
  BY <1>1, EditsAre
<1>3. ASSUME NEW i \in DOMAIN w, NEW j \in DOMAIN w, i # j
      PROVE  w[i].end <= w[j].start \/ w[j].end <= w[i].start
  <2>1. CASE /\ i \in DOMAIN u /\ w[i] = u[i]
             /\ j \in DOMAIN u /\ w[j] = u[j]
    BY <1>3, <2>1 DEF F!Disjoint
  <2>2. CASE /\ i - Len(u) \in DOMAIN v /\ w[i] = v[i - Len(u)]
             /\ j - Len(u) \in DOMAIN v /\ w[j] = v[j - Len(u)]
    <3>1. i - Len(u) # j - Len(u)
      BY <1>2, <1>3
    <3> QED
      BY <2>2, <3>1 DEF F!Disjoint
  <2>3. CASE /\ i \in DOMAIN u /\ w[i] = u[i]
             /\ j - Len(u) \in DOMAIN v /\ w[j] = v[j - Len(u)]
    BY <2>3 DEF AllApart
  <2>4. CASE /\ i - Len(u) \in DOMAIN v /\ w[i] = v[i - Len(u)]
             /\ j \in DOMAIN u /\ w[j] = u[j]
    BY <2>4 DEF AllApart
  <2> QED
    BY <1>1, <2>1, <2>2, <2>3, <2>4
<1> QED
  BY <1>3 DEF F!Disjoint, w

LEMMA JoinApart ==
  ASSUME NEW n \in Nat, NEW u, NEW v, NEW w, Fits(n, u), Fits(n, v),
         AllApart(u, w), AllApart(v, w)
  PROVE  AllApart(u \o v, w)
<1> DEFINE x == u \o v
<1>1. \A i \in DOMAIN x : \/ i \in DOMAIN u /\ x[i] = u[i]
                          \/ i - Len(u) \in DOMAIN v /\ x[i] = v[i - Len(u)]
  BY JoinFits, ZenonT(60)
<1> HIDE DEF x
<1>2. AllApart(x, w)
  BY <1>1 DEF AllApart
<1> QED
  BY <1>2 DEF x

LEMMA NoEdits ==
  ASSUME NEW n \in Nat
  PROVE  /\ Fits(n, <<>>) /\ F!Disjoint(<<>>)
         /\ \A u : AllApart(<<>>, u) /\ AllApart(u, <<>>)
<1>1. DOMAIN <<>> = {}
  OBVIOUS
<1> QED
  BY <1>1, EmptySeq DEF Fits, Within, F!Disjoint, AllApart

\* Edits of different occurrences do not meet, nor do they meet the import.
LEMMA UsesApart ==
  ASSUME NEW file \in SourceFile, NEW n \in Nat, NEW u, NEW v, Fits(n, u), Fits(n, v),
         NEW K \in SUBSET (1..Len(F!Occurrences(file))),
         NEW J \in SUBSET (1..Len(F!Occurrences(file))), K \cap J = {},
         OnUses(file, K, u), OnUses(file, J, v)
  PROVE  AllApart(u, v)
<1> SUFFICES ASSUME NEW i \in DOMAIN u, NEW j \in DOMAIN v
             PROVE  u[i].end <= v[j].start \/ v[j].end <= u[i].start
  BY DEF AllApart
<1>1. PICK k \in K : /\ At(file, k) <= u[i].start
                     /\ u[i].end <= At(file, k) + Width(file, k)
  BY DEF OnUses
<1>2. PICK l \in J : /\ At(file, l) <= v[j].start
                     /\ v[j].end <= At(file, l) + Width(file, l)
  BY DEF OnUses
<1>3. /\ At(file, k) \in Nat /\ Width(file, k) \in Nat
      /\ At(file, l) \in Nat /\ Width(file, l) \in Nat
      /\ k < l => At(file, k) + Width(file, k) <= At(file, l)
      /\ l < k => At(file, l) + Width(file, l) <= At(file, k)
  BY Apart
<1>4. /\ u[i].start \in Nat /\ u[i].end \in Nat /\ v[j].start \in Nat /\ v[j].end \in Nat
  BY EditsAre
<1>5. k < l \/ l < k
  <2>1. k # l /\ k \in Int /\ l \in Int
    BY OccurrencesAre
  <2> QED
    BY <2>1
<1> DEFINE a == At(file, k)
           b == At(file, k) + Width(file, k)
           c == At(file, l)
           d == At(file, l) + Width(file, l)
<1>6. /\ a \in Nat /\ b \in Nat /\ c \in Nat /\ d \in Nat /\ (b <= c \/ d <= a)
      /\ a <= u[i].start /\ u[i].end <= b /\ c <= v[j].start /\ v[j].end <= d
  BY <1>1, <1>2, <1>3, <1>5
<1> HIDE DEF a, b, c, d
<1> QED
  BY <1>4, <1>6, SMTT(40)

LEMMA ImportApart ==
  ASSUME NEW file \in SourceFile, NEW n \in Nat, NEW u, NEW v, Fits(n, u), Fits(n, v),
         NEW K \in SUBSET (1..Len(F!Occurrences(file))),
         OnImport(file, u), OnUses(file, K, v)
  PROVE  AllApart(u, v) /\ AllApart(v, u)
<1>1. ASSUME NEW i \in DOMAIN u, NEW j \in DOMAIN v PROVE u[i].end <= v[j].start
  <2>1. PICK k \in K : At(file, k) <= v[j].start
    BY DEF OnUses
  <2> DEFINE a == At(file, k)
             h == Len(F!ImportText(file.binding))
  <2>2. a \in Nat /\ h <= a /\ a <= v[j].start
    BY <2>1, Apart
  <2>3. u[i].end = h
    BY DEF OnImport
  <2>4. v[j].start \in Nat /\ h \in Nat
    BY EditsAre, ImportTexts DEF SourceFile
  <2> HIDE DEF a, h
  <2> QED
    BY <2>2, <2>3, <2>4
<1> QED
  BY <1>1 DEF AllApart

\* One rule's edits of some occurrences (identifierEdits, propertyEdits).
LEMMA UseRule ==
  ASSUME NEW file \in SourceFile, NEW uses, NEW from \in Nat, NEW to \in Nat, from < to,
         NEW text \in Seq(Tokens),
         \A k \in 1..Len(F!Occurrences(file)) :
           F!Occurrences(file)[k] \in uses => to <= Width(file, k),
         NEW edits, edits = F!EditUses(file, uses, from, to, text)
  PROVE  /\ Fits(Len(F!Source(file)), edits) /\ F!Disjoint(edits)
         /\ OnUses(file, {k \in 1..Len(F!Occurrences(file)) :
                            F!Occurrences(file)[k] \in uses}, edits)
<1> DEFINE all == F!Occurrences(file)
           n == Len(all)
           L == Len(F!Source(file))
           K == {k \in 1..n : all[k] \in uses}
           at(k) == At(file, k)
           e == [k \in 1..n |-> F!Edit(at(k) + from, at(k) + to, text)]
<1>1. n \in Nat
  BY OccurrencesAre
<1>2. L \in Nat
  <2>1. F!Source(file) \in Seq(Tokens)
    BY Apart
  <2> QED
    BY <2>1, LenProperties
<1>3. \A k \in 1..n : /\ at(k) \in Nat /\ Width(file, k) \in Nat
                      /\ at(k) + Width(file, k) <= L
                      /\ \A j \in 1..n : k < j => at(k) + Width(file, k) <= at(j)
  BY Apart
<1>4. \A k \in K : to <= Width(file, k)
  OBVIOUS
<1> DEFINE ss == [k \in 1..n |->
             F!When(all[k] \in uses, <<F!Edit(at(k) + from, at(k) + to, text)>>)]
<1>5. /\ edits = F!FlattenSeq(ss) /\ Len(ss) = n
      /\ \A k \in 1..n : ss[k] = IF k \in K THEN <<e[k]>> ELSE <<>>
  <2>1. edits = F!FlattenSeq(ss)
    BY DEF F!EditUses, At
  <2>2. Len(ss) = n
    BY <1>1
  <2>3. ASSUME NEW k \in 1..n PROVE ss[k] = IF k \in K THEN <<e[k]>> ELSE <<>>
    BY DEF F!When
  <2> QED
    BY <2>1, <2>2, <2>3
<1> HIDE DEF n, L, at
<1>6. ASSUME NEW k \in 1..n
      PROVE  e[k] = [start |-> at(k) + from, end |-> at(k) + to, text |-> text]
  BY DEF F!Edit
<1>7. e \in [1..n -> EditOf(Tokens)]
  <2>1. ASSUME NEW k \in 1..n PROVE e[k] \in EditOf(Tokens)
    <3>1. at(k) + from \in Nat /\ at(k) + to \in Nat
      BY <1>3
    <3>2. [start |-> at(k) + from, end |-> at(k) + to, text |-> text] \in EditOf(Tokens)
      BY <3>1 DEF EditOf
    <3> QED
      BY <1>6, <3>2
  <2> QED
    BY <2>1
<1>8. K \in SUBSET (1..n)
  OBVIOUS
<1> HIDE DEF e, K
<1>81. ss \in Seq(Seq(EditOf(Tokens)))
  <2>1. \A k \in 1..n : ss[k] \in Seq(EditOf(Tokens))
    <3>1. \A k \in 1..n : <<e[k]>> \in Seq(EditOf(Tokens))
      BY <1>7
    <3> HIDE DEF ss
    <3> QED
      BY <1>5, <3>1, EmptySeq
  <2>2. n \in Nat
    BY <1>1
  <2> DEFINE x(k) == F!When(all[k] \in uses, <<F!Edit(at(k) + from, at(k) + to, text)>>)
  <2>3. \A k \in 1..n : ss[k] = x(k)
    OBVIOUS
  <2>4. ss = [k \in 1..n |-> x(k)]
    OBVIOUS
  <2> HIDE DEF x, ss
  <2> QED
    BY <2>1, <2>2, <2>3, <2>4
<1> HIDE DEF ss
<1>9. edits \in Seq(EditOf(Tokens)) /\ Chosen(edits, e, K)
  <2>1. \A k \in 1..Len(ss) : ss[k] = IF k \in K THEN <<e[k]>> ELSE <<>>
    BY <1>5
  <2>2. F!FlattenSeq(ss) \in Seq(EditOf(Tokens))
    BY <1>81, FlattenFrom
  <2>3. Chosen(F!FlattenSeq(ss), e, K)
    BY <1>81, <2>1, FlattenWhen
  <2> QED
    BY <1>5, <2>2, <2>3
<1>10. PICK c \in [1..Len(edits) -> K] : \A p \in 1..Len(edits) :
           /\ edits[p] = e[c[p]]
           /\ \A q \in 1..Len(edits) : c[p] = c[q] => p = q
  BY <1>9 DEF Chosen
<1>11. DOMAIN edits = 1..Len(edits)
  BY <1>9
<1>12. \A p \in DOMAIN edits : /\ c[p] \in K /\ c[p] \in 1..n
                               /\ edits[p].start = at(c[p]) + from
                               /\ edits[p].end = at(c[p]) + to
  <2> TAKE p \in DOMAIN edits
  <2>1. p \in 1..Len(edits) /\ c[p] \in K /\ edits[p] = e[c[p]]
    BY <1>10, <1>11
  <2>2. c[p] \in 1..n
    BY <1>8, <2>1
  <2> DEFINE k == c[p]
  <2>3. e[k] = [start |-> at(k) + from, end |-> at(k) + to, text |-> text]
    BY <1>6, <2>2
  <2> HIDE DEF k
  <2>4. e[k].start = at(k) + from /\ e[k].end = at(k) + to
    BY <2>3
  <2> QED
    BY <2>1, <2>2, <2>4 DEF k
<1>13. ASSUME NEW p \in DOMAIN edits
       PROVE  /\ edits[p].start < edits[p].end /\ edits[p].end <= L
              /\ at(c[p]) <= edits[p].start
              /\ edits[p].end <= at(c[p]) + Width(file, c[p])
  <2> DEFINE a == at(c[p])
             w == Width(file, c[p])
  <2>1. a \in Nat /\ w \in Nat /\ a + w <= L /\ to <= w
    BY <1>3, <1>4, <1>12
  <2>2. edits[p].start = a + from /\ edits[p].end = a + to
    BY <1>12
  <2> HIDE DEF a, w
  <2>3. /\ edits[p].start < edits[p].end /\ edits[p].end <= L
        /\ a <= edits[p].start /\ edits[p].end <= a + w
    BY <1>2, <2>1, <2>2
  <2> QED
    BY <2>3 DEF a, w
<1>14. Fits(L, edits)
  BY <1>9, <1>13 DEF Fits, Within
<1>15. OnUses(file, K, edits)
  BY <1>12, <1>13 DEF OnUses, at
<1>16. ASSUME NEW p \in DOMAIN edits, NEW q \in DOMAIN edits, p # q
       PROVE  edits[p].end <= edits[q].start \/ edits[q].end <= edits[p].start
  <2> DEFINE a == at(c[p])
             b == at(c[q])
             v == Width(file, c[p])
             w == Width(file, c[q])
  <2>1. c[p] < c[q] \/ c[q] < c[p]
    <3>1. c[p] # c[q] /\ c[p] \in Int /\ c[q] \in Int
      BY <1>1, <1>10, <1>11, <1>12, <1>16
    <3> QED
      BY <3>1
  <2>2. /\ a \in Nat /\ b \in Nat /\ v \in Nat /\ w \in Nat /\ to <= v /\ to <= w
        /\ a + v <= b \/ b + w <= a
    BY <1>3, <1>4, <1>12, <2>1
  <2>3. /\ edits[p].start = a + from /\ edits[p].end = a + to
        /\ edits[q].start = b + from /\ edits[q].end = b + to
    BY <1>12
  <2> HIDE DEF a, b, v, w
  <2> QED
    BY <2>2, <2>3
<1> QED
  BY <1>14, <1>15, <1>16 DEF F!Disjoint, L, K, n, all

\* The occurrences that some suggestion is about.
Suggested(file, output) ==
  {k \in 1..Len(F!Occurrences(file)) : \E i \in 1..Len(output.suggestions) :
     F!Occurrences(file)[k] \in F!Meant(file, output.suggestions[i])}

\* The edits of the suggestions overlap only if two suggest the same occurrence.
LEMMA SuggestionEdits ==
  ASSUME NEW file \in SourceFile, NEW output, output.suggestions \in Seq(Occurrence),
         \A i \in 1..Len(output.suggestions) :
           output.suggestions[i].use \in {"old", "sync"},
         NEW edits, edits = F!SuggestionRule(file, output)
  PROVE  /\ Fits(Len(F!Source(file)), edits)
         /\ OnUses(file, Suggested(file, output), edits)
         /\ \/ F!Disjoint(edits)
            \/ \E i, j \in 1..Len(output.suggestions) :
                 /\ i # j
                 /\ F!Meant(file, output.suggestions[i])
                      \cap F!Meant(file, output.suggestions[j]) # {}
<1> DEFINE sugg == output.suggestions
           all == F!Occurrences(file)
           n == Len(all)
           L == Len(F!Source(file))
           text == <<"new", "er">>
           meant(i) == F!Meant(file, sugg[i])
           rule(i) == F!EditUses(file, meant(i), 2, 3, text)
           ss == [i \in 1..Len(sugg) |-> rule(i)]
           Of(i) == {k \in 1..n : all[k] \in meant(i)}
           K == Suggested(file, output)
<1>1. L \in Nat
  <2>1. F!Source(file) \in Seq(Tokens)
    BY Apart
  <2> QED
    BY <2>1, LenProperties
<1>2. all \in Seq(Occurrence)
  BY OccurrencesAre
<1>3. Len(sugg) \in Nat /\ \A i \in 1..Len(sugg) : i \in DOMAIN sugg
  OBVIOUS
<1>4. text \in Seq(Tokens)
  <2>1. "new" \in Tokens /\ "er" \in Tokens
    BY DEF Tokens
  <2> QED
    BY <2>1
<1>5. ASSUME NEW i \in 1..Len(sugg)
      PROVE  Fits(L, rule(i)) /\ F!Disjoint(rule(i)) /\ OnUses(file, Of(i), rule(i))
  <2>1. \A k \in 1..Len(F!Occurrences(file)) :
          F!Occurrences(file)[k] \in meant(i) => 3 <= Width(file, k)
    <3> SUFFICES ASSUME NEW k \in 1..Len(F!Occurrences(file)),
                        F!Occurrences(file)[k] \in F!Meant(file, sugg[i])
                 PROVE  3 <= Width(file, k)
      OBVIOUS
    <3> DEFINE use == all[k].use
    <3>1. use \in {"old", "sync", "import"}
      <4>1. sugg[i].use \in {"old", "sync"}
        OBVIOUS
      <4>2. \/ all[k] = sugg[i]
            \/ all[k].use = "import"
        BY DEF F!Meant
      <4> QED
        BY <4>1, <4>2
    <3> HIDE DEF use
    <3>2. use \in F!Uses /\ use # "whole"
      BY <3>1 DEF F!Uses
    <3>3. Len(F!UseText(use)) \in {4, 6}
      BY <3>2, UseTexts
    <3>4. Width(file, k) = Len(F!UseText(use))
      BY DEF use, Width
    <3> QED
      BY <3>3, <3>4
  <2> HIDE DEF text
  <2>2. 2 \in Nat /\ 3 \in Nat /\ 2 < 3
    OBVIOUS
  <2> DEFINE r == rule(i)
  <2>3. r = F!EditUses(file, meant(i), 2, 3, text)
    OBVIOUS
  <2> HIDE DEF r, meant
  <2>4. Fits(L, r) /\ F!Disjoint(r) /\ OnUses(file, Of(i), r)
    BY <1>4, <2>1, <2>2, <2>3, UseRule
  <2> QED
    BY <2>4 DEF r
<1> HIDE DEF rule
<1>6. /\ ss \in Seq(Seq(EditOf(Tokens))) /\ Len(ss) = Len(sugg)
      /\ \A i \in 1..Len(sugg) : ss[i] = rule(i)
  <2>1. \A i \in 1..Len(sugg) : rule(i) \in Seq(EditOf(Tokens))
    BY <1>5 DEF Fits
  <2> QED
    BY <1>3, <2>1
<1> HIDE DEF ss
<1>7. edits = F!FlattenSeq(ss)
  BY DEF F!SuggestionRule, ss, rule
<1>8. F!FlattenSeq(ss) \in Seq(EditOf(Tokens))
  BY <1>6, FlattenFrom
<1>9. PICK o \in [1..Len(F!FlattenSeq(ss)) -> Nat \X Nat] :
        \A p \in 1..Len(F!FlattenSeq(ss)) :
          /\ o[p][1] \in 1..Len(ss) /\ o[p][2] \in 1..Len(ss[o[p][1]])
          /\ F!FlattenSeq(ss)[p] = ss[o[p][1]][o[p][2]]
          /\ \A q \in 1..Len(F!FlattenSeq(ss)) : o[p] = o[q] => p = q
  BY <1>6, FlattenFrom, ZenonT(60)
<1>10. DOMAIN edits = 1..Len(F!FlattenSeq(ss)) /\ edits \in Seq(EditOf(Tokens))
  BY <1>7, <1>8
<1>11. ASSUME NEW p \in DOMAIN edits
       PROVE  /\ o[p] \in Nat \X Nat
              /\ o[p][1] \in 1..Len(sugg) /\ o[p][2] \in DOMAIN rule(o[p][1])
              /\ edits[p] = rule(o[p][1])[o[p][2]]
  <2> DEFINE i == o[p][1]
             r == o[p][2]
  <2>1. o[p] \in Nat \X Nat /\ i \in 1..Len(ss) /\ r \in 1..Len(ss[i]) /\ edits[p] = ss[i][r]
    BY <1>7, <1>9, <1>10
  <2> HIDE DEF i, r
  <2>2. i \in 1..Len(sugg) /\ ss[i] = rule(i)
    BY <1>6, <2>1
  <2>3. DOMAIN rule(i) = 1..Len(rule(i))
    BY <1>1, <1>5, <2>2, EditsAre
  <2>4. o[p] \in Nat \X Nat /\ i \in 1..Len(sugg) /\ r \in DOMAIN rule(i)
        /\ edits[p] = rule(i)[r]
    BY <2>1, <2>2, <2>3
  <2> QED
    BY <2>4 DEF i, r
<1>12. Fits(L, edits)
  <2>1. ASSUME NEW p \in DOMAIN edits
        PROVE  edits[p].start < edits[p].end /\ edits[p].end <= L
    <3> DEFINE i == o[p][1]
               r == o[p][2]
    <3>1. i \in 1..Len(sugg) /\ r \in DOMAIN rule(i) /\ edits[p] = rule(i)[r]
      BY <1>11
    <3> HIDE DEF i, r
    <3> QED
      BY <1>1, <1>5, <3>1, EditsAre
  <2> QED
    BY <1>10, <2>1 DEF Fits, Within
<1>13. ASSUME NEW p \in DOMAIN edits
       PROVE  \E k \in Of(o[p][1]) : /\ At(file, k) <= edits[p].start
                                     /\ edits[p].end <= At(file, k) + Width(file, k)
  <2> DEFINE i == o[p][1]
             r == o[p][2]
  <2>1. i \in 1..Len(sugg) /\ r \in DOMAIN rule(i) /\ edits[p] = rule(i)[r]
    BY <1>11
  <2> HIDE DEF i, r
  <2>2. \E k \in Of(i) : /\ At(file, k) <= edits[p].start
                         /\ edits[p].end <= At(file, k) + Width(file, k)
    BY <1>5, <2>1 DEF OnUses
  <2> QED
    BY <2>2 DEF i
<1>14. OnUses(file, K, edits)
  <2>1. \A i \in 1..Len(sugg) : Of(i) \subseteq K
    BY DEF Suggested
  <2> HIDE DEF Of, K
  <2> QED
    BY <1>11, <1>13, <2>1 DEF OnUses
<1>15. \/ F!Disjoint(edits)
       \/ \E i, j \in 1..Len(sugg) : i # j /\ meant(i) \cap meant(j) # {}
  <2> SUFFICES ASSUME NEW p \in DOMAIN edits, NEW q \in DOMAIN edits, p # q,
                      ~ \E i, j \in 1..Len(sugg) : i # j /\ meant(i) \cap meant(j) # {}
               PROVE  edits[p].end <= edits[q].start \/ edits[q].end <= edits[p].start
    BY DEF F!Disjoint
  <2> DEFINE i == o[p][1]
             r == o[p][2]
             j == o[q][1]
             s == o[q][2]
  <2>1. /\ i \in 1..Len(sugg) /\ r \in DOMAIN rule(i) /\ edits[p] = rule(i)[r]
        /\ j \in 1..Len(sugg) /\ s \in DOMAIN rule(j) /\ edits[q] = rule(j)[s]
    BY <1>11
  <2>2. ~(i = j /\ r = s)
    <3>1. o[p] # o[q]
      BY <1>7, <1>9, <1>10
    <3>2. o[p] \in Nat \X Nat /\ o[q] \in Nat \X Nat
      BY <1>11
    <3> QED
      BY <3>1, <3>2
  <2> HIDE DEF i, r, j, s
  <2>3. CASE i = j
    BY <1>5, <2>1, <2>2, <2>3 DEF F!Disjoint
  <2>4. CASE i # j
    <3>1. Of(i) \cap Of(j) = {}
      <4> HIDE DEF all, n, meant
      <4> QED
        BY <2>1, <2>4
    <3>2. AllApart(rule(i), rule(j))
      <4> DEFINE u == rule(i)
                 v == rule(j)
                 I == Of(i)
                 J == Of(j)
      <4>1. /\ Fits(L, u) /\ Fits(L, v) /\ OnUses(file, I, u) /\ OnUses(file, J, v)
        BY <1>5, <2>1
      <4>2. I \in SUBSET (1..n) /\ J \in SUBSET (1..n) /\ I \cap J = {}
        BY <3>1
      <4> HIDE DEF u, v, I, J, L
      <4>3. AllApart(u, v)
        BY <1>1, <4>1, <4>2, UsesApart
      <4> QED
        BY <4>3 DEF u, v
    <3> QED
      BY <2>1, <3>2 DEF AllApart
  <2> QED
    BY <2>3, <2>4
<1> QED
  BY <1>12, <1>14, <1>15

\* A replaced import is one edit, of the import.
LEMMA ImportEdit ==
  ASSUME NEW file \in SourceFile, NEW text \in Seq(Tokens), NEW condition \in BOOLEAN,
         NEW edits, edits = F!When(condition, F!EditImport(file, text))
  PROVE  /\ Fits(Len(F!Source(file)), edits) /\ F!Disjoint(edits) /\ OnImport(file, edits)
         /\ ~condition => edits = <<>>
<1> DEFINE h == Len(F!ImportText(file.binding))
           L == Len(F!Source(file))
           e == [start |-> 0, end |-> h, text |-> text]
<1>1. h \in Nat \ {0} /\ h <= L /\ L \in Nat
  <2>1. F!Source(file) \in Seq(Tokens)
    BY Apart
  <2> QED
    BY <2>1, Apart, ImportTexts DEF SourceFile
<1>2. CASE condition
  <2>1. edits = <<e>>
    BY <1>2 DEF F!When, F!EditImport, F!Edit
  <2>2. e \in EditOf(Tokens) /\ e.start = 0 /\ e.end = h
    BY <1>1 DEF EditOf
  <2> HIDE DEF e, h, L
  <2>3. edits \in Seq(EditOf(Tokens)) /\ DOMAIN edits = {1} /\ edits[1] = e
    BY <2>1, <2>2
  <2>4. Fits(L, edits)
    BY <1>1, <2>2, <2>3 DEF Fits, Within
  <2>5. F!Disjoint(edits)
    BY <2>3 DEF F!Disjoint
  <2>6. OnImport(file, edits)
    BY <2>2, <2>3 DEF OnImport, h
  <2> QED
    BY <1>2, <2>4, <2>5, <2>6 DEF L
<1>3. CASE ~condition
  <2>1. edits = <<>> /\ DOMAIN <<>> = {}
    BY <1>3 DEF F!When
  <2> QED
    BY <1>1, <2>1, NoEdits DEF OnImport
<1> QED
  BY <1>2, <1>3

LEMMA EightTokens ==
  ASSUME NEW S, NEW a \in S, NEW b \in S, NEW c \in S, NEW d \in S,
         NEW e \in S, NEW f \in S, NEW g \in S, NEW h \in S
  PROVE  <<a, b, c, d, e, f, g, h>> \in Seq(S)
OBVIOUS

LEMMA NewImports ==
  /\ F!NamedImport("x") \in Seq(Tokens) /\ F!NamedImport("xSync") \in Seq(Tokens)
  /\ F!ImportText("namespace") \in Seq(Tokens) /\ F!ImportText("default") \in Seq(Tokens)
<1> DEFINE open == "{"
           close == "}"
<1>1. /\ "import" \in Tokens /\ open \in Tokens /\ "x" \in Tokens /\ "as" \in Tokens
      /\ "xSync" \in Tokens /\ close \in Tokens /\ "from" \in Tokens /\ "pkg" \in Tokens
  BY DEF Tokens
<1>2. /\ F!NamedImport("x") = <<"import", open, "x", "as", "x", close, "from", "pkg">>
      /\ F!NamedImport("xSync") = <<"import", open, "x", "as", "xSync", close, "from", "pkg">>
  BY DEF F!NamedImport
<1> HIDE DEF open, close
<1>21. F!NamedImport("x") \in Seq(Tokens)
  <2>1. <<"import", open, "x", "as", "x", close, "from", "pkg">> \in Seq(Tokens)
    BY <1>1, EightTokens
  <2> QED
    BY <1>2, <2>1
<1>22. F!NamedImport("xSync") \in Seq(Tokens)
  <2>1. <<"import", open, "x", "as", "xSync", close, "from", "pkg">> \in Seq(Tokens)
    BY <1>1, EightTokens
  <2> QED
    BY <1>2, <2>1
<1>3. "namespace" \in F!Bindings /\ "default" \in F!Bindings
  BY DEF F!Bindings
<1> QED
  BY <1>21, <1>22, <1>3, ImportTexts

\* The calls by the local name.
LEMMA KnownUses ==
  ASSUME NEW file \in SourceFile, NEW edits,
         edits = F!EditUses(file, {o \in F!ToSet(F!Occurrences(file)) : o.use = "sync"},
                            0, 3, <<"xSync">>)
  PROVE  /\ Fits(Len(F!Source(file)), edits) /\ F!Disjoint(edits)
         /\ OnUses(file, {k \in 1..Len(F!Occurrences(file)) :
                            F!Occurrences(file)[k].use = "sync"}, edits)
<1> DEFINE all == F!Occurrences(file)
           n == Len(all)
           uses == {o \in F!ToSet(all) : o.use = "sync"}
           text == <<"xSync">>
<1>1. text \in Seq(Tokens)
  <2>1. "xSync" \in Tokens
    BY DEF Tokens
  <2> QED
    BY <2>1
<1>2. \A k \in 1..n : all[k] \in F!ToSet(all)
  BY OccurrencesAre DEF F!ToSet
<1>3. ASSUME NEW k \in 1..n, all[k] \in uses PROVE 3 <= Width(file, k)
  <2> DEFINE use == all[k].use
  <2>1. use = "sync"
    BY <1>3
  <2> HIDE DEF use
  <2>2. use \in F!Uses /\ use # "whole" /\ use # "import"
    BY <2>1 DEF F!Uses
  <2>3. Len(F!UseText(use)) = 4
    BY <2>2, UseTexts
  <2> QED
    BY <2>3 DEF use, Width
<1>4. {k \in 1..n : all[k] \in uses} = {k \in 1..n : all[k].use = "sync"}
  BY <1>2
<1> HIDE DEF uses, text
<1>5. edits = F!EditUses(file, uses, 0, 3, text)
  BY DEF uses, text
<1>6. 0 \in Nat /\ 3 \in Nat /\ 0 < 3
  OBVIOUS
<1>7. /\ Fits(Len(F!Source(file)), edits) /\ F!Disjoint(edits)
      /\ OnUses(file, {k \in 1..n : all[k] \in uses}, edits)
  BY <1>1, <1>3, <1>5, <1>6, UseRule
<1> QED
  BY <1>4, <1>7

\* The other imports of the package.
LEMMA NamespaceUses ==
  ASSUME NEW file \in SourceFile, NEW edits,
         edits = F!EditUses(file, {o \in F!ToSet(F!Occurrences(file)) : o.use = "import"},
                            0, 6, F!ImportText("default"))
  PROVE  /\ Fits(Len(F!Source(file)), edits) /\ F!Disjoint(edits)
         /\ OnUses(file, {k \in 1..Len(F!Occurrences(file)) :
                            F!Occurrences(file)[k].use = "import"}, edits)
<1> DEFINE all == F!Occurrences(file)
           n == Len(all)
           uses == {o \in F!ToSet(all) : o.use = "import"}
           text == F!ImportText("default")
<1>1. text \in Seq(Tokens)
  BY NewImports
<1>2. \A k \in 1..n : all[k] \in F!ToSet(all)
  BY OccurrencesAre DEF F!ToSet
<1>3. ASSUME NEW k \in 1..n, all[k] \in uses PROVE 6 <= Width(file, k)
  <2> DEFINE use == all[k].use
  <2>1. use = "import"
    BY <1>3
  <2> HIDE DEF use
  <2>2. use \in F!Uses /\ use # "whole"
    BY <2>1 DEF F!Uses
  <2>3. Len(F!UseText(use)) = 6
    BY <2>1, <2>2, UseTexts
  <2> QED
    BY <2>3 DEF use, Width
<1>4. {k \in 1..n : all[k] \in uses} = {k \in 1..n : all[k].use = "import"}
  BY <1>2
<1> HIDE DEF uses, text
<1>5. edits = F!EditUses(file, uses, 0, 6, text)
  BY DEF uses, text
<1>6. 0 \in Nat /\ 6 \in Nat /\ 0 < 6
  OBVIOUS
<1>7. /\ Fits(Len(F!Source(file)), edits) /\ F!Disjoint(edits)
      /\ OnUses(file, {k \in 1..n : all[k] \in uses}, edits)
  BY <1>1, <1>3, <1>5, <1>6, UseRule
<1> QED
  BY <1>4, <1>7

\* The edits of a file stay within it, and overlap only where rules collide.
LEMMA EditsFit ==
  ASSUME NEW file \in SourceFile, NEW known \in BOOLEAN,
         NEW output, output.suggestions \in Seq(Occurrence),
         \A i \in 1..Len(output.suggestions) :
           output.suggestions[i].use \in {"old", "sync"}
  PROVE  /\ Fits(Len(F!Source(file)), F!Edits(file, known, output))
         /\ F!Disjoint(F!Edits(file, known, output)) \/ F!RulesCollide(file, known, output)
<1> DEFINE all == F!Occurrences(file)
           n == Len(all)
           L == Len(F!Source(file))
           applies == F!KnownApplies(file, known, output)
           syncs == {o \in F!ToSet(all) : o.use = "sync"}
           s == F!SubpathRule(file, output)
           ku == F!When(applies, F!EditUses(file, syncs, 0, 3, <<"xSync">>))
           ki == F!When(applies /\ file.binding = "default",
                        F!EditImport(file, F!NamedImport("xSync")))
           k == F!KnownRule(file, known, output)
           d == F!DefaultRule(file, output)
           m == F!NamespaceRule(file, output)
           renames == F!NamespaceApplies(file, output)
           others == {o \in F!ToSet(all) : o.use = "import"}
           mu == F!When(renames, F!EditUses(file, others, 0, 6, F!ImportText("default")))
           mi == F!When(renames, F!EditImport(file, F!ImportText("default")))
           g == F!SuggestionRule(file, output)
           Known == {x \in 1..n : applies /\ all[x].use = "sync"}
           Imports == {x \in 1..n : renames /\ all[x].use = "import"}
           Meant == Suggested(file, output)
<1>1. L \in Nat
  <2>1. F!Source(file) \in Seq(Tokens)
    BY Apart
  <2> QED
    BY <2>1, LenProperties
<1>2. /\ Fits(L, s) /\ F!Disjoint(s) /\ OnImport(file, s)
      /\ file.binding # "subpath" => s = <<>>
  <2>1. s = F!When(file.binding = "subpath" /\ "module" \in output.words,
                   F!EditImport(file, F!NamedImport("x")))
    BY DEF F!SubpathRule
  <2> HIDE DEF s, L
  <2> QED
    BY <2>1, NewImports, ImportEdit DEF L
<1>3. /\ Fits(L, ki) /\ F!Disjoint(ki) /\ OnImport(file, ki)
      /\ ~(applies /\ file.binding = "default") => ki = <<>>
  <2> DEFINE c == applies /\ file.binding = "default"
  <2>1. ki = F!When(c, F!EditImport(file, F!NamedImport("xSync"))) /\ c \in BOOLEAN
    OBVIOUS
  <2> HIDE DEF ki, L, c
  <2>2. Fits(L, ki) /\ F!Disjoint(ki) /\ OnImport(file, ki) /\ (~c => ki = <<>>)
    BY <2>1, NewImports, ImportEdit DEF L
  <2> QED
    BY <2>2 DEF c
<1>4. /\ Fits(L, d) /\ F!Disjoint(d) /\ OnImport(file, d)
      /\ ~(file.binding = "default" /\ "noDefault" \in output.words) => d = <<>>
  <2> DEFINE c == file.binding = "default" /\ "noDefault" \in output.words
  <2>1. d = F!When(c, F!EditImport(file, F!ImportText("namespace"))) /\ c \in BOOLEAN
    BY DEF F!DefaultRule
  <2> HIDE DEF d, L, c
  <2>2. Fits(L, d) /\ F!Disjoint(d) /\ OnImport(file, d) /\ (~c => d = <<>>)
    BY <2>1, NewImports, ImportEdit DEF L
  <2> QED
    BY <2>2 DEF c
<1>5. /\ Fits(L, mi) /\ F!Disjoint(mi) /\ OnImport(file, mi)
  <2> DEFINE c == renames
  <2>1. mi = F!When(c, F!EditImport(file, F!ImportText("default"))) /\ c \in BOOLEAN
    BY DEF F!NamespaceApplies
  <2> HIDE DEF mi, L, c
  <2>2. Fits(L, mi) /\ F!Disjoint(mi) /\ OnImport(file, mi)
    BY <2>1, NewImports, ImportEdit DEF L
  <2> QED
    BY <2>2
<1>51. /\ Fits(L, mu) /\ F!Disjoint(mu) /\ OnUses(file, Imports, mu)
  <2>1. CASE renames
    <3>1. mu = F!EditUses(file, others, 0, 6, F!ImportText("default"))
      BY <2>1 DEF F!When
    <3>2. Imports = {x \in 1..n : all[x].use = "import"}
      BY <2>1
    <3> HIDE DEF mu
    <3> QED
      BY <3>1, <3>2, NamespaceUses
  <2>2. CASE ~renames
    <3>1. mu = <<>> /\ DOMAIN <<>> = {}
      BY <2>2 DEF F!When
    <3> QED
      BY <1>1, <3>1, NoEdits DEF OnUses
  <2> QED
    BY <2>1, <2>2
<1>52. m = mu \o mi
  <2>1. CASE renames
    BY <2>1 DEF F!NamespaceRule, F!When
  <2>2. CASE ~renames
    BY <2>2 DEF F!NamespaceRule, F!When
  <2> QED
    BY <2>1, <2>2
<1>53. file.binding # "namespace" => mu = <<>> /\ mi = <<>>
  BY DEF F!NamespaceApplies, F!When
<1>6. Fits(L, ku) /\ F!Disjoint(ku) /\ OnUses(file, Known, ku)
  <2>1. CASE applies
    <3>1. ku = F!EditUses(file, syncs, 0, 3, <<"xSync">>)
      BY <2>1 DEF F!When
    <3>2. Known = {x \in 1..n : all[x].use = "sync"}
      BY <2>1
    <3> HIDE DEF ku
    <3> QED
      BY <3>1, <3>2, KnownUses
  <2>2. CASE ~applies
    <3>1. ku = <<>> /\ DOMAIN <<>> = {}
      BY <2>2 DEF F!When
    <3> QED
      BY <1>1, <3>1, NoEdits DEF OnUses
  <2> QED
    BY <2>1, <2>2
<1>7. k = ku \o ki
  <2>1. CASE applies
    BY <2>1 DEF F!KnownRule, F!When
  <2>2. CASE ~applies
    BY <2>2 DEF F!KnownRule, F!When
  <2> QED
    BY <2>1, <2>2
<1>8. /\ Fits(L, g) /\ OnUses(file, Meant, g)
      /\ F!Disjoint(g) \/ F!RulesCollide(file, known, output)
  <2> DEFINE collide == \E i, j \in 1..Len(output.suggestions) :
                          /\ i # j
                          /\ F!Meant(file, output.suggestions[i])
                               \cap F!Meant(file, output.suggestions[j]) # {}
  <2>1. g = F!SuggestionRule(file, output)
    OBVIOUS
  <2> HIDE DEF g
  <2>2. Fits(L, g) /\ OnUses(file, Meant, g) /\ (F!Disjoint(g) \/ collide)
    BY <2>1, SuggestionEdits
  <2>3. collide => F!RulesCollide(file, known, output)
    BY DEF F!RulesCollide
  <2> HIDE DEF collide
  <2> QED
    BY <2>2, <2>3
<1>9. F!Edits(file, known, output) = (((s \o k) \o d) \o m) \o g
  BY DEF F!Edits
<1>10. Known \in SUBSET (1..n) /\ Imports \in SUBSET (1..n) /\ Meant \in SUBSET (1..n)
       /\ Known \cap Imports = {}
  BY DEF Suggested
<1>11. Known \cap Meant = {} \/ F!RulesCollide(file, known, output)
  <2> SUFFICES ASSUME NEW x \in 1..n, applies, all[x].use = "sync", x \in Meant
               PROVE  F!RulesCollide(file, known, output)
    OBVIOUS
  <2>1. all[x] \in F!ToSet(all) /\ all[x] \in F!ToSet(output.suggestions)
    BY OccurrencesAre DEF F!ToSet, Suggested, F!Meant
  <2> HIDE DEF all, Meant
  <2>2. F!Calls(file, "sync")
    BY <2>1 DEF F!Calls, all
  <2> QED
    BY <2>1, <2>2 DEF F!RulesCollide, all
<1>111. Imports \cap Meant = {} \/ F!RulesCollide(file, known, output)
  <2> SUFFICES ASSUME NEW x \in 1..n, renames, all[x].use = "import", x \in Meant
               PROVE  F!RulesCollide(file, known, output)
    OBVIOUS
  <2>1. PICK i \in 1..Len(output.suggestions) : all[x] \in F!Meant(file, output.suggestions[i])
    BY DEF Suggested
  <2>2. output.suggestions[i] \in F!ToSet(output.suggestions)
    BY DEF F!ToSet
  <2>3. all[x] \in F!ToSet(all)
    BY OccurrencesAre DEF F!ToSet
  <2>4. output.suggestions[i].use = "old"
    BY <2>1 DEF F!Meant
  <2> HIDE DEF all, Meant
  <2>5. F!Calls(file, "import")
    BY <2>3 DEF F!Calls, all
  <2> QED
    BY <2>2, <2>4, <2>5 DEF F!RulesCollide
<1>12. ki = <<>> \/ d = <<>> \/ F!RulesCollide(file, known, output)
  BY <1>3, <1>4 DEF F!RulesCollide
<1>13. /\ s = <<>> \/ ki = <<>>
       /\ s = <<>> \/ d = <<>>
       /\ s = <<>> \/ (mu = <<>> /\ mi = <<>>)
       /\ ki = <<>> \/ (mu = <<>> /\ mi = <<>>)
       /\ d = <<>> \/ (mu = <<>> /\ mi = <<>>)
  BY <1>2, <1>3, <1>4, <1>53
<1> DEFINE x1 == s \o k
           x2 == x1 \o d
           x3 == x2 \o m
           x4 == x3 \o g
<1> HIDE DEF L, s, ku, ki, k, d, m, mu, mi, g, Known, Imports, Meant
<1>14. Fits(L, k) /\ Fits(L, m)
  BY <1>1, <1>3, <1>5, <1>51, <1>52, <1>6, <1>7, JoinFits
<1>15. Fits(L, x1)
  BY <1>1, <1>2, <1>14, JoinFits
<1> HIDE DEF x1
<1>16. Fits(L, x2)
  BY <1>1, <1>4, <1>15, JoinFits
<1> HIDE DEF x2
<1>17. Fits(L, x3)
  BY <1>1, <1>14, <1>16, JoinFits
<1> HIDE DEF x3
<1>18. Fits(L, x4)
  BY <1>1, <1>8, <1>17, JoinFits
<1> HIDE DEF x4
<1>19. F!Edits(file, known, output) = x4
  BY <1>9 DEF x1, x2, x3, x4
<1>20. ASSUME ~F!RulesCollide(file, known, output) PROVE F!Disjoint(x4)
  <2>1. AllApart(ku, ki) /\ AllApart(s, ku) /\ AllApart(ku, d) /\ AllApart(ku, mi)
    BY <1>1, <1>2, <1>3, <1>4, <1>5, <1>6, <1>10, ImportApart DEF n, all
  <2>101. AllApart(mu, mi) /\ AllApart(ku, mu) /\ AllApart(mu, g)
    BY <1>1, <1>5, <1>51, <1>6, <1>8, <1>10, <1>111, <1>20, ImportApart, UsesApart DEF n, all
  <2>2. AllApart(s, g) /\ AllApart(ki, g) /\ AllApart(d, g) /\ AllApart(mi, g)
    BY <1>1, <1>2, <1>3, <1>4, <1>5, <1>8, <1>10, ImportApart DEF n, all
  <2>3. AllApart(s, ki) /\ AllApart(s, d) /\ AllApart(mu, s) /\ AllApart(mi, s)
    BY <1>1, <1>13, NoEdits
  <2>4. AllApart(ki, d) /\ AllApart(mu, ki) /\ AllApart(mi, ki)
        /\ AllApart(mu, d) /\ AllApart(mi, d)
    BY <1>1, <1>12, <1>13, <1>20, NoEdits
  <2>401. AllApart(mu, ku) /\ AllApart(mi, ku)
    BY <2>1, <2>101, <1>1, <1>5, <1>51, <1>6 DEF AllApart
  <2>402. AllApart(m, s) /\ AllApart(m, ki) /\ AllApart(m, ku) /\ AllApart(m, d)
          /\ AllApart(m, g)
    BY <1>1, <1>5, <1>51, <1>52, <2>101, <2>2, <2>3, <2>4, <2>401, JoinApart
  <2>403. AllApart(s, m) /\ AllApart(ki, m) /\ AllApart(ku, m) /\ AllApart(d, m)
    BY <2>402 DEF AllApart
  <2>404. F!Disjoint(m)
    BY <1>1, <1>5, <1>51, <1>52, <2>101, Join
  <2>5. AllApart(ku, g)
    BY <1>1, <1>6, <1>8, <1>10, <1>11, <1>20, UsesApart DEF n, all
  <2>6. F!Disjoint(g)
    BY <1>8, <1>20
  <2>7. AllApart(k, d) /\ AllApart(k, m) /\ AllApart(k, g)
    BY <1>1, <1>3, <1>6, <1>7, <2>1, <2>2, <2>4, <2>403, <2>5, JoinApart
  <2>8. F!Disjoint(k)
    BY <1>1, <1>3, <1>6, <1>7, <2>1, Join
  <2>9. AllApart(s, k)
    <3>1. AllApart(ku, s) /\ AllApart(ki, s)
      BY <2>1, <2>3, <1>1, <1>2, <1>3, <1>6 DEF AllApart
    <3>2. AllApart(k, s)
      BY <1>1, <1>3, <1>6, <1>7, <3>1, JoinApart
    <3> QED
      BY <3>2 DEF AllApart
  <2>10. F!Disjoint(x1)
    BY <1>1, <1>2, <1>14, <2>8, <2>9, Join DEF x1
  <2>11. AllApart(x1, d) /\ AllApart(x1, m) /\ AllApart(x1, g)
    BY <1>1, <1>2, <1>14, <2>2, <2>3, <2>403, <2>7, JoinApart DEF x1
  <2>12. F!Disjoint(x2)
    BY <1>1, <1>4, <1>15, <2>10, <2>11, Join DEF x2
  <2>13. AllApart(x2, m) /\ AllApart(x2, g)
    BY <1>1, <1>4, <1>15, <2>2, <2>403, <2>11, JoinApart DEF x2
  <2>14. F!Disjoint(x3)
    BY <1>1, <1>14, <1>16, <2>12, <2>13, <2>404, Join DEF x3
  <2>15. AllApart(x3, g)
    BY <1>1, <1>14, <1>16, <2>13, <2>402, JoinApart DEF x3
  <2> QED
    BY <1>1, <1>8, <1>17, <2>6, <2>14, <2>15, Join DEF x4
<1> QED
  BY <1>18, <1>19, <1>20 DEF L

-----------------------------------------------------------------------------
(* The answers *)

\* What the compiler suggests is about occurrences of the program.
LEMMA SuggestionsAre ==
  ASSUME NEW files \in Seq(SourceFile), NEW members
  PROVE  /\ F!Suggestions(files, members) \in Seq(Occurrence)
         /\ \A i \in 1..Len(F!Suggestions(files, members)) :
              F!Suggestions(files, members)[i].use \in members
<1> DEFINE of(k) == F!Occurrences(files[k])
           lists == [k \in 1..Len(files) |-> of(k)]
           all == F!FlattenSeq(lists)
           member(o) == IF o.use = "import" THEN [o EXCEPT !.use = "old"] ELSE o
           e == [k \in 1..Len(all) |-> member(all[k])]
           K == {k \in 1..Len(all) : e[k].use \in members}
           ss == [k \in 1..Len(all) |-> F!When(member(all[k]).use \in members,
                                               <<member(all[k])>>)]
<1>1. all \in Seq(Occurrence)
  <2>1. \A k \in 1..Len(files) : of(k) \in Seq(Occurrence)
    <3>1. \A k \in 1..Len(files) : files[k] \in SourceFile
      BY ElementOfSeq
    <3> QED
      BY <3>1, OccurrencesAre
  <2>2. Len(files) \in Nat
    OBVIOUS
  <2> HIDE DEF of
  <2>3. lists \in Seq(Seq(Occurrence))
    BY <2>1, <2>2
  <2> HIDE DEF lists
  <2> QED
    BY <2>3, FlattenFrom
<1>2. F!Suggestions(files, members) = F!FlattenSeq(ss)
  BY DEF F!Suggestions
<1> HIDE DEF all
<1>3. /\ Len(all) \in Nat /\ \A k \in 1..Len(all) : e[k] = member(all[k])
      /\ \A k \in 1..Len(all) : e[k] \in Occurrence
  <2>1. Len(all) \in Nat /\ \A k \in 1..Len(all) : all[k] \in Occurrence
    BY <1>1
  <2>2. ASSUME NEW o \in Occurrence PROVE member(o) \in Occurrence
    BY DEF Occurrence, F!Uses
  <2> HIDE DEF member
  <2> QED
    BY <2>1, <2>2
<1>4. /\ ss \in Seq(Seq(Occurrence)) /\ Len(ss) = Len(all)
      /\ \A k \in 1..Len(ss) : ss[k] = IF k \in K THEN <<e[k]>> ELSE <<>>
  <2> DEFINE x(k) == F!When(member(all[k]).use \in members, <<member(all[k])>>)
  <2> HIDE DEF member, e
  <2>1. \A k \in 1..Len(all) : x(k) = IF k \in K THEN <<e[k]>> ELSE <<>>
    BY <1>3 DEF F!When
  <2>2. \A k \in 1..Len(all) : x(k) \in Seq(Occurrence)
    <3>1. \A k \in 1..Len(all) : <<e[k]>> \in Seq(Occurrence)
      BY <1>3
    <3> HIDE DEF x
    <3> QED
      BY <2>1, <3>1, EmptySeq
  <2> HIDE DEF x
  <2>3. ss = [k \in 1..Len(all) |-> x(k)]
    BY DEF x
  <2> HIDE DEF ss, K
  <2> QED
    BY <1>3, <2>1, <2>2, <2>3
<1> HIDE DEF ss, K, e
<1>5. F!FlattenSeq(ss) \in Seq(Occurrence)
  BY <1>4, FlattenFrom
<1>6. Chosen(F!FlattenSeq(ss), e, K)
  BY <1>4, FlattenWhen
<1>7. \A i \in 1..Len(F!FlattenSeq(ss)) : F!FlattenSeq(ss)[i].use \in members
  BY <1>6 DEF Chosen, K
<1> QED
  BY <1>2, <1>5, <1>7

\* What EditsLand says of file k.
FileLands(files, known, output, failing, left, k) ==
  LET result == F!Refactor(files, known, output, failing, left)
      f == files[k]
      edits == F!Edits(f, known, output)
  IN /\ F!Disjoint(edits) \/ F!RulesCollide(f, known, output)
     /\ result.texts[k] # F!Source(f) =>
          /\ F!CallSite(f)
          /\ result.applied \/ (k <= failing /\ left[k] # "restored")
     /\ result.applied /\ F!CallSite(f) /\ F!Disjoint(edits)
          => result.texts[k] = F!Splice(F!Source(f), edits)

\* Refactor writes what applying the edits makes of the text, or nothing, unless
\* its snapshot could not be written back.
LEMMA RefactoringAnswer ==
  ASSUME NEW files \in Seq(SourceFile), NEW known \in BOOLEAN,
         NEW output, output.suggestions \in Seq(Occurrence),
         \A i \in 1..Len(output.suggestions) :
           output.suggestions[i].use \in {"old", "sync"},
         NEW failing \in 0..Len(files), NEW left, NEW k \in 1..Len(files)
  PROVE  FileLands(files, known, output, failing, left, k)
<1> DEFINE result == F!Refactor(files, known, output, failing, left)
           f == files[k]
           edits == F!Edits(f, known, output)
           text == F!Source(f)
           new == [x \in 1..Len(files) |->
                     IF F!CallSite(files[x]) THEN F!TransformFile(files[x], known, output)
                     ELSE F!Source(files[x])]
           changed == {x \in 1..Len(files) : new[x] # F!Source(files[x])}
           throws == failing \in changed
           written == [new EXCEPT ![failing] = <<>>]
           seen(x) == F!CallSite(files[x]) /\ x <= failing
           after(x) == IF ~throws THEN new[x]
                       ELSE IF ~seen(x) \/ left[x] = "restored" THEN F!Source(files[x])
                       ELSE IF left[x] = "kept" THEN written[x] ELSE <<>>
<1>1. f \in SourceFile
  BY ElementOfSeq
<1>2. Fits(Len(text), edits) /\ (F!Disjoint(edits) \/ F!RulesCollide(f, known, output))
  BY <1>1, EditsFit
<1>3. text \in Seq(Tokens)
  BY <1>1, Apart
<1>4. F!Disjoint(edits) => F!ApplyEdits(text, edits) = F!Splice(text, edits)
  <2> HIDE DEF text, edits
  <2> QED
    BY <1>2, <1>3, EditsSplice DEF Fits
<1>5. new[k] = IF F!CallSite(f) THEN F!ApplyEdits(text, edits) ELSE text
  BY DEF F!TransformFile
<1>6. /\ result.applied = (~throws /\ changed # {})
      /\ result.texts = [x \in 1..Len(files) |-> after(x)]
  BY DEF F!Refactor
<1>7. result.texts[k] = after(k)
  <2> HIDE DEF after
  <2> QED
    BY <1>6
<1>8. after(k) = IF ~throws THEN new[k]
                 ELSE IF ~seen(k) \/ left[k] = "restored" THEN text
                 ELSE IF left[k] = "kept" THEN written[k] ELSE <<>>
  OBVIOUS
<1>9. new[k] # text => k \in changed
  OBVIOUS
<1>10. seen(k) => F!CallSite(f) /\ k <= failing
  OBVIOUS
<1> HIDE DEF result, new, changed, text, edits, f, after, seen, written
<1>11. result.texts[k] # text =>
         F!CallSite(f) /\ (result.applied \/ (k <= failing /\ left[k] # "restored"))
  BY <1>5, <1>6, <1>7, <1>8, <1>9, <1>10
<1>12. result.applied /\ F!CallSite(f) /\ F!Disjoint(edits)
         => result.texts[k] = F!Splice(text, edits)
  BY <1>4, <1>5, <1>6, <1>7, <1>8
<1> QED
  BY <1>2, <1>11, <1>12 DEF FileLands, result, f, edits, text

-----------------------------------------------------------------------------
(* Policy *)

\* Array.prototype.find takes the first place (see SelectInSeq).
LEMMA LeastPlace ==
  ASSUME NEW I \in SUBSET Nat, I # {}
  PROVE  P!Min(I) \in I /\ \A j \in I : P!Min(I) <= j
<1>1. \E i \in I : \A j \in I : i <= j
  BY Least
<1> QED
  BY <1>1 DEF P!Min

Lists == PolicyLists \cup {<<>>}
PolicyFile == [state : {"ok", "broken", "list", "absent"}, deny : Lists, allow : Lists,
               suppressions : Seq(P!Entry)]
Options == [inline : BOOLEAN, policy : PolicyFile, extra : PolicyFile]

\* An entry whose CVE is in the list has a first place, and an absent one none.
LEMMA UpsertPlace ==
  ASSUME NEW list \in Seq(P!Entry), NEW s \in P!Entry
  PROVE  \/ /\ P!Upsert(list, s) = Append(list, s)
            /\ \A i \in 1..Len(list) : list[i].id # s.id
            /\ P!Replaced(list, s) = P!NoSuppression
         \/ \E k \in 1..Len(list) :
              /\ P!Upsert(list, s) = [list EXCEPT ![k] = P!Updated(list[k], s)]
              /\ list[k].id = s.id
              /\ \A i \in 1..Len(list) : list[i].id = s.id => k <= i
              /\ P!Replaced(list, s) = list[k]
<1> DEFINE I == {i \in 1..Len(list) : list[i].id = s.id}
           k == IF I # {} THEN P!Min(I) ELSE 0
<1>1. /\ P!Upsert(list, s) = IF k = 0 THEN Append(list, s)
                             ELSE [list EXCEPT ![k] = P!Updated(list[k], s)]
      /\ P!Replaced(list, s)
           = IF k = 0 THEN P!NoSuppression ELSE list[k]
  BY DEF P!Upsert, P!Replaced, P!Find, P!SelectInSeq
<1>2. I \in SUBSET Nat /\ I \subseteq 1..Len(list)
  OBVIOUS
<1>3. CASE I = {}
  BY <1>1, <1>3
<1>4. CASE I # {}
  <2>1. k \in I /\ \A i \in I : k <= i
    BY <1>2, <1>4, LeastPlace
  <2>2. k \in 1..Len(list) /\ k # 0
    BY <2>1
  <2> HIDE DEF k
  <2> QED
    BY <1>1, <2>1, <2>2
<1> QED
  BY <1>3, <1>4

\* What makes an entry the one that the preflight looks for.
Suppresses(s, id) == s.id = id /\ s.spelling = "upper" /\ P!IsActiveSuppression(s)

LEMMA ActiveIs ==
  ASSUME NEW list \in Seq(P!Entry), NEW id
  PROVE  \/ /\ P!ActiveSuppression(list, id) = P!NoSuppression
            /\ \A i \in 1..Len(list) : ~Suppresses(list[i], id)
         \/ \E k \in 1..Len(list) :
              /\ P!ActiveSuppression(list, id) = list[k]
              /\ Suppresses(list[k], id)
              /\ \A i \in 1..Len(list) : Suppresses(list[i], id) => k <= i
<1> DEFINE I == {i \in 1..Len(list) : list[i].id = id /\ list[i].spelling = "upper"
                                      /\ P!IsActiveSuppression(list[i])}
           k == IF I # {} THEN P!Min(I) ELSE 0
<1>1. P!ActiveSuppression(list, id) = IF k = 0 THEN P!NoSuppression ELSE list[k]
  BY DEF P!ActiveSuppression, P!Find, P!SelectInSeq
<1>2. I \in SUBSET Nat /\ \A i \in 1..Len(list) : i \in I <=> Suppresses(list[i], id)
  BY DEF Suppresses
<1>3. I \subseteq 1..Len(list)
  OBVIOUS
<1>4. CASE I = {}
  <2>1. k = 0
    BY <1>4
  <2> QED
    BY <1>1, <1>2, <1>4, <2>1
<1>5. CASE I # {}
  <2>1. k \in I /\ \A i \in I : k <= i
    BY <1>2, <1>5, LeastPlace
  <2> HIDE DEF k, I
  <2>2. k \in 1..Len(list) /\ k # 0
    BY <1>3, <2>1
  <2> QED
    BY <1>1, <1>2, <2>1, <2>2
<1> QED
  BY <1>4, <1>5

\* An entry is never NoSuppression.
LEMMA EntryIsSome ==
  ASSUME NEW s \in P!Entry
  PROVE  s # P!NoSuppression
<1>1. s.id \in {"c1", "c2"} /\ P!NoSuppression.id = "none"
  BY DEF P!Entry, P!NoSuppression
<1> QED
  BY <1>1

\* The first of two lists that has one decides.
LEMMA ActiveOfBoth ==
  ASSUME NEW a \in Seq(P!Entry), NEW b \in Seq(P!Entry), NEW id
  PROVE  P!ActiveSuppression(a \o b, id)
           = IF P!ActiveSuppression(a, id) # P!NoSuppression
             THEN P!ActiveSuppression(a, id) ELSE P!ActiveSuppression(b, id)
<1> DEFINE ab == a \o b
<1>1. /\ ab \in Seq(P!Entry) /\ Len(ab) = Len(a) + Len(b)
      /\ \A p \in 1..Len(a) : ab[p] = a[p]
      /\ \A p \in 1..Len(b) : ab[Len(a) + p] = b[p]
  BY Concat
<1>2. Len(a) \in Nat /\ Len(b) \in Nat
  OBVIOUS
<1> HIDE DEF ab
<1>3. \A p \in 1..Len(ab) : p \in 1..Len(a) \/ p - Len(a) \in 1..Len(b)
  BY <1>1, <1>2
<1>4. CASE \E k \in 1..Len(a) : /\ P!ActiveSuppression(a, id) = a[k]
                                /\ Suppresses(a[k], id)
                                /\ \A i \in 1..Len(a) : Suppresses(a[i], id) => k <= i
  <2>1. PICK k \in 1..Len(a) : /\ P!ActiveSuppression(a, id) = a[k]
                               /\ Suppresses(a[k], id)
                               /\ \A i \in 1..Len(a) : Suppresses(a[i], id) => k <= i
    BY <1>4
  <2>2. a[k] # P!NoSuppression
    <3>1. a[k] \in P!Entry
      BY ElementOfSeq
    <3> QED
      BY <3>1, EntryIsSome
  <2>3. k \in 1..Len(ab) /\ ab[k] = a[k]
    BY <1>1, <1>2
  <2>4. \A i \in 1..Len(ab) : Suppresses(ab[i], id) => k <= i
    BY <1>1, <1>2, <2>1
  <2>5. PICK l \in 1..Len(ab) :
          /\ P!ActiveSuppression(ab, id) = ab[l] /\ Suppresses(ab[l], id)
          /\ \A i \in 1..Len(ab) : Suppresses(ab[i], id) => l <= i
    BY <1>1, <2>1, <2>3, ActiveIs
  <2>6. l = k
    BY <2>1, <2>3, <2>4, <2>5
  <2> QED
    BY <2>1, <2>2, <2>3, <2>5, <2>6 DEF ab
<1>5. CASE /\ P!ActiveSuppression(a, id) = P!NoSuppression
           /\ \A i \in 1..Len(a) : ~Suppresses(a[i], id)
  <2>1. CASE \A i \in 1..Len(b) : ~Suppresses(b[i], id)
    <3>1. \A p \in 1..Len(ab) : ~Suppresses(ab[p], id)
      <4>1. ASSUME NEW p \in 1..Len(ab), p - Len(a) \in 1..Len(b) PROVE ab[p] = b[p - Len(a)]
        <5>1. Len(a) + (p - Len(a)) = p
          BY <1>2
        <5> QED
          BY <1>1, <4>1, <5>1
      <4> QED
        BY <1>1, <1>3, <1>5, <2>1, <4>1
    <3>2. P!ActiveSuppression(ab, id) = P!NoSuppression
      BY <1>1, <3>1, ActiveIs
    <3>3. P!ActiveSuppression(b, id) = P!NoSuppression
      BY <2>1, ActiveIs
    <3> QED
      BY <1>5, <3>2, <3>3 DEF ab
  <2>2. CASE \E i \in 1..Len(b) : Suppresses(b[i], id)
    <3>1. PICK k \in 1..Len(b) :
            /\ P!ActiveSuppression(b, id) = b[k] /\ Suppresses(b[k], id)
            /\ \A i \in 1..Len(b) : Suppresses(b[i], id) => k <= i
      BY <2>2, ActiveIs
    <3>2. Len(a) + k \in 1..Len(ab) /\ ab[Len(a) + k] = b[k]
      BY <1>1, <1>2
    <3>3. PICK l \in 1..Len(ab) :
            /\ P!ActiveSuppression(ab, id) = ab[l] /\ Suppresses(ab[l], id)
            /\ \A i \in 1..Len(ab) : Suppresses(ab[i], id) => l <= i
      BY <1>1, <3>1, <3>2, ActiveIs
    <3>4. l - Len(a) \in 1..Len(b)
      BY <1>1, <1>3, <1>5, <3>3
    <3>5. ab[l] = b[l - Len(a)]
      <4>1. Len(a) + (l - Len(a)) = l
        BY <1>2
      <4> QED
        BY <1>1, <3>4, <4>1
    <3>6. k <= l - Len(a) /\ l <= Len(a) + k
      BY <3>1, <3>2, <3>3, <3>4, <3>5
    <3>7. l - Len(a) = k
      BY <1>2, <3>6
    <3> QED
      BY <1>5, <3>1, <3>3, <3>5, <3>7 DEF ab
  <2> QED
    BY <2>1, <2>2
<1> QED
  BY <1>4, <1>5, ActiveIs

\* Two lists that differ only in entries about other CVEs.
LEMMA SameActive ==
  ASSUME NEW list \in Seq(P!Entry), NEW new \in Seq(P!Entry), NEW id,
         Len(list) <= Len(new),
         \A i \in 1..Len(list) :
           new[i] = list[i] \/ (~Suppresses(new[i], id) /\ ~Suppresses(list[i], id)),
         \A i \in 1..Len(new) : i > Len(list) => ~Suppresses(new[i], id)
  PROVE  P!ActiveSuppression(new, id) = P!ActiveSuppression(list, id)
<1>1. Len(list) \in Nat /\ Len(new) \in Nat
  OBVIOUS
<1>2. \A i \in 1..Len(new) : Suppresses(new[i], id) =>
        i \in 1..Len(list) /\ Suppresses(list[i], id) /\ new[i] = list[i]
  BY <1>1
<1>3. \A i \in 1..Len(list) : Suppresses(list[i], id) =>
        i \in 1..Len(new) /\ Suppresses(new[i], id)
  BY <1>1
<1>4. CASE \A i \in 1..Len(list) : ~Suppresses(list[i], id)
  BY <1>2, <1>4, ActiveIs
<1>5. CASE \E i \in 1..Len(list) : Suppresses(list[i], id)
  <2>1. PICK k \in 1..Len(list) :
          /\ P!ActiveSuppression(list, id) = list[k] /\ Suppresses(list[k], id)
          /\ \A i \in 1..Len(list) : Suppresses(list[i], id) => k <= i
    BY <1>5, ActiveIs
  <2>2. PICK l \in 1..Len(new) :
          /\ P!ActiveSuppression(new, id) = new[l] /\ Suppresses(new[l], id)
          /\ \A i \in 1..Len(new) : Suppresses(new[i], id) => l <= i
    BY <1>3, <2>1, ActiveIs
  <2>3. l <= k /\ k <= l /\ l \in Nat /\ k \in Nat
    BY <1>2, <1>3, <2>1, <2>2
  <2>4. l = k
    BY <2>3
  <2> QED
    BY <1>2, <2>1, <2>2, <2>4
<1> QED
  BY <1>4, <1>5

\* What saving does to the lookups of the list that is saved to.
LEMMA UpsertAnswer ==
  ASSUME NEW list \in Seq(P!Entry), NEW s \in P!Entry, s.spelling = "upper",
         s.expires = "never", NEW new, new = P!Upsert(list, s)
  PROVE  /\ new \in Seq(P!Entry)
         /\ \A id : id # s.id =>
              P!ActiveSuppression(new, id) = P!ActiveSuppression(list, id)
         /\ P!Replaced(list, s) = P!NoSuppression
              \/ P!IsActiveSuppression(P!Replaced(list, s)) =>
              /\ P!ActiveSuppression(new, s.id) # P!NoSuppression
              /\ P!ActiveSuppression(new, s.id).justification = s.justification
<1> DEFINE Other == \A id : id # s.id =>
                      P!ActiveSuppression(new, id) = P!ActiveSuppression(list, id)
           InForce == /\ P!ActiveSuppression(new, s.id) # P!NoSuppression
                      /\ P!ActiveSuppression(new, s.id).justification = s.justification
<1>1. ASSUME new \in Seq(P!Entry), NEW k \in 1..Len(new), Suppresses(new[k], s.id),
             new[k].justification = s.justification,
             \A i \in 1..Len(new) : new[i].id = s.id => k <= i
      PROVE  InForce
  <2>1. PICK l \in 1..Len(new) :
          /\ P!ActiveSuppression(new, s.id) = new[l] /\ Suppresses(new[l], s.id)
          /\ \A i \in 1..Len(new) : Suppresses(new[i], s.id) => l <= i
    BY <1>1, ActiveIs
  <2>2. new[l].id = s.id
    BY <2>1 DEF Suppresses
  <2>3. l = k
    BY <1>1, <2>1, <2>2
  <2>4. new[k] \in P!Entry
    BY <1>1, ElementOfSeq
  <2> QED
    BY <1>1, <2>1, <2>3, <2>4, EntryIsSome
<1>2. CASE /\ new = Append(list, s)
           /\ \A i \in 1..Len(list) : list[i].id # s.id
  <2>1. /\ new \in Seq(P!Entry) /\ Len(new) = Len(list) + 1 /\ Len(list) \in Nat
        /\ \A i \in 1..Len(list) : new[i] = list[i]
        /\ new[Len(list) + 1] = s
    BY <1>2
  <2>2. Other
    <3> SUFFICES ASSUME NEW id, id # s.id
                 PROVE  P!ActiveSuppression(new, id) = P!ActiveSuppression(list, id)
      OBVIOUS
    <3>1. ~Suppresses(s, id)
      BY DEF Suppresses
    <3>2. \A i \in 1..Len(new) : i > Len(list) => ~Suppresses(new[i], id)
      BY <2>1, <3>1
    <3>3. Len(list) <= Len(new)
      BY <2>1
    <3> QED
      BY <2>1, <3>2, <3>3, SameActive
  <2>3. InForce
    <3>1. Len(list) + 1 \in 1..Len(new)
      BY <2>1
    <3>2. \A i \in 1..Len(new) : new[i].id = s.id => Len(list) + 1 <= i
      BY <1>2, <2>1
    <3>3. Suppresses(new[Len(list) + 1], s.id)
      BY <2>1 DEF Suppresses, P!IsActiveSuppression
    <3> QED
      BY <1>1, <2>1, <3>1, <3>2, <3>3
  <2> QED
    BY <2>1, <2>2, <2>3
<1>3. CASE \E k \in 1..Len(list) :
              /\ new = [list EXCEPT ![k] = P!Updated(list[k], s)]
              /\ list[k].id = s.id
              /\ \A i \in 1..Len(list) : list[i].id = s.id => k <= i
              /\ P!Replaced(list, s) = list[k]
  <2>1. PICK k \in 1..Len(list) :
          /\ new = [list EXCEPT ![k] = P!Updated(list[k], s)]
          /\ list[k].id = s.id
          /\ \A i \in 1..Len(list) : list[i].id = s.id => k <= i
          /\ P!Replaced(list, s) = list[k]
    BY <1>3
  <2>2. list[k] \in P!Entry
    BY ElementOfSeq
  <2> DEFINE u == P!Updated(list[k], s)
  <2>3. /\ u \in P!Entry /\ u.id = s.id /\ u.spelling = "upper"
        /\ u.justification = s.justification /\ u.expires = list[k].expires
    BY <2>2 DEF P!Updated, P!Entry
  <2> HIDE DEF u
  <2>4. /\ new \in Seq(P!Entry) /\ Len(new) = Len(list) /\ new[k] = u
        /\ \A i \in 1..Len(list) : i # k => new[i] = list[i]
    <3>1. new = [list EXCEPT ![k] = u]
      BY <2>1 DEF u
    <3> QED
      BY <2>3, <3>1
  <2>5. Other
    <3> SUFFICES ASSUME NEW id, id # s.id
                 PROVE  P!ActiveSuppression(new, id) = P!ActiveSuppression(list, id)
      OBVIOUS
    <3>1. ~Suppresses(new[k], id) /\ ~Suppresses(list[k], id)
      BY <2>1, <2>3, <2>4 DEF Suppresses
    <3>2. \A i \in 1..Len(list) :
            new[i] = list[i] \/ (~Suppresses(new[i], id) /\ ~Suppresses(list[i], id))
      BY <2>4, <3>1
    <3>3. Len(list) <= Len(new) /\ \A i \in 1..Len(new) : ~(i > Len(list))
      BY <2>4
    <3> QED
      BY <2>4, <3>2, <3>3, SameActive
  <2>6. ASSUME P!Replaced(list, s) = P!NoSuppression
                 \/ P!IsActiveSuppression(P!Replaced(list, s))
        PROVE  InForce
    <3>1. P!IsActiveSuppression(list[k])
      BY <2>1, <2>2, <2>6, EntryIsSome
    <3>2. Suppresses(new[k], s.id)
      BY <2>3, <2>4, <3>1 DEF Suppresses, P!IsActiveSuppression
    <3>3. \A i \in 1..Len(new) : new[i].id = s.id => k <= i
      BY <2>1, <2>4
    <3>4. k \in 1..Len(new) /\ new[k].justification = s.justification
      BY <2>3, <2>4
    <3> QED
      BY <1>1, <2>4, <3>2, <3>3, <3>4
  <2> QED
    BY <2>4, <2>5, <2>6
<1> QED
  BY <1>2, <1>3, UpsertPlace

\* What triage leaves of the options' files.
LEMMA TriageIs ==
  ASSUME NEW options \in Options, NEW saved \in P!Entry, saved.spelling = "upper",
         saved.expires = "never",
         NEW after, after = P!Triage(options, saved)
  PROVE  LET p == P!LoadPolicy(options.policy)
             q == P!LoadPolicy(after.policy)
             x == P!LoadSuppressionsFile(options.extra)
             y == P!LoadSuppressionsFile(after.extra)
             separate == options.extra.state # "absent"
         IN /\ q.deny = p.deny /\ q.allow = p.allow
            /\ p.suppressions \in Seq(P!Entry) /\ x \in Seq(P!Entry)
            /\ \/ q.suppressions = p.suppressions /\ y = x
                  /\ \/ separate /\ options.extra.state = "list"
                     \/ ~separate /\ (options.inline \/ options.policy.state = "list")
               \/ separate /\ q.suppressions = p.suppressions
                  /\ y = P!Upsert(P!LoadPolicy(options.extra).suppressions, saved)
                  /\ x = P!LoadPolicy(options.extra).suppressions
               \/ ~separate /\ y = x /\ x = <<>>
                  /\ q.suppressions = P!Upsert(p.suppressions, saved)
<1>1. options.policy \in PolicyFile /\ options.extra \in PolicyFile
  BY DEF Options
<1>2. ASSUME NEW file \in PolicyFile
      PROVE  /\ P!LoadPolicy(file).suppressions \in Seq(P!Entry)
             /\ P!LoadSuppressionsFile(file) = P!LoadPolicy(file).suppressions
             /\ file.state = "absent" => P!LoadSuppressionsFile(file) = <<>>
             /\ file.state = "list" => P!SaveSuppression(file, saved) = file
             /\ file.state # "list" =>
                  P!LoadPolicy(P!SaveSuppression(file, saved))
                    = [deny |-> P!LoadPolicy(file).deny, allow |-> P!LoadPolicy(file).allow,
                       suppressions |-> P!Upsert(P!LoadPolicy(file).suppressions, saved)]
             /\ file.state # "list" =>
                  P!LoadSuppressionsFile(P!SaveSuppression(file, saved))
                    = P!Upsert(P!LoadPolicy(file).suppressions, saved)
  <2>1. file.suppressions \in Seq(P!Entry) /\ <<>> \in Seq(P!Entry)
    BY EmptySeq DEF PolicyFile
  <2> QED
    BY <2>1 DEF P!LoadPolicy, P!LoadSuppressionsFile, P!SaveSuppression, P!DefaultPolicy
<1>3. CASE options.extra.state # "absent"
  <2>1. /\ after.policy = options.policy
        /\ after.extra = P!SaveSuppression(options.extra, saved)
    BY <1>3 DEF P!Triage, Options
  <2>2. CASE options.extra.state = "list"
    <3>1. after.extra = options.extra
      BY <1>1, <1>2, <2>1, <2>2
    <3>2. /\ P!LoadPolicy(options.policy).suppressions \in Seq(P!Entry)
          /\ P!LoadSuppressionsFile(options.extra) \in Seq(P!Entry)
      BY <1>1, <1>2
    <3>3. /\ P!LoadPolicy(after.policy) = P!LoadPolicy(options.policy)
          /\ P!LoadSuppressionsFile(after.extra) = P!LoadSuppressionsFile(options.extra)
      BY <2>1, <3>1, Zenon
    <3> QED
      BY <1>3, <2>2, <3>2, <3>3, Zenon
  <2>3. CASE options.extra.state # "list"
    <3>1. /\ P!LoadSuppressionsFile(after.extra)
               = P!Upsert(P!LoadPolicy(options.extra).suppressions, saved)
          /\ P!LoadSuppressionsFile(options.extra) = P!LoadPolicy(options.extra).suppressions
          /\ P!LoadPolicy(options.extra).suppressions \in Seq(P!Entry)
      BY <1>1, <1>2, <2>1, <2>3
    <3>2. P!LoadPolicy(options.policy).suppressions \in Seq(P!Entry)
      BY <1>1, <1>2
    <3> QED
      BY <1>3, <2>1, <3>1, <3>2
  <2> QED
    BY <2>2, <2>3
<1>4. CASE options.extra.state = "absent" /\ ~options.inline
  <2>1. /\ after.extra = options.extra
        /\ after.policy = P!SaveSuppression(options.policy, saved)
    BY <1>4 DEF P!Triage, Options
  <2> QED
    BY <1>1, <1>2, <1>4, <2>1
<1>5. CASE options.extra.state = "absent" /\ options.inline
  <2>1. after = options
    BY <1>5 DEF P!Triage
  <2> QED
    BY <1>1, <1>2, <1>5, <2>1
<1> QED
  BY <1>3, <1>4, <1>5

\* SuppressionHolds, of one question.
LEMMA PolicyAnswer ==
  ASSUME NEW before \in Options, NEW saved \in P!Entry, saved.spelling = "upper",
         saved.expires = "never"
  PROVE  LET after == P!Triage(before, saved)
             separate == before.extra.state # "absent"
             target == IF separate THEN before.extra ELSE before.policy
             replaced == P!Replaced(P!LoadPolicy(target).suppressions, saved)
             found == P!Preflight(after, saved.id)
             own == P!ActiveSuppression(P!LoadPolicy(before.policy).suppressions, saved.id)
         IN /\ \A q : P!IsPackageAllowed(P!LoadPolicy(after.policy), q)
                      = P!IsPackageAllowed(P!LoadPolicy(before.policy), q)
            /\ \A id : id # saved.id => P!Preflight(after, id) = P!Preflight(before, id)
            /\ \/ ~separate /\ before.inline
               \/ target.state = "list"
               \/ replaced # P!NoSuppression /\ ~P!IsActiveSuppression(replaced)
               \/ /\ found # P!NoSuppression
                  /\ found.justification = saved.justification \/ (separate /\ found = own)
<1> DEFINE after == P!Triage(before, saved)
           p == P!LoadPolicy(before.policy)
           q == P!LoadPolicy(after.policy)
           a == p.suppressions
           b == q.suppressions
           x == P!LoadSuppressionsFile(before.extra)
           y == P!LoadSuppressionsFile(after.extra)
           separate == before.extra.state # "absent"
           target == IF separate THEN before.extra ELSE before.policy
           list == P!LoadPolicy(target).suppressions
           replaced == P!Replaced(list, saved)
           found == P!Preflight(after, saved.id)
           own == P!ActiveSuppression(a, saved.id)
           Exempt == \/ ~separate /\ before.inline
                     \/ target.state = "list"
                     \/ replaced # P!NoSuppression /\ ~P!IsActiveSuppression(replaced)
<1>1. /\ q.deny = p.deny /\ q.allow = p.allow /\ a \in Seq(P!Entry) /\ x \in Seq(P!Entry)
      /\ \/ b = a /\ y = x /\ Exempt
         \/ separate /\ b = a /\ y = P!Upsert(list, saved) /\ x = list
         \/ ~separate /\ y = x /\ x = <<>> /\ b = P!Upsert(a, saved) /\ a = list
  BY TriageIs
<1>2. \A id : /\ P!Preflight(after, id) = P!ActiveSuppression(b \o y, id)
              /\ P!Preflight(before, id) = P!ActiveSuppression(a \o x, id)
  BY DEF P!Preflight
<1>3. \A r : P!IsPackageAllowed(q, r) = P!IsPackageAllowed(p, r)
  BY <1>1 DEF P!IsPackageAllowed, P!IsPackageInList
<1> DEFINE Other == \A id : id # saved.id => P!Preflight(after, id) = P!Preflight(before, id)
           Right == \/ Exempt
                    \/ /\ found # P!NoSuppression
                       /\ found.justification = saved.justification \/ (separate /\ found = own)
<1>4. found = P!Preflight(after, saved.id) /\ own = P!ActiveSuppression(a, saved.id)
  OBVIOUS
<1>5. ~Exempt => replaced = P!NoSuppression \/ P!IsActiveSuppression(replaced)
  OBVIOUS
<1>6. replaced = P!Replaced(list, saved)
  OBVIOUS
<1> HIDE DEF after, p, q, a, b, x, y, list, found, own, separate, Exempt, replaced, target
<1>7. ASSUME b = a /\ y = x /\ Exempt PROVE Other /\ Right
  BY <1>2, <1>7
<1>8. ASSUME separate /\ b = a /\ y = P!Upsert(list, saved) /\ x = list
      PROVE  Other /\ Right
  <2>1. /\ y \in Seq(P!Entry)
        /\ \A id : id # saved.id => P!ActiveSuppression(y, id) = P!ActiveSuppression(x, id)
        /\ ~Exempt => /\ P!ActiveSuppression(y, saved.id) # P!NoSuppression
                      /\ P!ActiveSuppression(y, saved.id).justification = saved.justification
    BY <1>1, <1>5, <1>6, <1>8, UpsertAnswer
  <2>2. \A id : P!Preflight(after, id)
                  = IF P!ActiveSuppression(a, id) # P!NoSuppression
                    THEN P!ActiveSuppression(a, id) ELSE P!ActiveSuppression(y, id)
    BY <1>1, <1>2, <1>8, <2>1, ActiveOfBoth
  <2>3. \A id : P!Preflight(before, id)
                  = IF P!ActiveSuppression(a, id) # P!NoSuppression
                    THEN P!ActiveSuppression(a, id) ELSE P!ActiveSuppression(x, id)
    BY <1>1, <1>2, ActiveOfBoth
  <2>4. Other
    BY <2>1, <2>2, <2>3
  <2>5. Right
    BY <1>4, <1>8, <2>1, <2>2
  <2> QED
    BY <2>4, <2>5
<1>9. ASSUME ~separate /\ y = x /\ x = <<>> /\ b = P!Upsert(a, saved) /\ a = list
      PROVE  Other /\ Right
  <2>1. /\ b \in Seq(P!Entry)
        /\ \A id : id # saved.id => P!ActiveSuppression(b, id) = P!ActiveSuppression(a, id)
        /\ ~Exempt => /\ P!ActiveSuppression(b, saved.id) # P!NoSuppression
                      /\ P!ActiveSuppression(b, saved.id).justification = saved.justification
    BY <1>1, <1>5, <1>6, <1>9, UpsertAnswer
  <2>2. \A id : /\ P!Preflight(after, id) = P!ActiveSuppression(b, id)
                /\ P!Preflight(before, id) = P!ActiveSuppression(a, id)
    <3>1. b \o y = b /\ a \o x = a
      BY <1>1, <1>9, <2>1, ConcatEmptySeq
    <3> QED
      BY <1>2, <3>1
  <2>3. Other
    BY <2>1, <2>2
  <2>4. Right
    BY <1>4, <2>1, <2>2
  <2> QED
    BY <2>3, <2>4
<1>10. Other /\ Right
  BY <1>1, <1>7, <1>8, <1>9
<1> QED
  BY <1>3, <1>10 DEF after, p, q, a, found, own, separate, Exempt, replaced, list, target

-----------------------------------------------------------------------------
(* What is asked *)

UpgradeAsked == asked.topic = "upgrade" =>
  /\ asked.installed \in Versions /\ asked.published \in SUBSET Versions
  /\ \E e \in UpgradeEntries : asked.osv = <<e>>
  /\ asked.gh = <<>> \/ \E e \in PatchedRanges : asked.gh = <<e>>

EvaluationAsked == asked.topic = "evaluation" =>
  /\ asked.version \in Versions /\ asked.published \in SUBSET Versions
  /\ \E e1, e2 \in PatchedRanges : asked.advisories = {<<e1>>, <<e2>>}

InventoryAsked == asked.topic = "inventory" =>
  /\ asked.listing \in Listings /\ asked.declared \in Listings
  /\ \E e \in UpgradeEntries : asked.osv = <<e>>
  /\ asked.version \in Versions

RetirementAsked == asked.topic = "retirement" =>
  /\ asked.version \in Versions /\ asked.published \in SUBSET Versions
  /\ \E e1, e2 \in PatchedRanges : asked.advisories = <<<<e1>>, <<e2>>>>
  /\ asked.cve \in 0..2 /\ asked.autoApply \in BOOLEAN
  /\ asked.repo \in A!Repositories({asked.version})

DeltaAsked == asked.topic = "delta" =>
  /\ asked.old.lock \in Seq([name : Packages, version : Numbers])
  /\ asked.new.lock \in Seq([name : Packages, version : Numbers])

ReachabilityAsked == asked.topic = "reachability" =>
  asked.files \in SUBSET R!Files /\ asked.withSymbol \in BOOLEAN

RefactoringAsked == asked.topic = "refactoring" =>
  /\ asked.files \in Programs /\ asked.known \in BOOLEAN
  /\ \E members \in SUBSET {"old", "sync"} :
       asked.output.suggestions = F!Suggestions(asked.files, members)
  /\ asked.failing \in 0..Len(asked.files)

PolicyAsked == asked.topic = "policy" =>
  /\ asked.options \in Options /\ asked.saved \in P!Entry
  /\ asked.saved.spelling = "upper" /\ asked.saved.expires = "never"

WellAsked == /\ UpgradeAsked /\ EvaluationAsked /\ InventoryAsked /\ RetirementAsked
         /\ DeltaAsked /\ ReachabilityAsked /\ PolicyAsked
         /\ RefactoringAsked

\* Before the first question and after an answer.
LEMMA NothingAsked == asked = Nothing => WellAsked
BY DEF Nothing, WellAsked, UpgradeAsked, EvaluationAsked, InventoryAsked, RetirementAsked,
       DeltaAsked, ReachabilityAsked, PolicyAsked,
            RefactoringAsked

\* One case for each topic.
LEMMA StepsAsk ==
  ASSUME WellAsked, [AskNext]_asked
  PROVE  WellAsked'
<1> USE DEF WellAsked, UpgradeAsked, EvaluationAsked, InventoryAsked, RetirementAsked,
            DeltaAsked, ReachabilityAsked, PolicyAsked,
            RefactoringAsked
<1>1. ASSUME AskUpgrade PROVE WellAsked'
  BY <1>1 DEF AskUpgrade
<1>2. ASSUME AskEvaluation PROVE WellAsked'
  BY <1>2 DEF AskEvaluation
<1>3. ASSUME AskInventory PROVE WellAsked'
  BY <1>3 DEF AskInventory
<1>4. ASSUME AskRetirement PROVE WellAsked'
  BY <1>4 DEF AskRetirement
<1>5. ASSUME AskDelta PROVE WellAsked'
  <2>1. PICK old \in [manifest : Manifests, lock : Locks],
             new \in [manifest : Manifests, lock : Locks], cves \in Findings :
          asked' = [topic |-> "delta", old |-> old, new |-> new, cves |-> cves]
    BY <1>5 DEF AskDelta
  <2>2. old.lock \in Seq([name : Packages, version : Numbers])
        /\ new.lock \in Seq([name : Packages, version : Numbers])
    BY LocksAssumption
  <2> QED
    BY <2>1, <2>2
<1>6. ASSUME AskReachability PROVE WellAsked'
  BY <1>6 DEF AskReachability
<1>7. ASSUME AskRefactoring PROVE WellAsked'
  BY <1>7 DEF AskRefactoring
<1>8. ASSUME AskArguments PROVE WellAsked'
  <2>1. asked'.topic = "arguments"
    BY <1>8 DEF AskArguments
  <2> QED
    BY <2>1
<1>9. ASSUME AskPolicy PROVE WellAsked'
  <2>1. PICK inline \in BOOLEAN, state \in {"ok", "broken", "list"},
             other \in {"ok", "broken", "list", "absent"},
             deny \in PolicyLists, allow \in PolicyLists, lists \in Suppressions,
             id \in {"c1", "c2"} :
          asked' = [topic |-> "policy",
            options |-> [inline |-> inline,
                         policy |-> [state |-> state, deny |-> deny, allow |-> allow,
                                     suppressions |-> lists[1]],
                         extra |-> [state |-> other, deny |-> <<>>, allow |-> <<>>,
                                    suppressions |-> lists[2]]],
            saved |-> P!Suppression(id, "fixed")]
    BY <1>9 DEF AskPolicy
  <2>2. lists[1] \in Seq(P!Entry) /\ lists[2] \in Seq(P!Entry)
    BY PolicyAssumption
  <2>3. [state |-> state, deny |-> deny, allow |-> allow, suppressions |-> lists[1]]
          \in PolicyFile
    BY <2>2 DEF PolicyFile, Lists
  <2>4. [state |-> other, deny |-> <<>>, allow |-> <<>>, suppressions |-> lists[2]]
          \in PolicyFile
    BY <2>2 DEF PolicyFile, Lists
  <2>5. asked'.topic = "policy" /\ asked'.options \in Options
    BY <2>1, <2>3, <2>4 DEF Options
  <2>6. /\ asked'.saved \in P!Entry /\ asked'.saved.spelling = "upper"
        /\ asked'.saved.expires = "never"
    BY <2>1 DEF P!Suppression, P!Entry
  <2> QED
    BY <2>5, <2>6
<1>10. ASSUME Answer PROVE WellAsked'
  BY <1>10 DEF Answer, Nothing
<1>11. ASSUME UNCHANGED asked PROVE WellAsked'
  BY <1>11
<1> QED
  BY <1>1, <1>2, <1>3, <1>4, <1>5, <1>6, <1>7, <1>8, <1>9, <1>10, <1>11 DEF AskNext

\* What is asked stays within the inputs that the answers are proved for.
LEMMA QuestionsAreAsked == AskSpec => []WellAsked
<1>1. AskInit => WellAsked
  BY NothingAsked DEF AskInit
<1>2. WellAsked /\ [AskNext]_asked => WellAsked'
  BY StepsAsk
<1> QED
  BY <1>1, <1>2, PTL DEF AskSpec

\* Whatever the two lockfiles and manifests are and whatever is known of their
\* packages, a finding that the new tree adds is reported, and one that counts as
\* resolved has gone from a tree with one version of its package (scanDelta).
THEOREM DeltaIsComplete == AskSpec => []DeltaMissesNothing
<1>1. WellAsked => DeltaMissesNothing
  BY DeltaAnswer DEF WellAsked, DeltaAsked, DeltaMissesNothing
<1> QED
  BY <1>1, QuestionsAreAsked, PTL

\* Whatever the files are, a package called not reachable is used only in ways
\* that the trace cannot see (assessPackageReachability).
THEOREM UnreachableIsUnseen == AskSpec => []NotReachableMisses
<1>1. WellAsked => NotReachableMisses
  BY ReachabilityAnswer DEF WellAsked, ReachabilityAsked, NotReachableMisses
<1> QED
  BY <1>1, QuestionsAreAsked, PTL

\* Whatever the policy and the suppressions file are, a CVE that triage suppressed
\* is skipped by the next run with the same options, but for a policy given inline,
\* a file that is a list and an entry that had expired, and no other CVE's
\* suppression and no decision on a package changes (saveSuppressionToPolicy,
\* saveSuppressionToFile, runSecOpsPreflight).
THEOREM SavedIsInForce == AskSpec => []SuppressionHolds
<1>1. WellAsked => SuppressionHolds
  BY PolicyAnswer DEF WellAsked, PolicyAsked, SuppressionHolds
<1> QED
  BY <1>1, QuestionsAreAsked, PTL

\* Whatever the files are, whatever the compiler says of them and whichever write
\* fails, the edits of a call site are disjoint unless two rules or two diagnostics
\* claim the same tokens; disjoint edits give the text with exactly those tokens
\* replaced; and no file but a call site differs from its source, nor does one
\* after a failure, unless writing its snapshot back failed (transformFileContent,
\* applyEdits, refactorConsumerCallSites).
THEOREM EditsAreRight == AskSpec => []EditsLand
<1>1. ASSUME WellAsked PROVE EditsLand
  <2>1. CASE asked.topic = "refactoring"
    <3> DEFINE files == asked.files
               output == asked.output
    <3>1. files \in Seq(SourceFile) /\ asked.known \in BOOLEAN
          /\ asked.failing \in 0..Len(files)
      BY <1>1, <2>1, ProgramsAssumption DEF WellAsked, RefactoringAsked, SourceFile
    <3>2. PICK members \in SUBSET {"old", "sync"} :
            output.suggestions = F!Suggestions(files, members)
      BY <1>1, <2>1 DEF WellAsked, RefactoringAsked
    <3> HIDE DEF files, output
    <3>3. /\ output.suggestions \in Seq(Occurrence)
          /\ \A i \in 1..Len(output.suggestions) :
               output.suggestions[i].use \in {"old", "sync"}
      BY <3>1, <3>2, SuggestionsAre
    <3>4. \A k \in 1..Len(files) :
            FileLands(files, asked.known, output, asked.failing, asked.left, k)
      BY <3>1, <3>3, RefactoringAnswer
    <3> QED
      BY <2>1, <3>4 DEF EditsLand, FileLands, files, output
  <2>2. CASE asked.topic # "refactoring"
    BY <2>2 DEF EditsLand
  <2> QED
    BY <2>1, <2>2
<1> QED
  BY <1>1, QuestionsAreAsked, PTL

-----------------------------------------------------------------------------
(* From the events to the match *)

\* The same of the instance that has the advisories, and the last place.
LEMMA FirstPlace ==
  ASSUME NEW I \in SUBSET Nat, I # {}
  PROVE  A!Min(I) \in I /\ \A j \in I : A!Min(I) <= j
<1>1. \E i \in I : \A j \in I : i <= j
  BY Least
<1> QED
  BY <1>1 DEF A!Min

LEMMA LastPlace ==
  ASSUME NEW n \in Nat, NEW I \in SUBSET (1..n), I # {}
  PROVE  A!Max(I) \in I
<1> DEFINE fromEnd == {d \in Nat : n - d \in I}
<1>1. PICK d \in fromEnd : \A e \in fromEnd : d <= e
  <2>1. PICK i \in I : TRUE
    OBVIOUS
  <2>2. n - i \in fromEnd
    <3>1. n - i \in Nat /\ n - (n - i) = i
      OBVIOUS
    <3> QED
      BY <3>1
  <2> QED
    BY <2>2, Least
<1>2. ASSUME NEW i \in I PROVE n - d >= i
  <2>1. n - i \in Nat /\ n - (n - i) = i
    OBVIOUS
  <2>2. n - i \in fromEnd
    BY <2>1
  <2>3. d <= n - i
    BY <1>1, <2>2
  <2> QED
    BY <2>3
<1>3. \E m \in I : \A i \in I : m >= i
  BY <1>2
<1> QED
  BY <1>3 DEF A!Max

\* The intervals and what is parsed from them: the range is the events, the
\* first fix is where the interval is fixed (osvEventsToSemverRange).
LEMMA IntervalIs ==
  ASSUME NEW V \in SUBSET A!Version, NEW e \in A!Intervals(V)
  PROVE  \E a \in V, b \in V :
           \/ e = <<A!Introduced(a)>>
           \/ e = <<A!Introduced(a), A!Fixed(b)>>
           \/ e = <<A!Introduced(a), A!LastAffected(b)>>
BY DEF A!Intervals

LEMMA ParsedIs ==
  ASSUME NEW V \in SUBSET A!Version, NEW e \in A!Intervals(V)
  PROVE  /\ A!Parse(e).range = e
         /\ A!Parse(e).firstPatched \in A!Version \cup {A!NoVersion}
         /\ \A a, b : e = <<A!Introduced(a), A!Fixed(b)>> =>
              A!Parse(e).firstPatched = b
<1> DEFINE I == {i \in 1..Len(e) : e[i].kind = "fixed"}
           k == IF I # {} THEN A!Min(I) ELSE 0
<1>1. A!FirstPatched(e) = IF k = 0 THEN A!NoVersion ELSE e[k].at
  BY DEF A!FirstPatched, A!SelectInSeq
<1>2. PICK a \in V, b \in V :
        \/ e = <<A!Introduced(a)>>
        \/ e = <<A!Introduced(a), A!Fixed(b)>>
        \/ e = <<A!Introduced(a), A!LastAffected(b)>>
  BY IntervalIs
<1>3. e # <<>>
  BY <1>2
<1>4. CASE e = <<A!Introduced(a)>>
  <2>1. I = {}
    BY <1>4 DEF A!Introduced
  <2> QED
    BY <1>1, <1>3, <1>4, <2>1 DEF A!Parse, A!SemverRange
<1>5. CASE e = <<A!Introduced(a), A!Fixed(b)>>
  <2>1. I = {2}
    BY <1>5 DEF A!Introduced, A!Fixed
  <2>2. k = 2
    <3>1. {2} \in SUBSET Nat /\ {2} # {}
      OBVIOUS
    <3> QED
      BY <2>1, <3>1, FirstPlace
  <2>3. A!FirstPatched(e) = b
    BY <1>1, <1>5, <2>2 DEF A!Fixed
  <2>4. \A c, d : e = <<A!Introduced(c), A!Fixed(d)>> => d = b
    BY <1>5 DEF A!Fixed
  <2> QED
    BY <1>3, <2>3, <2>4 DEF A!Parse, A!SemverRange
<1>6. CASE e = <<A!Introduced(a), A!LastAffected(b)>>
  <2>1. I = {}
    BY <1>6 DEF A!Introduced, A!LastAffected
  <2>2. \A c, d : e # <<A!Introduced(c), A!Fixed(d)>>
    BY <1>6 DEF A!Fixed, A!LastAffected
  <2> QED
    BY <1>1, <1>3, <2>1, <2>2 DEF A!Parse, A!SemverRange
<1> QED
  BY <1>2, <1>4, <1>5, <1>6

\* What satisfies the comparators of an interval is affected, and the other way
\* round for a release: a prerelease may be affected without satisfying them.
LEMMA SatisfiedIs ==
  ASSUME NEW V \in SUBSET A!Version, NEW e \in A!Intervals(V), NEW v \in A!Version
  PROVE  /\ A!Satisfies(v, e) => A!Affected(v, e)
         /\ ~A!Prerelease(v) /\ A!Affected(v, e) => A!Satisfies(v, e)
<1>1. PICK a \in V, b \in V :
        \/ e = <<A!Introduced(a)>>
        \/ e = <<A!Introduced(a), A!Fixed(b)>>
        \/ e = <<A!Introduced(a), A!LastAffected(b)>>
  BY IntervalIs
<1> DEFINE In == \A i \in 1..Len(e) : A!Holds(v, e[i])
<1>2. In <=> A!Affected(v, e)
  <2>1. CASE e = <<A!Introduced(a)>>
    <3>1. Len(e) = 1 /\ 1..1 = {1} /\ e[1].kind = "introduced" /\ e[1].at = a
      BY <2>1 DEF A!Introduced
    <3>2. In <=> A!AtMost(a, v)
      BY <3>1 DEF A!Holds
    <3>3. A!Affected(v, e) <=> A!AtMost(a, v)
      BY <3>1 DEF A!Affected
    <3> QED
      BY <3>2, <3>3
  <2>2. CASE e = <<A!Introduced(a), A!Fixed(b)>>
    <3>1. /\ Len(e) = 2 /\ 1..2 = {1, 2}
          /\ e[1].kind = "introduced" /\ e[1].at = a
          /\ e[2].kind = "fixed" /\ e[2].at = b /\ e[2] # A!LastAffected(v)
      BY <2>2 DEF A!Introduced, A!Fixed, A!LastAffected
    <3>2. In <=> A!AtMost(a, v) /\ A!Before(v, b)
      BY <3>1 DEF A!Holds
    <3>3. A!Affected(v, e) <=> A!AtMost(a, v) /\ A!Before(v, b)
      BY <3>1 DEF A!Affected
    <3> QED
      BY <3>2, <3>3
  <2>3. CASE e = <<A!Introduced(a), A!LastAffected(b)>>
    <3>1. /\ Len(e) = 2 /\ 1..2 = {1, 2}
          /\ e[1].kind = "introduced" /\ e[1].at = a
          /\ e[2].kind = "last" /\ e[2].at = b
          /\ e[2] = A!LastAffected(v) <=> v = b
      BY <2>3 DEF A!Introduced, A!LastAffected
    <3>2. In <=> A!AtMost(a, v) /\ A!AtMost(v, b)
      BY <3>1 DEF A!Holds
    <3>3. A!Affected(v, e) <=> A!AtMost(a, v) /\ A!AtMost(v, b)
      BY <3>1 DEF A!Affected, A!AtMost
    <3> QED
      BY <3>2, <3>3
  <2> QED
    BY <1>1, <2>1, <2>2, <2>3
<1> QED
  BY <1>2 DEF A!Satisfies

\* The match with an answer of one entry (check-version-match).
LEMMA MatchIs ==
  ASSUME NEW affected, Len(affected) = 1, NEW installed
  PROVE  A!Match(installed, affected) =
           IF A!Satisfies(installed, affected[1].range) THEN 1 ELSE 0
<1> DEFINE I == {i \in 1..Len(affected) : A!Satisfies(installed, affected[i].range)}
<1>1. A!Match(installed, affected) = IF I # {} THEN A!Min(I) ELSE 0
  BY DEF A!Match, A!SelectInSeq
<1>2. I = IF A!Satisfies(installed, affected[1].range) THEN {1} ELSE {}
  OBVIOUS
<1>3. A!Min({1}) = 1
  <2>1. {1} \in SUBSET Nat /\ {1} # {}
    OBVIOUS
  <2> QED
    BY <2>1, FirstPlace
<1> QED
  BY <1>1, <1>2, <1>3

\* GitHub's answer changes the fix of OSV's entry, never its range, and only
\* when OSV has none (mergeGhDataIntoCveDetails).
LEMMA LookupIs ==
  ASSUME NEW e \in UpgradeEntries, NEW gh,
         gh = <<>> \/ \E g \in PatchedRanges : gh = <<g>>
  PROVE  LET affected == A!LookupCve(<<e>>, gh)
         IN /\ Len(affected) = 1 /\ affected[1].range = e
            /\ A!FirstPatched(e) # A!NoVersion =>
                 affected[1].firstPatched = A!FirstPatched(e)
<1> DEFINE osv == A!ParseAll(<<e>>)
           G == A!ParseAllGh(gh)
           K == {i \in 1..Len(G) : G[i].firstPatched # A!NoVersion}
           k == IF K # {} THEN A!Min(K) ELSE 0
<1>1. osv = <<A!Parse(e)>> /\ osv # <<>> /\ Len(osv) = 1 /\ osv[1] = A!Parse(e)
  BY DEF A!ParseAll
<1>2. A!Parse(e).range = e
  <2>1. Versions \cup {A!Zero} \in SUBSET A!Version
    BY VersionsAssumption DEF A!Zero, A!Version
  <2> QED
    BY <2>1, ParsedIs, VersionsAssumption
<1>3. A!LookupCve(<<e>>, gh) =
        IF osv[1].firstPatched = A!NoVersion /\ k # 0
        THEN [osv EXCEPT ![1].firstPatched = G[k].firstPatched] ELSE osv
  BY <1>1 DEF A!LookupCve, A!Merge, A!SelectInSeq
<1> HIDE DEF osv, k
<1>4. LET changed == [osv EXCEPT ![1].firstPatched = G[k].firstPatched]
      IN Len(changed) = 1 /\ changed[1].range = e
  <2>1. osv[1] = [range |-> A!SemverRange(e), firstPatched |-> A!FirstPatched(e)]
    BY <1>1 DEF A!Parse
  <2> QED
    BY <1>1, <1>2, <2>1
<1>5. A!FirstPatched(e) # A!NoVersion => A!LookupCve(<<e>>, gh) = osv
  BY <1>1, <1>3 DEF A!Parse
<1> QED
  BY <1>1, <1>2, <1>3, <1>4, <1>5 DEF A!Parse

-----------------------------------------------------------------------------
(* The fix *)

\* What the assumptions on the constants say of the versions and the entries.
LEMMA AreVersions == Versions \cup {A!Zero} \in SUBSET A!Version
BY VersionsAssumption DEF A!Zero, A!Version

LEMMA AreIntervals ==
  /\ UpgradeEntries \subseteq A!Intervals(Versions \cup {A!Zero})
  /\ PatchedRanges \subseteq A!Intervals(Versions \cup {A!Zero})
<1>1. ASSUME NEW e \in PatchedRanges PROVE e \in A!Intervals(Versions \cup {A!Zero})
  BY VersionsAssumption DEF A!Intervals
<1> QED
  BY <1>1, VersionsAssumption

\* No version from the fix of an interval on is affected.
LEMMA FixedIs ==
  ASSUME NEW e \in UpgradeEntries, A!FirstPatched(e) # A!NoVersion,
         NEW v \in A!Version, A!AtMost(A!FirstPatched(e), v)
  PROVE  ~A!Affected(v, e)
<1> DEFINE V == Versions \cup {A!Zero}
<1>0. V \in SUBSET A!Version /\ e \in A!Intervals(V)
  BY AreVersions, AreIntervals
<1>1. PICK a \in V, b \in V :
        \/ e = <<A!Introduced(a)>>
        \/ e = <<A!Introduced(a), A!Fixed(b)>>
        \/ e = <<A!Introduced(a), A!LastAffected(b)>>
  BY <1>0, IntervalIs
<1>2. e = <<A!Introduced(a), A!Fixed(b)>>
  <2> DEFINE I == {i \in 1..Len(e) : e[i].kind = "fixed"}
  <2>1. I # {}
    BY DEF A!FirstPatched, A!SelectInSeq
  <2>2. e # <<A!Introduced(a)>> /\ e # <<A!Introduced(a), A!LastAffected(b)>>
    BY <2>1 DEF A!Introduced, A!LastAffected
  <2> QED
    BY <1>1, <2>2
<1>3. A!FirstPatched(e) = b
  BY <1>0, <1>2, ParsedIs DEF A!Parse
<1>4. /\ Len(e) = 2 /\ e[1].kind = "introduced" /\ e[2].kind = "fixed"
      /\ e[2].at = b /\ e[2] # A!LastAffected(v)
  BY <1>2 DEF A!Introduced, A!Fixed, A!LastAffected
<1>5. ~A!Before(v, b)
  BY <1>0, <1>3, Linear
<1> QED
  BY <1>4, <1>5 DEF A!Affected

\* A release that is affected is matched, whatever GitHub adds.
LEMMA MatchAnswer ==
  ASSUME NEW v \in Versions, NEW e \in UpgradeEntries, NEW gh,
         gh = <<>> \/ \E g \in PatchedRanges : gh = <<g>>
  PROVE  LET affected == A!LookupCve(<<e>>, gh)
         IN /\ A!Match(v, affected) = IF A!Satisfies(v, e) THEN 1 ELSE 0
            /\ ~A!Prerelease(v) /\ A!Affected(v, e) => A!Match(v, affected) # 0
<1> DEFINE affected == A!LookupCve(<<e>>, gh)
<1>1. Len(affected) = 1 /\ affected[1].range = e
  BY LookupIs
<1> HIDE DEF affected
<1>2. A!Match(v, affected) = IF A!Satisfies(v, e) THEN 1 ELSE 0
  BY <1>1, MatchIs
<1>3. ~A!Prerelease(v) /\ A!Affected(v, e) => A!Satisfies(v, e)
  BY AreVersions, AreIntervals, SatisfiedIs
<1> QED
  BY <1>2, <1>3 DEF affected

\* The fix is published, no downgrade, outside the range and as near as possible.
LEMMA FixAnswer ==
  ASSUME UpgradeAsked
  PROVE  FixIsSafe
<1> SUFFICES ASSUME asked.topic = "upgrade" PROVE FixIsSafe
  BY DEF FixIsSafe, MatchFindsVulnerable
<1> DEFINE affected == A!LookupCve(asked.osv, asked.gh)
           fix == A!FindFixedVersion(asked.installed, asked.published, affected)
           Upward(v) == /\ A!AtMost(asked.installed, v)
                        /\ A!AtMost(affected[1].firstPatched, v)
           FloorOfGitHub == A!FirstPatched(asked.osv[1]) = A!NoVersion
           Safe(v) == Upward(v) /\ ~A!Affected(v, asked.osv[1])
<1>1. PICK e \in UpgradeEntries : asked.osv = <<e>>
  BY DEF UpgradeAsked
<1>2. /\ asked.installed \in Versions /\ asked.published \in SUBSET Versions
      /\ asked.gh = <<>> \/ \E g \in PatchedRanges : asked.gh = <<g>>
      /\ asked.osv[1] = e
  BY <1>1 DEF UpgradeAsked
<1>3. /\ Len(affected) = 1 /\ affected[1].range = e
      /\ A!Match(asked.installed, affected)
           = IF A!Satisfies(asked.installed, e) THEN 1 ELSE 0
      /\ ~A!Prerelease(asked.installed) /\ A!Affected(asked.installed, e)
           => A!Match(asked.installed, affected) # 0
      /\ ~FloorOfGitHub => affected[1].firstPatched = A!FirstPatched(e)
  BY <1>1, <1>2, LookupIs, MatchAnswer
<1>4. MatchFindsVulnerable
  BY <1>2, <1>3 DEF MatchFindsVulnerable
<1> HIDE DEF affected
<1>5. ASSUME A!Match(asked.installed, affected) # 0, affected[1].firstPatched # A!NoVersion
      PROVE  /\ fix # A!NoVersion =>
                  /\ fix \in asked.published /\ Upward(fix)
                  /\ A!Affected(fix, asked.osv[1])
                       => A!Prerelease(fix) /\ FloorOfGitHub
             /\ \A v \in asked.published : Safe(v) =>
                  /\ fix # A!NoVersion
                  /\ v[1] = asked.installed[1] => fix[1] = v[1]
                  /\ v[1] = asked.installed[1] /\ v[2] = asked.installed[2]
                       => A!AtMost(fix, v)
  <2> DEFINE floor == affected[1].firstPatched
             cands == A!Candidates(asked.published, floor, e)
  <2>1. fix = A!Resolve(asked.installed, asked.published, floor, e)
    BY <1>3, <1>5 DEF A!FindFixedVersion
  <2>2. asked.published \in SUBSET A!Version /\ asked.installed \in A!Version
    BY <1>2, AreVersions
  <2>3. \A v \in asked.published :
          /\ A!Satisfies(v, e) => A!Affected(v, e)
          /\ ~A!Prerelease(v) /\ A!Affected(v, e) => A!Satisfies(v, e)
    BY <2>2, AreVersions, AreIntervals, SatisfiedIs
  <2> HIDE DEF fix, floor
  <2>4. /\ fix # A!NoVersion => fix \in cands /\ A!AtMost(asked.installed, fix)
        /\ \A v \in cands : A!AtMost(asked.installed, v) =>
             /\ fix # A!NoVersion
             /\ v[1] = asked.installed[1] => fix[1] = v[1]
             /\ v[1] = asked.installed[1] /\ v[2] = asked.installed[2] => A!AtMost(fix, v)
    BY <2>1, <2>2, ResolveIs
  <2>5. \A v : v \in cands <=>
          v \in asked.published /\ A!AtMost(floor, v) /\ ~A!Satisfies(v, e)
    BY DEF A!Candidates
  <2> HIDE DEF cands
  <2>6. ASSUME fix # A!NoVersion
        PROVE  /\ fix \in asked.published /\ Upward(fix)
               /\ A!Affected(fix, asked.osv[1]) => A!Prerelease(fix) /\ FloorOfGitHub
    <3>1. fix \in asked.published /\ Upward(fix) /\ ~A!Satisfies(fix, e)
      BY <2>4, <2>5, <2>6 DEF floor
    <3>2. A!Affected(fix, e) => A!Prerelease(fix)
      BY <2>3, <3>1
    <3>3. ~FloorOfGitHub => ~A!Affected(fix, e)
      BY <1>2, <1>3, <2>2, <3>1, FixedIs
    <3> QED
      BY <1>2, <3>1, <3>2, <3>3
  <2>7. ASSUME NEW v \in asked.published, Safe(v)
        PROVE  v \in cands /\ A!AtMost(asked.installed, v)
    BY <1>2, <2>3, <2>5, <2>7 DEF floor
  <2> HIDE DEF Safe
  <2> QED
    BY <2>4, <2>6, <2>7
<1> HIDE DEF fix
<1> QED
  BY <1>4, <1>5 DEF FixIsSafe, fix, affected

-----------------------------------------------------------------------------
(* The recommendation and the retirement *)

\* What an advisory with a fix leads to: no version below the fix, and none
\* below the version that it was asked for when the advisory covers that one.
LEMMA SafeForIs ==
  ASSUME NEW version \in A!Version, NEW published \in SUBSET A!Version,
         NEW e \in PatchedRanges
  PROVE  LET s == A!SafeFor(version, published, A!Parse(e))
         IN /\ s \in A!Version /\ s # A!NoVersion
            /\ A!AtMost(e[2].at, s) /\ ~A!Affected(s, e)
            /\ A!Satisfies(version, A!Parse(e).range) => A!AtMost(version, s)
            /\ A!Parse(e).range = e
            /\ ~A!Prerelease(version) /\ ~A!Satisfies(version, e)
                 => A!AtMost(e[2].at, version)
            /\ \A r \in A!Version : A!AtMost(e[2].at, r) => ~A!Affected(r, e)
<1> DEFINE f == A!Parse(e).firstPatched
           safe == A!Resolve(version, published, f, A!NoRange)
           s == A!SafeFor(version, published, A!Parse(e))
<1>1. PICK v \in Versions : e = <<A!Introduced(A!Zero), A!Fixed(v)>>
  BY VersionsAssumption
<1>2. e \in A!Intervals(Versions \cup {A!Zero})
  BY AreIntervals
<1>3. f = v /\ A!Parse(e).range = e
  BY <1>1, <1>2, AreVersions, ParsedIs
<1>4. v \in A!Version /\ v # A!NoVersion
  BY AreVersions, Parts
<1>5. /\ Len(e) = 2 /\ 1..2 = {1, 2}
      /\ e[1].kind = "introduced" /\ e[1].at = A!Zero
      /\ e[2].kind = "fixed" /\ e[2].at = v /\ \A r : e[2] # A!LastAffected(r)
  BY <1>1 DEF A!Introduced, A!Fixed, A!LastAffected
<1>6. s = IF safe # A!NoVersion THEN safe ELSE v
  BY <1>3, <1>4 DEF A!SafeFor
<1>7. safe # A!NoVersion => safe \in published /\ A!AtMost(v, safe) /\ A!AtMost(version, safe)
  <2>1. safe # A!NoVersion =>
          safe \in A!Candidates(published, f, A!NoRange) /\ A!AtMost(version, safe)
    BY ResolveIs
  <2> QED
    BY <1>3, <2>1 DEF A!Candidates
<1> HIDE DEF safe, s
<1>8. s \in A!Version /\ s # A!NoVersion /\ A!AtMost(v, s)
  BY <1>4, <1>6, <1>7 DEF A!AtMost
<1>9. ASSUME NEW r \in A!Version PROVE A!Affected(r, e) <=> A!AtMost(A!Zero, r) /\ A!Before(r, v)
  BY <1>5 DEF A!Affected
<1>10. ASSUME NEW r \in A!Version, A!AtMost(v, r) PROVE ~A!Affected(r, e)
  BY <1>4, <1>9, <1>10, Linear
<1>11. ASSUME A!Satisfies(version, e) PROVE A!AtMost(version, s)
  <2>1. A!Before(version, v)
    <3>1. A!Affected(version, e)
      BY <1>2, <1>11, AreVersions, SatisfiedIs
    <3> QED
      BY <1>9, <3>1
  <2> QED
    BY <1>6, <1>7, <2>1 DEF A!AtMost
<1>12. ASSUME ~A!Prerelease(version), ~A!Satisfies(version, e) PROVE A!AtMost(v, version)
  <2>1. ~A!Affected(version, e)
    BY <1>2, <1>12, AreVersions, SatisfiedIs
  <2>2. A!AtMost(A!Zero, version)
    <3>1. A!Zero \in A!Version /\ A!Zero = <<0, 0, 0, 1>>
      BY DEF A!Zero, A!Version
    <3>2. ~A!Before(version, A!Zero)
      BY <1>12, <3>1, BeforeIs, Parts DEF A!Prerelease
    <3> QED
      BY <3>1, <3>2, Linear
  <2> QED
    BY <1>4, <1>9, <2>1, <2>2, Linear
<1>13. ~A!Affected(s, e)
  BY <1>8, <1>10
<1> QED
  BY <1>3, <1>5, <1>8, <1>10, <1>11, <1>12, <1>13 DEF s

\* The highest of one or two versions.
LEMMA HighestIs ==
  ASSUME NEW s1 \in A!Version, NEW s2 \in A!Version,
         NEW vs \in SUBSET {s1, s2}, vs # {}
  PROVE  A!Highest(vs) \in vs /\ \A w \in vs : A!AtMost(w, A!Highest(vs))
<1>1. A!AtMost(s1, s2) \/ A!AtMost(s2, s1)
  BY Linear DEF A!AtMost
<1>2. A!AtMost(s1, s1) /\ A!AtMost(s2, s2)
  BY DEF A!AtMost
<1>3. vs = {s1} \/ vs = {s2} \/ vs = {s1, s2}
  OBVIOUS
<1>4. \E v \in vs : \A w \in vs : A!AtMost(w, v)
  BY <1>1, <1>2, <1>3
<1> QED
  BY <1>4 DEF A!Highest

\* The recommendation is at least the fix of each advisory: of those that cover
\* the version because it is the highest upgrade, of the others because it is not
\* below the version.
LEMMA RecommendationAnswer ==
  ASSUME EvaluationAsked
  PROVE  RecommendationIsSafe
<1> SUFFICES ASSUME asked.topic = "evaluation", ~A!Prerelease(asked.version)
             PROVE  RecommendationIsSafe
  BY DEF RecommendationIsSafe
<1> DEFINE version == asked.version
           published == asked.published
           Fix(e) == A!SafeFor(version, published, A!Parse(e))
           found == {p \in {A!Parse(entries[1]) : entries \in asked.advisories} :
                       A!Satisfies(version, p.range)}
           upgrades == {A!SafeFor(version, published, p) : p \in found} \ {A!NoVersion}
           report == A!Evaluate(version, published, asked.advisories)
           rec == report.recommended
<1>1. PICK e1 \in PatchedRanges, e2 \in PatchedRanges :
        asked.advisories = {<<e1>>, <<e2>>}
  BY DEF EvaluationAsked
<1>2. version \in A!Version /\ published \in SUBSET A!Version
  BY AreVersions DEF EvaluationAsked
<1>3. found = {p \in {A!Parse(e1), A!Parse(e2)} : A!Satisfies(version, p.range)}
  BY <1>1
<1>4. rec = IF found = {} THEN version
            ELSE IF upgrades # {} THEN A!Highest(upgrades)
            ELSE IF published # {} THEN A!Highest(published) ELSE A!NoVersion
  BY DEF A!Evaluate, A!Recommended
<1> HIDE DEF found
<1>5. ASSUME NEW e \in {e1, e2}
      PROVE  /\ Fix(e) \in A!Version /\ Fix(e) # A!NoVersion
             /\ A!AtMost(e[2].at, Fix(e))
             /\ A!Satisfies(version, e) => A!AtMost(version, Fix(e))
             /\ A!Parse(e).range = e
             /\ ~A!Satisfies(version, e) => A!AtMost(e[2].at, version)
             /\ \A r \in A!Version : A!AtMost(e[2].at, r) => ~A!Affected(r, e)
             /\ e[2].at \in A!Version
  <2>1. e \in PatchedRanges
    OBVIOUS
  <2>2. e[2].at \in A!Version
    BY <2>1, VersionsAssumption DEF A!Introduced, A!Fixed
  <2> QED
    BY <1>2, <2>1, <2>2, SafeForIs, ZenonT(60)
<1>6. \A e \in {e1, e2} : A!Parse(e) \in found <=> A!Satisfies(version, e)
  BY <1>3, <1>5
<1>7. upgrades \in SUBSET {Fix(e1), Fix(e2)}
  BY <1>3
<1>8. \A e \in {e1, e2} : A!Satisfies(version, e) => Fix(e) \in upgrades
  BY <1>5, <1>6
<1>9. \A u \in upgrades : \E e \in {e1, e2} : u = Fix(e) /\ A!Satisfies(version, e)
  BY <1>3, <1>5
<1>10. found = {} <=> \A e \in {e1, e2} : ~A!Satisfies(version, e)
  BY <1>3, <1>5
<1> HIDE DEF Fix, upgrades, rec
<1>11. /\ rec \in A!Version
       /\ \A e \in {e1, e2} : A!AtMost(e[2].at, rec)
  <2>1. CASE found = {}
    BY <1>2, <1>4, <1>5, <1>10, <2>1
  <2>2. CASE found # {}
    <3>1. upgrades # {}
      BY <1>8, <1>10, <2>2
    <3>2. rec = A!Highest(upgrades)
      BY <1>4, <2>2, <3>1
    <3>3. rec \in upgrades /\ \A w \in upgrades : A!AtMost(w, rec)
      BY <1>5, <1>7, <3>1, <3>2, HighestIs
    <3>4. rec \in A!Version /\ A!AtMost(version, rec)
      BY <1>5, <1>9, <3>3
    <3>5. ASSUME NEW e \in {e1, e2} PROVE A!AtMost(e[2].at, rec)
      <4>1. CASE A!Satisfies(version, e)
        <5>1. A!AtMost(Fix(e), rec) /\ A!AtMost(e[2].at, Fix(e))
          BY <1>5, <1>8, <3>3, <4>1
        <5> QED
          BY <1>5, <3>4, <5>1, Transitive
      <4>2. CASE ~A!Satisfies(version, e)
        <5>1. A!AtMost(e[2].at, version)
          BY <1>5, <4>2
        <5> QED
          BY <1>2, <1>5, <3>4, <5>1, Transitive
      <4> QED
        BY <4>1, <4>2
    <3> QED
      BY <3>4, <3>5
  <2> QED
    BY <2>1, <2>2
<1>12. \A entries \in asked.advisories : ~A!Affected(rec, entries[1])
  BY <1>1, <1>5, <1>11
<1> QED
  BY <1>12 DEF RecommendationIsSafe, rec

\* The upgrade of a stored patch is one that its CVE does not affect.
LEMMA SafeUpgradeIs ==
  ASSUME NEW version \in A!Version, NEW published \in SUBSET A!Version,
         NEW e1 \in PatchedRanges, NEW e2 \in PatchedRanges, NEW cve \in 0..2
  PROVE  LET e == <<e1, e2>>
             safe == A!SafeUpgrade(cve, version, published, <<<<e1>>, <<e2>>>>)
         IN safe # A!NoVersion =>
              \E i \in 1..2 : /\ cve \in {0, i} /\ ~A!Affected(safe, e[i])
                              /\ A!Satisfies(version, A!Parse(e[i]).range)
<1> DEFINE advisories == <<<<e1>>, <<e2>>>>
           covers(entries) == A!Satisfies(version, A!Parse(entries[1]).range)
           safe(entries) == A!SafeFor(version, published, A!Parse(entries[1]))
           I == {i \in 1..Len(advisories) :
                   covers(advisories[i]) /\ safe(advisories[i]) # A!NoVersion}
           k == IF cve = 0 THEN IF I # {} THEN A!Min(I) ELSE 0
                ELSE IF covers(advisories[cve]) THEN cve ELSE 0
<1>1. A!SafeUpgrade(cve, version, published, advisories)
        = IF k = 0 THEN A!NoVersion ELSE safe(advisories[k])
  BY DEF A!SafeUpgrade, A!SelectInSeq
<1>2. k # 0 => k \in 1..2 /\ cve \in {0, k} /\ covers(advisories[k])
  <2>1. CASE cve = 0
    <3>1. I # {} => A!Min(I) \in I
      <4>1. I \in SUBSET Nat
        OBVIOUS
      <4> QED
        BY <4>1, FirstPlace
    <3> QED
      BY <2>1, <3>1
  <2>2. CASE cve # 0
    BY <2>2
  <2> QED
    BY <2>1, <2>2
<1> HIDE DEF k
<1>3. ASSUME NEW i \in 1..2
      PROVE  /\ advisories[i][1] = <<e1, e2>>[i]
             /\ ~A!Affected(safe(advisories[i]), <<e1, e2>>[i])
  <2>1. advisories[i][1] = <<e1, e2>>[i] /\ <<e1, e2>>[i] \in PatchedRanges
    OBVIOUS
  <2> QED
    BY <2>1, SafeForIs
<1> QED
  BY <1>1, <1>2, <1>3

\* A patch goes only when package.json asks for the safe upgrade.
LEMMA RetirementAnswer ==
  ASSUME RetirementAsked
  PROVE  RetirementIsSafe
<1> SUFFICES ASSUME asked.topic = "retirement" PROVE RetirementIsSafe
  BY DEF RetirementIsSafe
<1> DEFINE repo == asked.repo
           safe == A!SafeUpgrade(asked.cve, asked.version, asked.published,
                                 asked.advisories)
           end == A!Reconcile(repo, safe, asked.autoApply, asked.runTests, asked.failing)
           Unaffected(v) == \E i \in 1..2 :
             /\ asked.cve \in {0, i}
             /\ ~A!Affected(v, asked.advisories[i][1])
             /\ A!Satisfies(asked.version, A!Parse(asked.advisories[i][1]).range)
           upgraded == A!Upgraded(repo, safe)
<1>1. PICK e1 \in PatchedRanges, e2 \in PatchedRanges :
        asked.advisories = <<<<e1>>, <<e2>>>>
  BY DEF RetirementAsked
<1>2. /\ asked.version \in A!Version /\ asked.published \in SUBSET A!Version
      /\ asked.cve \in 0..2
  BY AreVersions DEF RetirementAsked
<1>3. safe # A!NoVersion => Unaffected(safe)
  <2>1. \A i \in 1..2 : asked.advisories[i][1] = <<e1, e2>>[i]
    BY <1>1
  <2> QED
    BY <1>1, <1>2, <2>1, SafeUpgradeIs
<1>4. /\ repo.direct \in {asked.version, A!NoVersion}
      /\ repo.override \in {asked.version, A!NoVersion}
      /\ repo.patch = TRUE
      /\ repo = [direct |-> repo.direct, override |-> repo.override,
                 patched |-> repo.patched, patch |-> repo.patch,
                 manifest |-> repo.manifest]
  BY DEF RetirementAsked, A!Repositories
<1> HIDE DEF safe, Unaffected
<1>5. /\ upgraded.direct = IF repo.direct = A!NoVersion THEN A!NoVersion ELSE safe
      /\ upgraded.override = IF repo.override # A!NoVersion \/ repo.direct = A!NoVersion
                             THEN safe ELSE repo.override
      /\ upgraded.patch = TRUE
  BY <1>4 DEF A!Upgraded
<1>6. \/ end.repo = repo
      \/ /\ safe # A!NoVersion /\ asked.autoApply
         /\ end.repo.direct = upgraded.direct /\ end.repo.override = upgraded.override
         /\ end.status # "upgraded" => asked.failing \in {"patch", "manifest"}
  <2> DEFINE retired == [upgraded EXCEPT !.patch = FALSE, !.manifest = FALSE]
             halfway == [upgraded EXCEPT !.patch = FALSE]
  <2>1. DOMAIN upgraded = {"direct", "override", "patched", "patch", "manifest"}
    <3>1. DOMAIN repo = {"direct", "override", "patched", "patch", "manifest"}
      BY DEF RetirementAsked, A!Repositories
    <3> QED
      BY <3>1 DEF A!Upgraded
  <2> HIDE DEF upgraded
  <2>2. /\ retired.direct = upgraded.direct /\ retired.override = upgraded.override
        /\ halfway.direct = upgraded.direct /\ halfway.override = upgraded.override
    BY <2>1
  <2>3. CASE safe = A!NoVersion \/ ~asked.autoApply
    BY <2>3 DEF A!Reconcile
  <2>4. CASE safe # A!NoVersion /\ asked.autoApply
    <3>1. \/ end = [status |-> "error", repo |-> repo]
          \/ end = [status |-> "error", repo |-> upgraded] /\ asked.failing = "patch"
          \/ end = [status |-> "error", repo |-> halfway] /\ asked.failing = "manifest"
          \/ end = [status |-> "upgraded", repo |-> retired]
      BY <2>4 DEF A!Reconcile, upgraded
    <3> HIDE DEF end, retired, halfway
    <3> QED
      BY <2>2, <2>4, <3>1
  <2> QED
    BY <2>3, <2>4
<1> HIDE DEF end, upgraded
<1>7. ASSUME ~end.repo.patch
      PROVE  /\ {end.repo.direct, end.repo.override} # {A!NoVersion}
             /\ \A v \in {end.repo.direct, end.repo.override} \ {A!NoVersion} : Unaffected(v)
  BY <1>3, <1>4, <1>5, <1>6, <1>7
<1>8. end.status # "upgraded" /\ asked.failing \notin {"patch", "manifest"}
        => end.repo = repo
  BY <1>6
<1>9. ~asked.autoApply => end.repo = repo
  BY <1>6
<1> QED
  BY <1>7, <1>8, <1>9 DEF RetirementIsSafe, end, safe, Unaffected

-----------------------------------------------------------------------------
(* The inventory *)

\* The inventory of a tree with a copy of the package is the version of one of
\* the copies (the last: see SelectLastInSeq).
LEMMA InstalledIs ==
  ASSUME NEW listing \in Seq([name : STRING, version : Versions]), NEW declared,
         NEW i \in 1..Len(listing), listing[i].name = "p"
  PROVE  \E k \in 1..Len(listing) :
           /\ listing[k].name = "p"
           /\ A!InstalledVersion(listing, declared, "p") = listing[k].version
<1> DEFINE I == {j \in 1..Len(listing) : listing[j].name = "p"}
           k == IF I # {} THEN A!Max(I) ELSE 0
<1>1. listing # <<>> /\ I # {} /\ Len(listing) \in Nat
  OBVIOUS
<1>2. A!Kept(listing, "p") = k
  BY DEF A!Kept, A!SelectLastInSeq
<1>3. k \in I
  <2>1. I \in SUBSET (1..Len(listing))
    OBVIOUS
  <2>2. A!Max(I) \in I
    BY <1>1, <2>1, LastPlace
  <2> QED
    BY <1>1, <2>2
<1> HIDE DEF k
<1>4. A!InstalledVersion(listing, declared, "p") = listing[k].version
  BY <1>1, <1>2, <1>3 DEF A!InstalledVersion, A!Listed
<1> QED
  BY <1>3, <1>4

\* With one version in the tree, the inventory tells it.
LEMMA InventoryAnswer ==
  ASSUME InventoryAsked
  PROVE  InventoryIsTrue
<1> SUFFICES ASSUME asked.topic = "inventory" PROVE InventoryIsTrue
  BY DEF InventoryIsTrue
<1> DEFINE listing == asked.listing
           declared == asked.declared
           versions == {e.version : e \in {e \in A!ToSet(listing) : e.name = "p"}}
           installed == A!InstalledVersion(listing, declared, "p")
<1>1. PICK e \in UpgradeEntries : asked.osv = <<e>>
  BY DEF InventoryAsked
<1>2. listing \in Seq([name : STRING, version : Versions])
  BY VersionsAssumption DEF InventoryAsked
<1>3. \A i \in 1..Len(listing) :
        listing[i].name = "p" => listing[i].version \in versions
  BY <1>2 DEF A!ToSet
<1>4. ASSUME NEW v \in versions
      PROVE  \E i \in 1..Len(listing) : listing[i].name = "p" /\ listing[i].version = v
  BY <1>2 DEF A!ToSet
<1> HIDE DEF versions
<1>5. ASSUME \A v, w \in versions : v = w, NEW i \in 1..Len(listing), listing[i].name = "p"
      PROVE  installed = listing[i].version /\ installed \in versions
  <2>1. PICK k \in 1..Len(listing) : listing[k].name = "p" /\ installed = listing[k].version
    BY <1>2, <1>5, InstalledIs
  <2> HIDE DEF installed
  <2> QED
    BY <1>3, <1>5, <2>1
<1>6. ASSUME \A v, w \in versions : v = w
      PROVE  VulnerableCopyIsFound
  <2>1. SUFFICES ASSUME NEW i \in 1..Len(listing), listing[i].name = "p",
                        ~A!Prerelease(listing[i].version),
                        A!Affected(listing[i].version, e)
                 PROVE  A!Matched(listing, declared, "p", A!LookupCve(asked.osv, <<>>))
    BY <1>1 DEF VulnerableCopyIsFound
  <2>2. listing[i].version \in Versions
    <3>1. listing[i] \in [name : STRING, version : Versions]
      BY <1>2, ElementOfSeq
    <3> QED
      BY <3>1
  <2>3. installed = listing[i].version
    BY <1>5, <1>6, <2>1
  <2>4. A!Match(installed, A!LookupCve(<<e>>, <<>>)) # 0
    BY <2>1, <2>2, <2>3, MatchAnswer
  <2>5. installed # A!NoVersion
    BY <2>2, <2>3, AreVersions, Parts
  <2> QED
    BY <1>1, <2>4, <2>5 DEF A!Matched
<1>7. ASSUME \A v, w \in versions : v = w, versions # {}
      PROVE  A!Drifted(listing, declared, "p", asked.version)
               <=> asked.version \notin versions
  <2>1. PICK v \in versions : TRUE
    BY <1>7
  <2>2. PICK i \in 1..Len(listing) : listing[i].name = "p" /\ listing[i].version = v
    BY <1>4
  <2>3. installed = v
    BY <1>5, <1>7, <2>2
  <2>4. v \in Versions
    <3>1. listing[i] \in [name : STRING, version : Versions]
      BY <1>2, ElementOfSeq
    <3> QED
      BY <2>2, <3>1
  <2>5. v # A!NoVersion
    BY <2>4, AreVersions, Parts
  <2>6. versions = {v}
    BY <1>7
  <2> QED
    BY <2>3, <2>5, <2>6 DEF A!Drifted
<1> QED
  BY <1>6, <1>7 DEF InventoryIsTrue, versions

-----------------------------------------------------------------------------

\* Whatever the versions, advisories, listings and patches are: an affected release
\* is found, and the fix, the recommendation and the upgrade that retires a patch
\* lead out of the affected range; only when OSV names no fix and the floor is
\* GitHub's may the fix be an affected prerelease (resolveSafeUpgradeVersion).
THEOREM UpgradesAreSafe == AskSpec => []UpgradeIsSafe
<1>1. WellAsked => UpgradeIsSafe
  BY InventoryAnswer, FixAnswer, RecommendationAnswer, RetirementAnswer
  DEF WellAsked, UpgradeIsSafe
<1> QED
  BY <1>1, QuestionsAreAsked, PTL
=============================================================================
