------------------------------- MODULE SdkJobs -------------------------------
(***************************************************************************)
(* What the asynchronous jobs of one process do: calls of remediate, of    *)
(* remediateFromScan and of remediatePortfolio (api/), which share the     *)
(* index of stored reports (platform/idempotency.ts), composed with the    *)
(* registry of JobRegistry.  All calls carry one idempotency key.          *)
(*                                                                         *)
(* A scan is a loop over CVEs and a portfolio a loop over projects; both   *)
(* catch what one turn throws and go on.  A call is therefore a sequence   *)
(* of remediations.  The remediation itself is the subject of ScanRun and  *)
(* RepoMutation: here it ends with a report or throws.  A report is        *)
(* reduced to the project that it is about.                                *)
(***************************************************************************)
EXTENDS JobRegistry, Sequences

CONSTANTS
  Projects,   \* directories
  Cves,
  CallOf,     \* job -> its call: kind, targets, campaign, resume, dryRun
  Tracked,    \* what projects may have an index file to begin with
  MaxMishaps  \* bound: failed writes, and index files lost or spoiled

VARIABLES
  memory,   \* the object DEFAULT_INDEX of the process: CVE -> report
  disk,     \* project -> its index file
  over,     \* job -> the turns of its call that are over
  busy,     \* job -> a remediation is under way
  threw,    \* jobs of which a remediation threw
  mishaps,
  stored,     \* history: <<project, CVE>> whose report reached the file
  unreadable, \* history: projects whose index was asked for and not readable
  spoiled     \* history: projects whose index file was lost or spoiled

indexVars == <<memory, disk>>
callVars == <<over, busy, threw>>
history == <<stored, unreadable, spoiled>>
allVars == <<vars, indexVars, callVars, mishaps, history>>

Targets == [cwd : Projects, cves : Seq(Cves), risk : Nat]

ASSUME CallsAssumption ==
  /\ Tracked \subseteq SUBSET Projects
  /\ MaxMishaps \in Nat
  /\ \A j \in Ids :
       /\ CallOf[j].kind \in {"remediate", "scan", "portfolio"}
       /\ CallOf[j].targets \in Seq(Targets)
       /\ CallOf[j].campaign \in BOOLEAN
       /\ CallOf[j].resume \in BOOLEAN /\ CallOf[j].dryRun \in BOOLEAN
       /\ CallOf[j].kind = "remediate" =>
            Len(CallOf[j].targets) = 1 /\ Len(CallOf[j].targets[1].cves) = 1

-----------------------------------------------------------------------------
(* The remediations of a call, in order *)

\* The turns of its loops, <<target, CVE>> by their places.
Turns(j) ==
  LET targets == CallOf[j].targets
  IN UNION {{<<i, k>> : k \in 1..Len(targets[i].cves)} : i \in 1..Len(targets)}
Item(j, turn) ==
  LET target == CallOf[j].targets[turn[1]]
  IN [cwd |-> target.cwd, cve |-> target.cves[turn[2]]]

\* rankPortfolioTargets: the highest score first, equal ones as given.
Ranked(j, i, h) ==
  LET risk(n) == CallOf[j].targets[n].risk
  IN IF CallOf[j].campaign /\ risk(i) # risk(h) THEN risk(i) > risk(h) ELSE i < h
Precedes(j, s, t) == IF s[1] = t[1] THEN s[2] < t[2] ELSE Ranked(j, s[1], t[1])

Left(j) == Turns(j) \ over[j]
Due(j) == {t \in Left(j) : \A s \in Left(j) \ {t} : Precedes(j, t, s)}

-----------------------------------------------------------------------------
(* The index *)

NoReport == "none"
ASSUME ReportAssumption == NoReport \notin Projects

Empty == [c \in Cves |-> NoReport]
File(reports) == [state |-> "ok", reports |-> reports]
Without(state) == [state |-> state, reports |-> Empty]
Readable(p) == disk[p].state = "ok"

\* mutant: a file that the object was filled before is not read
ObjectOnceUsed(p) ==
  IF Readable(p) /\ memory = Empty THEN disk[p].reports ELSE memory
Asked(p) == unreadable' = IF Readable(p) THEN unreadable ELSE unreadable \cup {p}

\* loadIndex.  What it returns without a readable file is the object itself.
Index(p) == IF Readable(p) THEN disk[p].reports ELSE memory

\* storeIdempotentReport changes what loadIndex returned and writes it.  The
\* write may throw, and remediate with it.
Store(j, item) ==
  LET index == [Index(item.cwd) EXCEPT ![item.cve] = item.cwd] IN
  /\ Asked(item.cwd)
  /\ memory' = IF Readable(item.cwd) THEN memory ELSE index
  /\ \/ /\ disk' = [disk EXCEPT ![item.cwd] = File(index)]
        /\ stored' = stored \cup {<<item.cwd, item.cve>>}
        /\ UNCHANGED <<threw, mishaps>>
     \/ /\ mishaps < MaxMishaps
        /\ mishaps' = mishaps + 1
        /\ threw' = threw \cup {j}
        /\ UNCHANGED <<disk, stored>>

-----------------------------------------------------------------------------
(* The calls *)

SubmitCall == Submit /\ UNCHANGED <<indexVars, callVars, mishaps, history>>
StartCall(j) == Start(j) /\ UNCHANGED <<indexVars, callVars, mishaps, history>>

MayGoOn(j) ==
  /\ object[j].status = "running"
  /\ ~busy[j]

\* remediate up to its first await.  Of a stored report it makes its result,
\* whatever the report says.
Begin(j, turn) ==
  LET item == Item(j, turn)
      found == Index(item.cwd)[item.cve] IN
  /\ MayGoOn(j)
  /\ Asked(item.cwd)
  /\ IF CallOf[j].resume /\ found # NoReport
     THEN /\ over' = [over EXCEPT ![j] = @ \cup {turn}]
          /\ UNCHANGED busy
     ELSE /\ busy' = [busy EXCEPT ![j] = TRUE]
          /\ UNCHANGED over
  /\ UNCHANGED <<vars, indexVars, threw, mishaps, stored, spoiled>>

\* The rest of it.  A pipeline or a change request that throws leaves nothing
\* in the index; a dry run neither.
Settle(j, turn) ==
  /\ busy[j]
  /\ busy' = [busy EXCEPT ![j] = FALSE]
  /\ over' = [over EXCEPT ![j] = @ \cup {turn}]
  /\ \/ /\ threw' = threw \cup {j}
        /\ UNCHANGED <<indexVars, mishaps, stored, unreadable>>
     \/ /\ CallOf[j].dryRun
        /\ UNCHANGED <<indexVars, threw, mishaps, stored, unreadable>>
     \/ ~CallOf[j].dryRun /\ Store(j, Item(j, turn))
  /\ UNCHANGED <<vars, spoiled>>

\* A portfolio without targets is refused; only a single remediation passes
\* on what it throws.
Outcome(j) ==
  IF \/ CallOf[j].kind = "portfolio" /\ CallOf[j].targets = <<>>
     \/ CallOf[j].kind = "remediate" /\ j \in threw
  THEN "failed" ELSE "done"

Finish(j) ==
  /\ object[j].status = "running" /\ ~busy[j]
  /\ Left(j) = {}
  /\ End(j, Outcome(j))
  /\ UNCHANGED <<indexVars, callVars, mishaps, history>>

\* The other operations of the registry, which no call notices.
Forget ==
  /\ \/ \E j \in Ids : Poll(j)
     \/ Prune
     \/ \E c \in Capacities : SetMaxCapacity(c)
     \/ \E t \in Ttls : SetTtl(t)
     \/ Tick
  /\ UNCHANGED <<indexVars, callVars, mishaps, history>>

\* The file goes with a checkout or a clean of the working copy, or is cut off.
Lose(p, state) ==
  /\ mishaps < MaxMishaps
  /\ Readable(p)
  /\ mishaps' = mishaps + 1
  /\ disk' = [disk EXCEPT ![p] = Without(state)]
  /\ spoiled' = spoiled \cup {p}
  /\ UNCHANGED <<vars, memory, callVars, stored, unreadable>>

CallsInit ==
  /\ Init
  /\ memory = Empty
  /\ \E tracked \in Tracked :
       disk = [p \in Projects |-> IF p \in tracked THEN File(Empty)
                                 ELSE Without("absent")]
  /\ over = [j \in Ids |-> {}]
  /\ busy = [j \in Ids |-> FALSE]
  /\ threw = {}
  /\ mishaps = 0
  /\ stored = {} /\ unreadable = {} /\ spoiled = {}

CallsNext ==
  \/ SubmitCall
  \/ \E j \in Ids : StartCall(j) \/ Finish(j)
  \/ \E j \in Ids : \E turn \in Due(j) : Begin(j, turn) \/ Settle(j, turn)
  \/ Forget
  \/ \E p \in Projects, state \in {"absent", "broken"} : Lose(p, state)

CallsSpec == CallsInit /\ [][CallsNext]_allVars

-----------------------------------------------------------------------------
(* Properties *)

Begins(j) == ~busy[j] /\ busy'[j]
Resumes(j) == ~busy[j] /\ over'[j] # over[j]

\* What a resuming call may do: see ResumeIsSound.
IsSound(j) ==
  \A turn \in Due(j) :
    LET item == Item(j, turn) IN
    /\ Begins(j) => <<item.cwd, item.cve>> \notin stored \/ item.cwd \in spoiled
    /\ Resumes(j) => \/ Index(item.cwd)[item.cve] = item.cwd
                     \/ item.cwd \in unreadable'

\* Of calls that overlap or follow one another, a resuming one does no work
\* again whose report was stored before it began, unless the project's index
\* was lost since; and it takes another project's report for its own only in a
\* project whose own index could not be read at some time (api/remediate
\* remediate, platform/idempotency.ts loadIndex).
ResumeIsSound ==
  [][\A j \in Ids : CallOf[j].resume => IsSound(j)]_allVars

=============================================================================
