---------------------------- MODULE StatusChecks ----------------------------
(***************************************************************************)
(* What a queued job does to a repository and what its check on GitHub     *)
(* shows of it: processJob and onJobFailed of createGitHubAppServer        *)
(* (server.ts), the default remediation handler (remediation-handler.ts),  *)
(* the installation tokens (auth.ts) and the status publisher              *)
(* (status-publisher.ts), composed with the queue and worker of JobQueue.  *)
(*                                                                         *)
(* processJob awaits its own requests, so they reach GitHub in order.  The *)
(* "queued" check of a delivery and the check of a final failure are sent  *)
(* by tasks that nobody awaits: they are `pending` and arrive at any time. *)
(*                                                                         *)
(* A delivery stands for its head commit; distinct deliveries have         *)
(* distinct ones.  Failing writes of the queue file are JobQueue's subject *)
(* and left out here, and so is the scan itself (ScanRun): it ends ok,     *)
(* partial, failed or with an exception.                                   *)
(***************************************************************************)
EXTENDS Integers, Sequences, FiniteSets

CONSTANTS
  Commits,   \* deliveries of check_suite and push: they carry a commit
  Branches,  \* deliveries of workflow_dispatch: they carry a branch
  Checks,    \* deliveries of check_run, for the healer
  Ticks,     \* jobs of the scheduler: no repository, no installation
  NoKey, MaxJobs, MaxAttempts, Concurrency, MaxFaults,
  MaxLeaks,  \* bound: checkouts that a failing git or rm leaves behind
  Setups     \* deployments: [credentials, handler], see below

VARIABLES
  job, ready, delayed, file, inFlight, handlers, phase, created, faults,
  starts, succeeded, accepted,  \* the queue, see JobQueue
  credentials, \* appId and privateKey are configured
  handler,     \* who built the jobs' handler: "none", "server", "embedder"
  stage,       \* job -> the next step of its handler
  token,       \* job -> its handler has an installation token
  tree,        \* job -> what its handler works on
  outcome,     \* job -> what its handler is about to report
  dirs,        \* temporary checkouts on disk: <<job, attempt>>
  broken,      \* history: those of attempts whose fallback failed in turn
  undeleted,   \* history: those that could not be removed
  pending,     \* requests of tasks that nobody awaits: <<check, delivery>>
  shown,       \* delivery -> the newest check of its commit on GitHub
  late,        \* history: deliveries whose newest check was sent unawaited and
               \* arrived after a check of something later
  lost         \* history: deliveries of which a request or token failed

queueVars == <<job, ready, delayed, file, inFlight, handlers, phase, created,
               faults, starts, succeeded, accepted>>
setupVars == <<credentials, handler>>
dirVars == <<dirs, broken, undeleted>>
handlerVars == <<stage, token, tree, outcome, dirVars>>
checkVars == <<pending, shown, late, lost>>
vars == <<queueVars, setupVars, handlerVars, checkVars>>

Keys == Commits \cup Branches \cup Checks \cup Ticks
FileBacked == TRUE
WriteFaults == {}

Queue == INSTANCE JobQueue

\* What the queue assumes, and that the kinds of delivery are distinct.
ASSUME ChecksAssumption ==
  /\ NoKey \notin Keys
  /\ MaxJobs \in Nat /\ MaxFaults \in Nat /\ MaxLeaks \in Nat
  /\ MaxAttempts \in Nat \ {0} /\ Concurrency \in Nat \ {0}
  /\ Commits \cap (Branches \cup Checks \cup Ticks) = {}
  /\ Branches \cap (Checks \cup Ticks) = {}
  /\ Checks \cap Ticks = {}

\* createGitHubAppServer builds a handler only with credentials, and only when
\* told to; an embedder may pass the exported default handler, with a client
\* factory of its own, as onRemediationRequested.
ASSUME SetupsAssumption ==
  /\ Setups \subseteq [credentials : BOOLEAN,
                       handler : {"none", "server", "embedder"}]
  /\ \A s \in Setups : s.handler = "server" => s.credentials

JobIds == 1..MaxJobs
Stages == {"none", "token", "announce", "configure", "heal", "checkout",
           "audit", "scan", "report", "resolve", "reject"}
KeyOf(j) == job[j].key

\* readRemediationStatusTarget: only check_suite and push payloads carry the
\* repository and a head commit.
HasTarget(k) == k \in Commits

\* The installation of a webhook's job, and its repository; scheduled jobs have
\* neither.
HasInstallation(k) == k \notin Ticks
HasRepository(k) == k \notin Ticks

Conclusion(result) ==
  CASE result = "success" -> "success"
    [] result = "partial" -> "neutral"
    [] OTHER -> "failure"

Verdicts == {"success", "neutral", "failure"}

-----------------------------------------------------------------------------
(* Tokens and checks *)

\* publishSafely with publishCheck: checks.create makes a new check of the same
\* name, and a request that fails is only traced.
Publish(k, check, isLate) ==
  \/ /\ shown' = [shown EXCEPT ![k] = check]
     /\ late' = IF isLate THEN late \cup {k} ELSE late \ {k}
     /\ UNCHANGED lost
  \/ lost' = lost \cup {k} /\ UNCHANGED <<shown, late>>

\* Without a target or a token nothing is sent.
PublishIfPossible(j, check) ==
  IF HasTarget(KeyOf(j)) /\ token[j] THEN Publish(KeyOf(j), check, FALSE)
  ELSE UNCHANGED <<shown, late, lost>>

\* What the request reports has been overtaken: the delivery's job has started,
\* or another job followed the one that failed.
Overtaken(check, k) ==
  IF check = "queued" THEN shown[k] # "none"
  ELSE \E j \in JobIds : KeyOf(j) = k /\ job[j].status \notin {"none", "failed"}

\* A request of a task that nobody awaits gets its token and is sent.
Arrive(check, k) ==
  /\ <<check, k>> \in pending
  /\ pending' = pending \ {<<check, k>>}
  /\ Publish(k, check, Overtaken(check, k))
  /\ UNCHANGED <<queueVars, setupVars, handlerVars>>

Announced(k) ==
  pending' = IF HasTarget(k) /\ credentials THEN pending \cup {<<"queued", k>>}
             ELSE pending

\* onRemediationRequested: the job is queued, its check is announced.
Request(k) ==
  /\ Queue!EnqueueNew(k, "ok") \/ Queue!EnqueueDuplicate(k, "ok")
  /\ Announced(k)
  /\ UNCHANGED <<setupVars, handlerVars, shown, late, lost>>

-----------------------------------------------------------------------------
(* The handler of a job, step by step *)

At(j, step) == j \in handlers /\ stage[j] = step

GoTo(j, step) == stage' = [stage EXCEPT ![j] = step]

\* The worker claims due jobs and calls processJob for each.
Start ==
  /\ Queue!Poll
  /\ stage' = [j \in JobIds |-> IF j \in handlers' \ handlers THEN "token"
                                ELSE stage[j]]
  /\ UNCHANGED <<setupVars, token, tree, outcome, dirVars, checkVars>>

\* Without a handler processJob throws.  Else it asks for the token of the job's
\* installation; a request that fails fails the attempt.
Token(j) ==
  /\ At(j, "token")
  /\ \/ /\ handler = "none"
        /\ GoTo(j, "reject")
        /\ UNCHANGED <<token, lost>>
     \/ /\ handler # "none" /\ HasInstallation(KeyOf(j)) /\ credentials
        /\ \/ /\ token' = [token EXCEPT ![j] = TRUE]
              /\ GoTo(j, "announce")
              /\ UNCHANGED lost
           \/ /\ GoTo(j, "reject")
              /\ lost' = lost \cup {KeyOf(j)}
              /\ UNCHANGED token
     \/ /\ handler # "none" /\ ~(HasInstallation(KeyOf(j)) /\ credentials)
        /\ GoTo(j, "announce")
        /\ UNCHANGED <<token, lost>>
  /\ UNCHANGED <<queueVars, setupVars, tree, outcome, dirVars, pending, shown,
                 late>>

Announce(j) ==
  /\ At(j, "announce")
  /\ PublishIfPossible(j, "in_progress")
  /\ GoTo(j, "configure")
  /\ UNCHANGED <<queueVars, setupVars, token, tree, outcome, dirVars, pending>>

\* The client, which the server's own factory makes of the installation's token
\* and so never for a scheduled job, and the repository's configuration, which
\* falls back to the defaults.
Configure(j) ==
  /\ At(j, "configure")
  /\ \/ /\ HasInstallation(KeyOf(j)) \/ handler = "embedder"
        /\ GoTo(j, IF KeyOf(j) \in Checks THEN "heal" ELSE "checkout")
     \/ GoTo(j, "reject")
  /\ UNCHANGED <<queueVars, setupVars, token, tree, outcome, dirVars,
                 checkVars>>

\* healPullRequest (PrHealer): healed or not; a check without a pull request of
\* ours, or a repository without healing, counts as success.
Heal(j) ==
  /\ At(j, "heal")
  /\ \/ /\ \E result \in {"success", "failed"} :
              outcome' = [outcome EXCEPT ![j] = result]
        /\ GoTo(j, "report")
     \/ GoTo(j, "reject") /\ UNCHANGED outcome
  /\ UNCHANGED <<queueVars, setupVars, token, tree, dirVars, checkVars>>

Dir(j) == <<j, job[j].attempts>>

Found(j, what) == tree' = [tree EXCEPT ![j] = what]

\* The attempt's temporary directory is made, or none is.
MakesDir(j) == dirs' = dirs \cup {Dir(j)} /\ UNCHANGED undeleted

MayLeak == Cardinality(broken \cup undeleted) < MaxLeaks

\* cleanupCheckout: a removal that fails is swallowed.
Removes(j) ==
  \/ dirs' = dirs \ {Dir(j)} /\ UNCHANGED undeleted
  \/ /\ Dir(j) \in dirs /\ MayLeak
     /\ undeleted' = undeleted \cup {Dir(j)}
     /\ UNCHANGED dirs

FallbackAlways(j) == TRUE  \* mutant: whatever made the clone fail
FallbackAllowed(j) == ~token[j]

\* A clone, which git refuses for a commit in place of a branch.
Clone(j) ==
  /\ KeyOf(j) \notin Commits
  /\ Found(j, "clone") /\ MakesDir(j) /\ GoTo(j, "audit")
  /\ UNCHANGED broken

\* The clone failed and an empty repository stands in for it; or its git fails
\* as well, outside of the `try` that cleans up.
Fallback(j) ==
  /\ FallbackAllowed(j)
  /\ MakesDir(j)
  /\ \/ Found(j, "empty") /\ GoTo(j, "audit") /\ UNCHANGED broken
     \/ /\ MayLeak
        /\ Found(j, "none") /\ GoTo(j, "reject")
        /\ broken' = broken \cup {Dir(j)}

\* No directory could be made; or the clone failed with a token, and its
\* directory is removed at once.
GiveUp(j) ==
  /\ Found(j, "none") /\ GoTo(j, "reject")
  /\ \/ UNCHANGED <<dirs, undeleted>>
     \/ /\ ~FallbackAllowed(j) /\ MayLeak
        /\ dirs' = dirs \cup {Dir(j)}
        /\ undeleted' = undeleted \cup {Dir(j)}
  /\ UNCHANGED broken

\* The working directory of the job: the configured one, or a checkout of its
\* repository.
CheckOut(j) ==
  /\ At(j, "checkout")
  /\ \/ Found(j, "configured") /\ GoTo(j, "audit") /\ UNCHANGED dirVars
     \/ HasRepository(KeyOf(j)) /\ (Clone(j) \/ Fallback(j) \/ GiveUp(j))
  /\ UNCHANGED <<queueVars, setupVars, token, outcome, checkVars>>

\* The handler ends with a result or an exception; `finally` cleans up.
\* mutant: only a result cleans up, an exception does not
CleanedUpOnReturn(j) ==
  IF stage'[j] = "reject" THEN UNCHANGED dirVars
  ELSE Removes(j) /\ UNCHANGED broken
CleanedUp(j) == Removes(j) /\ UNCHANGED broken

Returns(j, result) ==
  /\ outcome' = [outcome EXCEPT ![j] = result]
  /\ GoTo(j, "report")

Throws(j) == GoTo(j, "reject") /\ UNCHANGED outcome

AnyTree(j) == TRUE  \* mutant: an audit without findings is good news
Auditable(j) == tree[j] # "empty"

\* collectAuditFindings and the severity filter.  In an empty repository the
\* audit command fails without findings, which is an error.
Audit(j) ==
  /\ At(j, "audit")
  /\ \/ Auditable(j) /\ GoTo(j, "scan") /\ UNCHANGED <<outcome, dirVars>>
     \/ Auditable(j) /\ Returns(j, "success") /\ CleanedUp(j)
     \/ Throws(j) /\ CleanedUp(j)
  /\ UNCHANGED <<queueVars, setupVars, token, tree, checkVars>>

\* remediateFromScan and toRemediationJobResult.
Scan(j) ==
  /\ At(j, "scan")
  /\ \/ \E result \in {"success", "partial", "failed"} : Returns(j, result)
     \/ Throws(j)
  /\ CleanedUp(j)
  /\ UNCHANGED <<queueVars, setupVars, token, tree, checkVars>>

\* The verdict is published; a failed result then becomes an exception.
Report(j) ==
  /\ At(j, "report")
  /\ PublishIfPossible(j, Conclusion(outcome[j]))
  /\ GoTo(j, IF outcome[j] = "failed" THEN "reject" ELSE "resolve")
  /\ UNCHANGED <<queueVars, setupVars, token, tree, outcome, dirVars, pending>>

\* Nothing of the attempt is left in memory.
Forget(js) ==
  /\ stage' = [j \in JobIds |-> IF j \in js THEN "none" ELSE stage[j]]
  /\ token' = [j \in JobIds |-> IF j \in js THEN FALSE ELSE token[j]]
  /\ tree' = [j \in JobIds |-> IF j \in js THEN "none" ELSE tree[j]]
  /\ outcome' = [j \in JobIds |-> IF j \in js THEN "success" ELSE outcome[j]]

SlotLeaks(j) == FALSE  \* mutant: an ended handler is not settled
Settles(j) == At(j, "reject")

Resolve(j) ==
  /\ At(j, "resolve")
  /\ Queue!Complete(j)
  /\ Forget({j})
  /\ UNCHANGED <<setupVars, dirVars, checkVars>>

RetryToo(j) == job'[j].status = "queued"  \* mutant: the other branch
FinalFailure(j) == job'[j].status = "failed"

\* failJob, and onJobFailed with the job it returns.
Reject(j) ==
  /\ Settles(j)
  /\ Queue!Fail(j)
  /\ Forget({j})
  /\ pending' = IF FinalFailure(j) /\ HasTarget(KeyOf(j)) /\ credentials
                THEN pending \cup {<<"failure", KeyOf(j)>>} ELSE pending
  /\ UNCHANGED <<setupVars, dirVars, shown, late, lost>>

-----------------------------------------------------------------------------
(* Time and the process *)

Elapse ==
  Queue!Elapse /\ UNCHANGED <<setupVars, handlerVars, checkVars>>

\* The process dies: its handlers and tasks are gone, its temporary directories
\* are not.
Crash ==
  /\ Queue!Crash("error")
  /\ Forget(JobIds)
  /\ pending' = {}
  /\ UNCHANGED <<setupVars, dirVars, shown, late, lost>>

Restart ==
  Queue!Restart /\ UNCHANGED <<setupVars, handlerVars, checkVars>>

Init ==
  /\ Queue!Init
  /\ \E s \in Setups : credentials = s.credentials /\ handler = s.handler
  /\ stage = [j \in JobIds |-> "none"]
  /\ token = [j \in JobIds |-> FALSE]
  /\ tree = [j \in JobIds |-> "none"]
  /\ outcome = [j \in JobIds |-> "success"]
  /\ dirs = {} /\ broken = {} /\ undeleted = {}
  /\ pending = {}
  /\ shown = [k \in Keys |-> "none"]
  /\ late = {}
  /\ lost = {}

Step(j) ==
  \/ Token(j)
  \/ Announce(j)
  \/ Configure(j)
  \/ Heal(j)
  \/ CheckOut(j)
  \/ Audit(j)
  \/ Scan(j)
  \/ Report(j)
  \/ Resolve(j)
  \/ Reject(j)

Next ==
  \/ \E k \in Keys : Request(k)
  \/ Start
  \/ \E j \in JobIds : Step(j)
  \/ \E check \in {"queued", "failure"}, k \in Commits : Arrive(check, k)
  \/ Elapse
  \/ Crash
  \/ Restart

Spec == Init /\ [][Next]_vars

\* Timers fire and requests are answered.  git and the audit command run
\* without a timeout: their steps are fair only as long as they do not hang.
MayHang(j) == stage[j] \in {"checkout", "audit", "scan"}

Fairness ==
  /\ WF_vars(Start)
  /\ WF_vars(Elapse)
  /\ WF_vars(Restart)
  /\ \A j \in JobIds : WF_vars(~MayHang(j) /\ Step(j))
  /\ \A check \in {"queued", "failure"}, k \in Commits : WF_vars(Arrive(check, k))

FairSpec == Spec /\ Fairness

-----------------------------------------------------------------------------
(* Properties *)

Shown == {"none", "queued", "in_progress"} \cup Verdicts

\* Type invariant of the handlers and the checks.
TypeOK ==
  /\ [credentials |-> credentials, handler |-> handler] \in Setups
  /\ stage \in [JobIds -> Stages]
  /\ token \in [JobIds -> BOOLEAN]
  /\ tree \in [JobIds -> {"none", "clone", "empty", "configured"}]
  /\ outcome \in [JobIds -> {"success", "partial", "failed"}]
  /\ dirs \cup broken \cup undeleted \subseteq JobIds \X (1..MaxAttempts)
  /\ pending \subseteq {"queued", "failure"} \X Commits
  /\ shown \in [Keys -> Shown]
  /\ late \subseteq Commits /\ lost \subseteq Keys

VerdictOf(status) == IF status = "completed" THEN {"success", "neutral"}
                     ELSE {"failure"}

\* The last job of a delivery has come to its end, all its requests have
\* arrived, and nothing went wrong on the way.
Settled(j) ==
  /\ phase = "up" /\ faults = 0 /\ credentials
  /\ job[j].status \in Queue!Terminal
  /\ \A i \in JobIds : i > j => KeyOf(i) # KeyOf(j)
  /\ KeyOf(j) \notin lost
  /\ \A request \in pending : request[2] # KeyOf(j)

\* In the end the check shows what became of the job, after all the retries
\* that each published a verdict of their own.  The exception is a check that
\* was sent unawaited and came late: it stays on top.
FinalCheckIsTrue ==
  /\ TypeOK
  /\ \A j \in JobIds :
     Settled(j) /\ HasTarget(KeyOf(j)) =>
        \/ shown[KeyOf(j)] \in VerdictOf(job[j].status)
        \/ KeyOf(j) \in late

\* A job that becomes completed has healed a check run, or audited a clone or
\* the directory that is configured (whatever that holds, and jobs may share
\* it), never the empty repository that stands in for a failed clone.  A server
\* with app credentials uses no stand-in at all: not after a token request that
\* failed, not for a scheduled job, and whoever built the handler.
SuccessSawRepository ==
  /\ [][\A j \in succeeded' \ succeeded :
          KeyOf(j) \in Checks \/ tree[j] \in {"clone", "configured"}]_vars
  /\ [](\A j \in JobIds : credentials => tree[j] # "empty")

\* While no process died, a temporary checkout belongs to a running handler.
\* The exceptions are single directories: one that could not be removed, and
\* one whose fallback itself failed, which needs a server without credentials.
CheckoutsAreCleaned ==
  faults = 0 =>
    \A d \in dirs : \/ d[1] \in handlers /\ Dir(d[1]) = d
                    \/ d \in undeleted
                    \/ d \in broken /\ ~credentials

\* A check does not stay in progress: as long as no child process hangs, no
\* process dies and no request fails, a verdict (or a late "queued") follows.
ChecksSettle ==
  (\A j \in JobIds : []<>~MayHang(j)) =>
    \A k \in Commits :
       shown[k] = "in_progress" ~>
         (shown[k] # "in_progress" \/ k \in lost \/ faults > 0)

=============================================================================
