------------------------------ MODULE PrHealer ------------------------------
(***************************************************************************)
(* The auto-healing of one pull request: the check_run branch of the       *)
(* remediation handler (remediation-handler.ts) and healPullRequest        *)
(* (healing/pr-healer.ts), run by the worker of JobQueue for every failing *)
(* check run that GitHub delivers, with developers pushing to the same     *)
(* branch and GitHub's API failing.                                        *)
(*                                                                         *)
(* Every await of the healer is a step here, so the handlers of two check  *)
(* runs interleave.  The attempts of a pull request live in the memory of  *)
(* the process.  Pull requests share nothing but the queue, so one is      *)
(* enough.  The queue's file is writable here; JobQueue has it fail.       *)
(***************************************************************************)
EXTENDS Integers, Sequences, FiniteSets

CONSTANTS
  Keys,          \* delivery ids of failing check runs
  NoKey, MaxJobs, MaxAttempts, Concurrency, FileBacked, WriteFaults, MaxFaults,
  Files,         \* files of the branch
  FilesOf,       \* delivery -> the files its diagnostics name
  Repairable,    \* files whose diagnostics some heuristic can repair
  OnPr,          \* deliveries that carry a pull request of autoremediator
  Edits,         \* pushes by developers
  Repair,        \* what a healing commit adds to a file
  Asked,         \* enablePrAutoHealing in the repository's YAML file
  Provided,      \* whether a repoConfigProvider supplies that file's settings
  MaxHeals,      \* maxHealingAttempts
  MaxApiFaults   \* bound: failing calls of GitHub's API

ASSUME HealerAssumption ==
  /\ FilesOf \in [Keys -> SUBSET Files]
  /\ Repairable \subseteq Files
  /\ OnPr \subseteq Keys
  /\ Repair \notin Edits
  /\ Asked \in BOOLEAN /\ Provided \in BOOLEAN
  /\ MaxHeals \in Nat \ {0}
  /\ MaxApiFaults \in Nat
  /\ NoKey \notin Keys
  /\ MaxJobs \in Nat /\ MaxFaults \in Nat
  /\ MaxAttempts \in Nat \ {0} /\ Concurrency \in Nat \ {0}
  /\ FileBacked \in BOOLEAN /\ WriteFaults \subseteq {"error", "torn"}

VARIABLES
  job, ready, delayed, file, inFlight, handlers, phase, created, faults,
  starts, succeeded, accepted,  \* the queue, see JobQueue
  attempts,   \* ATTEMPTS_MAP: healing attempts of the pull request
  work,       \* job -> what its handler is doing
  branch,     \* file -> the edits its content on the branch contains
  apiFaults,  \* calls that failed so far
  answered,   \* history: the jobs that pushed a healing commit or had the
              \* needs-human-review label added
  silent,     \* history: job -> attempts whose report, or whose token, failed
  committed   \* history: <<job, attempt>> that pushed in this process

queueVars == <<job, ready, delayed, file, inFlight, handlers, phase, created,
               faults, starts, succeeded, accepted>>
healVars == <<attempts, work, branch, apiFaults, answered, silent, committed>>
vars == <<queueVars, healVars>>

Queue == INSTANCE JobQueue

Steps == {"start", "files", "write", "comment", "label"}
NoFile == "none"

\* A handler that has not reached healPullRequest.
Fresh == [at |-> "start", attempt |-> 0, todo |-> {}, target |-> NoFile,
          read |-> {}, healed |-> FALSE]

ApiCanFail == apiFaults < MaxApiFaults
CountApiFault == apiFaults' = apiFaults + 1

At(j, step) == j \in handlers /\ work[j].at = step

\* fetchRepoConfig drops both healing settings; the default is off.
Enabled == Provided /\ Asked

\* The pull request hears nothing of this attempt.
StaySilent(j) ==
  ApiCanFail /\ CountApiFault /\ silent' = [silent EXCEPT ![j] = @ + 1]

\* The job ended one way or the other.
Healed(j) == Queue!Complete(j) /\ work' = [work EXCEPT ![j] = Fresh]
NotHealed(j) == Queue!Fail(j) /\ work' = [work EXCEPT ![j] = Fresh]

-----------------------------------------------------------------------------
(* The check_run branch of the handler *)

\* Nothing to heal: no pull request of autoremediator, or healing is off.
Skip(j) ==
  /\ At(j, "start")
  /\ job[j].key \notin OnPr \/ ~Enabled
  /\ Healed(j)
  /\ UNCHANGED <<attempts, branch, apiFaults, answered, silent, committed>>

\* The installation's token or the configuration cannot be fetched.
Reject(j) ==
  /\ At(j, "start")
  /\ StaySilent(j)
  /\ NotHealed(j)
  /\ UNCHANGED <<attempts, branch, answered, committed>>

LimitReached == attempts >= MaxHeals

NextAttemptStuck == 1  \* mutant: the count is not carried on
NextAttempt == attempts + 1

\* healPullRequest up to its first await: the limit is checked and the attempt
\* counted at once.
Enter(j) ==
  LET todo == FilesOf[job[j].key]
  IN  /\ At(j, "start")
      /\ job[j].key \in OnPr /\ Enabled
      /\ IF LimitReached
         THEN /\ work' = [work EXCEPT ![j].at = "comment"]
              /\ UNCHANGED attempts
         ELSE /\ attempts' = NextAttempt
              /\ work' = [work EXCEPT
                   ![j].at = IF todo = {} THEN "comment" ELSE "files",
                   ![j].attempt = attempts',
                   ![j].todo = todo]
      /\ UNCHANGED <<queueVars, branch, apiFaults, answered, silent, committed>>

-----------------------------------------------------------------------------
(* The repair of one file *)

\* The handler is done with file f.
Without(w, f) ==
  [w EXCEPT !.todo = @ \ {f}, !.target = NoFile, !.read = {},
            !.at = IF w.todo = {f} THEN "comment" ELSE "files"]

\* repairFileContent changes a file that it knows how to repair and that does
\* not contain the repair yet.
Repairs(f) == f \in Repairable /\ Repair \notin branch[f]

\* getContent of the next file; a file that is not repaired is left alone.
ReadFile(j, f) ==
  /\ At(j, "files")
  /\ f \in work[j].todo
  /\ work' = [work EXCEPT ![j] =
                IF Repairs(f)
                THEN [@ EXCEPT !.at = "write", !.target = f, !.read = branch[f]]
                ELSE Without(@, f)]
  /\ UNCHANGED <<queueVars, attempts, branch, apiFaults, answered, silent,
                 committed>>

\* getContent fails, or createOrUpdateFileContents does without an effect: the
\* file is skipped.
CallFails(j, f) ==
  /\ \/ At(j, "files") /\ f \in work[j].todo
     \/ At(j, "write") /\ f = work[j].target
  /\ ApiCanFail
  /\ CountApiFault
  /\ work' = [work EXCEPT ![j] = Without(@, f)]
  /\ UNCHANGED <<queueVars, attempts, branch, answered, silent, committed>>

ShaIgnored(j) == TRUE  \* mutant: the commit does not say what it replaces

\* GitHub accepts a write only if the file's sha is the one that was read.
ShaMatches(j) == branch[work[j].target] = work[j].read

\* createOrUpdateFileContents pushes the commit.  When the reply is lost the
\* healer takes it for an error and does not count the file.
Push(j, lost) ==
  LET f == work[j].target
  IN  /\ At(j, "write")
      /\ ShaMatches(j)
      /\ lost => ApiCanFail
      /\ apiFaults' = IF lost THEN apiFaults + 1 ELSE apiFaults
      /\ branch' = [branch EXCEPT ![f] = work[j].read \cup {Repair}]
      /\ work' = [work EXCEPT ![j] =
                    [Without(@, f) EXCEPT !.healed = work[j].healed \/ ~lost]]
      /\ committed' = committed \cup {<<j, work[j].attempt>>}
      /\ answered' = answered \cup {j}
      /\ UNCHANGED <<queueVars, attempts, silent>>

\* The file changed since it was read: GitHub refuses, the file is skipped.
Conflict(j) ==
  /\ At(j, "write")
  /\ ~ShaMatches(j)
  /\ work' = [work EXCEPT ![j] = Without(@, work[j].target)]
  /\ UNCHANGED <<queueVars, attempts, branch, apiFaults, answered, silent,
                 committed>>

-----------------------------------------------------------------------------
(* The report on the pull request *)

AnyHealed(j) == work[j].healed

\* The healing commits are announced; a failing comment is only logged.
Announce(j) ==
  /\ At(j, "comment")
  /\ AnyHealed(j)
  /\ Healed(j)
  /\ \/ UNCHANGED apiFaults
     \/ ApiCanFail /\ CountApiFault
  /\ UNCHANGED <<attempts, branch, answered, silent, committed>>

\* The limit is reached, no file is named, or none could be repaired: comment,
\* then label.  A failing comment skips the label.
Escalate(j) ==
  /\ At(j, "comment")
  /\ ~AnyHealed(j)
  /\ \/ /\ work' = [work EXCEPT ![j].at = "label"]
        /\ UNCHANGED <<queueVars, apiFaults, silent>>
     \/ StaySilent(j) /\ NotHealed(j)
  /\ UNCHANGED <<attempts, branch, answered, committed>>

LabelForgotten(j) == UNCHANGED answered  \* mutant
AddLabel(j) == answered' = answered \cup {j}

Label(j) ==
  /\ At(j, "label")
  /\ NotHealed(j)
  /\ \/ AddLabel(j) /\ UNCHANGED <<apiFaults, silent>>
     \/ StaySilent(j) /\ UNCHANGED answered
  /\ UNCHANGED <<attempts, branch, committed>>

-----------------------------------------------------------------------------
(* Around the healer *)

\* A failing check run is delivered, perhaps again.
Deliver(k) ==
  /\ Queue!EnqueueNew(k, "ok") \/ Queue!EnqueueDuplicate(k, "ok")
  /\ UNCHANGED healVars

\* The worker starts handlers, a retry falls due, the server is closed.
Work == (Queue!Poll \/ Queue!Elapse \/ Queue!Stop) /\ UNCHANGED healVars

\* A developer pushes a new edit of a file, and may undo the repair.
Develop(f, e) ==
  /\ \A g \in Files : e \notin branch[g]
  /\ \E undone \in SUBSET {Repair} :
        branch' = [branch EXCEPT ![f] = (@ \ undone) \cup {e}]
  /\ UNCHANGED <<queueVars, attempts, work, apiFaults, answered, silent, committed>>

\* The attempts are forgotten with the process.
Forget ==
  /\ attempts' = 0
  /\ work' = [j \in Queue!JobIds |-> Fresh]
  /\ committed' = {}
  /\ UNCHANGED <<branch, apiFaults, answered, silent>>

Kill == Queue!Crash("error") /\ Forget
Exit == Queue!Exit /\ Forget
Restart == Queue!Restart /\ UNCHANGED healVars

Init ==
  /\ Queue!Init
  /\ attempts = 0
  /\ work = [j \in Queue!JobIds |-> Fresh]
  /\ branch = [f \in Files |-> {}]
  /\ apiFaults = 0
  /\ answered = {}
  /\ silent = [j \in Queue!JobIds |-> 0]
  /\ committed = {}

\* The handler of job j goes on.
Handle(j) ==
  \/ Skip(j)
  \/ Reject(j)
  \/ Enter(j)
  \/ \E f \in Files : ReadFile(j, f) \/ CallFails(j, f)
  \/ \E lost \in BOOLEAN : Push(j, lost)
  \/ Conflict(j)
  \/ Announce(j)
  \/ Escalate(j)
  \/ Label(j)

Next ==
  \/ \E j \in Queue!JobIds : Handle(j)
  \/ \E k \in Keys : Deliver(k)
  \/ Work
  \/ \E f \in Files, e \in Edits : Develop(f, e)
  \/ Kill
  \/ Exit
  \/ Restart

Spec == Init /\ [][Next]_vars

\* The worker polls, time passes and GitHub answers every call.  Deliveries,
\* pushes by developers, failures and kills are not fair.
Fairness ==
  /\ WF_vars(Queue!Poll /\ UNCHANGED healVars)
  /\ WF_vars(Queue!Elapse /\ UNCHANGED healVars)
  /\ \A j \in Queue!JobIds : WF_vars(Handle(j))
  /\ WF_vars(Exit)
  /\ WF_vars(Restart)

FairSpec == Spec /\ Fairness

-----------------------------------------------------------------------------
(* Properties *)

HistoryOK ==
  /\ answered \subseteq Queue!JobIds
  /\ silent \in [Queue!JobIds -> Nat]

\* Type invariant of the healer.
TypeOK ==
  /\ attempts \in 0..MaxHeals
  /\ work \in [Queue!JobIds ->
                 [at: Steps, attempt: 0..MaxHeals, todo: SUBSET Files,
                  target: Files \cup {NoFile}, read: SUBSET Edits,
                  healed: BOOLEAN]]
  /\ branch \in [Files -> SUBSET (Edits \cup {Repair})]
  /\ apiFaults \in 0..MaxApiFaults
  /\ HistoryOK

\* Circuit breaker: however many check runs fail at once and however often the
\* queue retries them, at most MaxHeals attempts of one process push to the
\* branch, because no two attempts share a number (pr-healer.ts:188-237).
BreakerHolds ==
  /\ TypeOK
  /\ Cardinality(committed) <= MaxHeals
  /\ \A r, s \in committed : r[2] = s[2] => r = s

\* A healing commit never removes an edit a developer pushed while the healer
\* was computing it (pr-healer.ts:301-327).
EditsSurvive ==
  [][\A f \in Files : branch[f] \cap Edits \subseteq branch'[f]]_vars

\* Job j waits and is about a failure the healer has to answer: healing is on
\* where the server was given a provider of the repository's settings.
Concerns(j) == job[j].status = "queued" /\ job[j].key \in OnPr /\ Enabled

\* Every attempt that the queue grants job j was lost to failing calls.
Unheard(j) == silent[j] >= MaxAttempts

\* A failing check run of a pull request that is to be healed is answered by a
\* healing commit of its own job or by a label that this job adds.  A comment
\* or label that fails is made up for by the queue's retry
\* (pr-healer.ts:200-226, server.ts:750).  It goes unanswered only where a kill
\* caught the job running, or where each attempt the queue grants it failed to
\* get its token, to comment or to label.
FailureAnswered ==
  \A j \in Queue!JobIds :
     Concerns(j) ~> j \in answered \/ Unheard(j) \/ Queue!Orphan(j)

=============================================================================
