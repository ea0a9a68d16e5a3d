# A verification of autoremediator

autoremediator finds the packages of a Node project that a CVE affects, bumps, overrides or
patches them, runs the tests and proposes the result as a pull request. It is a library with a
command line (`packages/core`), an HTTP and an MCP server around it, a GitHub App that runs it on
webhooks (`packages/github-app`) and an editor extension (`packages/vscode-extension`).

This directory holds TLA+ models of the parts of it that keep state and can go wrong between two
steps, the TLC runs that check them, and TLAPS proofs. All paths below are relative to `packages/`
unless they start with `docs/` (`packages/docs/content/`).

- `tlc -config X_y.cfg MCX.tla` runs a check (the configurations are listed below).
- `tlapm M.tla` checks the proofs of a module `M`: `JobQueueProofs`, `WebhookServerProofs`,
  `StatusChecksProofs`, `PrHealerProofs`, `RepoMutationProofs`, `PatchToolProofs`, `ScanRunProofs` and
  `SdkProofs`.
- `PROJECT.json` maps each definition to the lines it stands for, and lists the runs, the mutant
  that each property catches, the hazards and the findings.

## 1. Inventory

### GitHub App

| Component | State | Operations | What makes it correct |
|---|---|---|---|
| Job queue and worker (`github-app/src/queue.ts`, `worker.ts`) | table of jobs, the order of the queued ones, `job-queue.json`, the worker's counter | enqueue, claim a batch, complete, fail or requeue, poll, stop | one active job per delivery, an attempt budget, nothing accepted is lost, nothing finished runs again, every job ends |
| Webhook intake (`server.ts`, `events.ts`, `state.ts`, `scheduler.ts`) | processed deliveries (an LRU), installations, `github-app-state.json` | request, dispatch, mark, lifecycle events, scheduler tick | a delivery leads to one job, also over redeliveries and restarts; a suspended installation gets none |
| Remediation handler (`remediation-handler.ts`, `pr-creation.ts`, `repo-config.ts`) | a temporary checkout | token, configuration, clone or fall back, audit, scan, clean up | a success has worked on the repository; the checkout is removed |
| PR auto-healing (`healing/pr-healer.ts`, `diagnostics/log-parser.ts`) | attempts per pull request (memory only) | read logs and files, repair, commit, comment, label | a bounded number of attempts, no lost edits, a failure is answered |
| Check-run publication (`status-publisher.ts`) | the checks on GitHub, requests under way | create a check per state of a job, awaited or not | the last check tells the outcome |
| Authentication, setup, configuration (`auth.ts`, `signature.ts`, `setup.ts`, `config.ts`) | a cache of installation tokens | sign, verify, parse | a valid signature only; a token is fresh when used |

A webhook is dispatched to the queue in one turn of the event loop; worker and server meet in the
queue only; handlers of several jobs run concurrently and meet in the healer's map and on GitHub.
Everything is one JavaScript thread: what can interleave is what lies between two awaits.

### Core

| Component | State | Operations | What makes it correct |
|---|---|---|---|
| Mutating tools (`core/src/remediation/tools/apply-version-bump.ts`, `apply-package-override/`, `core/src/api/update-outdated/`) | `package.json`, `node_modules`, call sites, the lock directory | bump, override, update, roll back | all or nothing; exclusion; what is reported applied is what was tested |
| Patch file tool (`tools/apply-patch-file/`) | patch file and its manifest, `package.json` | write, apply, test, clean up | all or nothing |
| Local pipeline (`remediation/local/`) | results, a snapshot per package | look up, list, bump or override, fall back to a patch, decide, contain | results say what is on disk; containment takes back what it must |
| Scan, single remediation, change requests (`api/remediate-from-scan/`, `api/scan-execution.ts`, `api/remediate/`, `api/change-request/`) | git branches, requests, evidence | a CVE after the other, branch, commit, push, open, return | requests hold the fixes they name; nothing is lost |
| Idempotency (`platform/idempotency.ts`) | `.autoremediator/state/idempotency.json`, an object per process | read, store | a stored report is not computed again |
| Asynchronous jobs (`platform/jobs.ts`, `api/jobs/`) | a bounded registry | submit, poll, list, expire, evict | bounded; running jobs and fresh results stay |
| Rollback (`platform/rollback.ts`) | snapshots | snapshot, restore | the restored project is the one before |
| Stored patches (`api/patches/`, `tools/check-inventory.ts`) | `patches/`, `package.json` | inventory, drift, reconciliation | a patch goes only when its CVE is fixed |
| Fix discovery (`intelligence/sources/`, `tools/lookup-cve.ts`, `check-version-match.ts`, `find-fixed-version.ts`, `remediation/evaluate-package.ts`) | none | merge advisories, match versions, choose an upgrade | what is affected is found; what is chosen is not affected |
| Delta scan (`api/delta-scan/`) | none | compare manifests and lockfiles, classify findings | what a change introduces is reported |
| Reachability (`tools/check-reachability.ts`) | none | trace imports, bindings and calls | "not reachable" means not called |
| Refactoring agent, proof-of-fix runner (`remediation/refactor/`, `remediation/proof-of-fix/`) | source files, a test file | collect and apply edits, judge two test runs | an edit lands where it belongs; a proof proves |
| Policy and suppressions (`platform/policy.ts`, `tools/check-suppression.ts`, `cli/triage.ts`) | `.github/autoremediator.yml` | load, look up, save | a suppression holds and changes nothing else |
| Portfolio (`api/portfolio/`) | none of its own | a ranked loop over projects | targets do not affect each other |
| VEX, SARIF, reporting (`api/`) | none that lasts | conversions, counts | |
| LLM pipeline, patch generation | results of tool calls | prompts, tools | the wrappers record what the tools did |
| Workspaces, package managers, scanners, supply chain | none | parsing, lookups | |
| CLI, OpenAPI and MCP servers, VS Code extension | the job registry | parse, route | the same call as the API's |

### What is hard here

Single tests of these parts exist and are good at one call at a time. What they hardly reach, and
`PROJECT.json` lists line by line, is: processes that die between two writes; a write that fails
after the remediation succeeded; polls that overlap handlers; redeliveries at each moment of a
job's life; the manifest read before the wait for a lock; git's uncommitted changes that move along
with a checkout; a second CVE on a package that the first one patched; a branch that takes the
program's own state files away; a check that GitHub receives after a later one; a test left by
another call; and, in the parts without state, the combination of inputs nobody wrote down: two
copies of a package in one tree, two rules that rewrite one import, an advisory that one database
fixes at another version than the other.

## 2. Modules

| Module | Models | Composed of |
|---|---|---|
| `AttemptLedger` | what the queue promises about a job | |
| `JobQueue` | queue, worker, file, process | implements `AttemptLedger` |
| `JobQueueProofs` | theorems about it | |
| `WebhookServer`, `WebhookServerProofs` | request handling, delivery store, scheduler | instance of `JobQueue` |
| `PrHealer`, `PrHealerProofs` | the healer's handlers on GitHub | instance of `JobQueue` |
| `StatusChecks`, `StatusChecksProofs` | the default handler's steps and the checks on GitHub | instance of `JobQueue` |
| `AtomicEdits` | what a mutating tool promises | |
| `RepoMutation`, `RepoMutationProofs` | the mutating tools under the lock | implements `AtomicEdits` |
| `JobRegistry` | the registry of asynchronous jobs | |
| `SdkJobs` | what the jobs of one process do: calls, and the index they share | extends `JobRegistry` |
| `WorkingCopy` | files, `node_modules`, branches of a project | |
| `LocalPipeline` | a CVE through the local pipeline | on `WorkingCopy` |
| `ChangeRequests` | branch, commit, push, request, return | on `WorkingCopy` |
| `ScanRun`, `ScanRunProofs` | scans of a project, resumption | `LocalPipeline` and `ChangeRequests` |
| `ProofOfFix` | how a test run is judged | |
| `PatchTool`, `PatchToolProofs` | the patch file tool's calls and a bump | on `ProofOfFix` |
| `Advisories` | from the databases' answers to a version | |
| `StoredPatches` | inventory, drift, reconciliation | on `Advisories` |
| `DeltaScan`, `Reachability`, `Refactoring`, `Policy` | the decisions named in section 1 | |
| `Decisions` | a question, an input, an answer | instances of these |
| `SdkProofs` | theorems about the registry, the calls and the decisions | extends `SdkJobs` and `Decisions` |
| `MC...` | instances for TLC | |

Definitions whose comment says *mutant* are deliberate bugs; no specification uses them.

### JobQueue

`job` is the table, `ready` and `delayed` its order by `nextRunAt`: due jobs, and retries whose
delay has not passed. The delay is one constant, so the two sequences are the order and no clock is
needed. `file` is the last good write of `job-queue.json`, read by `Restart`. An operation changes
memory and rewrites the file in one synchronous piece, so it is one action with the write's outcome
as a parameter: `ok`, `error` (the old file stays) or `torn` (read back as empty). The code's
reactions to a failing write differ by caller and each has its action: `EnqueueNew` leaves the job
in memory only, `CompleteUnsaved` sends a finished job through the catch block of `worker.ts:37`
back to the queue, `PollFatal`, `EnqueueFatal` and `FailFatal` end the process with an unhandled
rejection. `Crash` is a kill, `Stop`/`Exit` the orderly end.

### WebhookServer

A request runs from the duplicate check to the dispatch without an await; between dispatch and mark
only a kill comes in, and `open` is the delivery in between. `recent` is the LRU of processed
deliveries, saved with the installations after each mark. All actions of `JobQueue` are actions
here.

### PrHealer

`Handle(j)` is a step of job `j`'s handler: fetch the files, write, comment, label, one per await.
`branch` is the set of edits each file contains; a commit carries the file's sha and is refused by
GitHub when the file has changed. A call of GitHub fails, or succeeds with its reply lost. `answered`
and `silent` are history: the jobs that committed or labelled, and the attempts of a job that failing
calls took before the pull request heard of them. Healing is on only where an embedder hands the
server a provider of the repository's settings (`Provided`). One pull
request is enough because two share nothing but the queue. The text of a repair is abstracted to
whether some heuristic applies to the file.

### StatusChecks

`stage` is the next step of a job's handler (`server.ts:661-850`, `remediation-handler.ts`): token,
"in progress", configuration, healing or checkout, audit, scan, report, and the requests that
follow. Who built the handler is chosen at the start (`Setups`): the server itself, which it does
only with app credentials (`server.ts:585-595`), an embedder, with or without them, or nobody, and
then each job throws (`720-722`). `tree` is what the handler works on: its clone, the empty directory
that stands in for a failed one, a configured directory. A checkout belongs to an attempt of a job;
`broken` and `undeleted` are history: the directories of attempts whose fallback failed as well, and
those whose removal failed. processJob awaits its requests; the "queued" check of a delivery
and the "failure" of `onJobFailed` are not awaited by anyone and sit in `pending` until `Arrive`.
`shown` is the newest check of a commit. The queue is the instance of `JobQueue` with a file whose
writes succeed, so retries, kills and orphans are its actions.

### RepoMutation

`Step(r)` is the next step of call `r`: refuse, read the manifest, take the lock or time out, the
negative phase of the proof, write, install, validate, refactor and validate again, positive phase,
roll back, reinstall. `view` is the manifest as read *before* the lock (`apply-version-bump.ts:167`)
and written back whole under it. A bump or override that succeeds may end with a dedupe, which
rewrites lockfile and `node_modules` once more (`Dedupe`). The lock is a directory nobody removes after a crash.

### JobRegistry

Submission, the promise chain of each job, polls, and the registry's expiry and eviction
(`jobs.ts:71-190`), with its limits changed at any time. A job runs on when the registry has
forgotten it.

### SdkJobs

The calls behind the jobs: `remediate`, `remediateFromScan`, `remediatePortfolio`, each the turns of
two loops (`Turns`, in the order `Precedes`), because the loops over projects and CVEs catch what a
turn throws. `Begin` is `remediate` up to its first await, where it reads the index; `Settle` is the
rest, with the store; in between other calls run. `disk` holds each project's index file and
`memory` the object `DEFAULT_INDEX`, which `loadIndex` hands out when a file is missing or unreadable
and which the store then changes, for every project of the process. A file is lost by a checkout, or
cut off.

### ScanRun with WorkingCopy, LocalPipeline and ChangeRequests

A project is reduced to what a remediation writes: the packages at a fixed version in the manifest,
the CVE each patch file was generated for, the stored CVEs and the evidence. One release of a
package fixes all its CVEs. `installed` is `node_modules`; it follows the manifest only through an
install, and what a failed install or a containment leaves there is a choice. A tool is one step
that is refused, applied or failed, because `RepoMutation` and `PatchTool` have the steps; the patch tool
is in patch-package mode. `Pipeline` is a step of the loop of `run.ts`, with the fallback's and the
disposition's conditions. Each git command of `change-request/index.ts` is a step that may fail;
git's rules for uncommitted changes are `CheckedOut` and `Refused`. `named` tells a checkout of a
branch from one of a commit (detached HEAD, the usual state of a CI job). `Index` is `loadIndex`,
whose fallback is an object that all calls of a process share (`SdkJobs` has several projects). A
write of the index truncates the file first, so a kill or an error inside it leaves text that does
not parse (`Torn`; `StoreFails`, `Crash`), and the next load is an empty index; `cutOff` is history,
the CVEs whose stored report was lost so.

Left out: the dry run, `baseBranch` given explicitly, projects outside git, native patches of pnpm
and yarn, file writes that throw inside a tool, and a process that dies inside a tool or a roll back
(`RepoMutation` has the former).

### PatchTool and ProofOfFix

A call of `apply-patch-file` is refused, or waits for the lock, writes patch file and manifest,
prepares its test, runs it on the vulnerable tree, puts the diff into `node_modules` (patch-package
as a devDependency, postinstall script, install; or the native commands of pnpm and yarn), runs the
project's tests and its own again, and records. Each of these is an action that may fail, with
`CleanUp` and `Reinstall` as the code has them, or throw past all of them when a write fails. The
removals and writes of a cleanup swallow their errors, each on its own (`kept`, history), and put
`package.json` back in patch-package mode only; `patch-commit` leaves its entry and patch file in
`committed`, before its own install can fail. A bump
of another dependency reads `package.json` at any time and writes it back later. A test is one of
the kinds of script that a run can tell apart (genuine, always passing, broken, crashing, hanging,
killed, ...), and `ProofOfFix` says what exit code, signal, timeout and the output streams of such a
script make of the two phases; a stream is a class of texts. Package managers and patch-package are
external: an install keeps or refetches packages, prunes what `package.json` does not list or not,
and outside CI patch-package exits with 0 whatever happened (`strict`).

### Decisions with Advisories, StoredPatches, DeltaScan, Reachability, Refactoring and Policy

These parts compute; they hold nothing. Each is a module of operators without state, and `Decisions`
asks every question of the instance: an `Ask` action chooses an input, `Answer` forgets it. The
properties compare the code's operators with a definition made for the purpose: OSV's own reading of
its events (`Affected`), the findings a lockfile exposes (`Exposure`), what a file executes, the
token-by-token result of disjoint edits (`Splice`).

- `Advisories`: OSV events to a range and a first patched version, the merge with GitHub's, the match
  with the inventory, the search for an upgrade, `evaluatePackage`. A version is a tuple with its
  prerelease mark last. semver is external.
- `StoredPatches`: the map of installed versions, in which a later copy of a package replaces an
  earlier one; drift; `Reconcile` with the step that fails as a parameter.
- `DeltaScan`: manifests and lockfiles as their entries, findings per package and version, verdict.
- `Reachability`: a file is what the scan gets of it (read, failed, skipped), its kind of reference
  to the package, of binding and of use; a package below another is found in a manifest or not.
- `Refactoring`: a text is a sequence of tokens, with one import of the package as a whole (the rules
  edit each such import alike, and several of them are disjoint); the rules' edits of one text, their application from
  the end to the start, the dropping and swapping of a call's arguments in one pass, nested calls
  included, the writes of several files and their undoing, which may fail too.
- `Policy`: a policy file, a list or unreadable, given inline or not, and a suppressions file beside
  it; the pipeline's lookup, which is exact (`secops-preflight.ts:48`); what triage saves, and where.

## 3. Runs

| Run | Question | Size |
|---|---|---|
| `queue_faults` | Do deduplication, attempt budget, the promises of the file and the refinement of `AttemptLedger` survive failing writes, kills and stops? Does every stored job end unless a kill strands it? | 3 jobs, 2 keys, 2 handlers, 2 attempts, 2 faults |
| `queue_durable` | *violated*: is a stored job finished after a restart? | 2 jobs, 1 fault |
| `webhook_faults` | Does a delivery get a second job only after its mark was forgotten? Is a marked delivery's job stored? Does a suspension hold? | 2 triggers, 1 notice, 1 bucket, LRU of 2, 2 faults, failing and torn files |
| `github_checks` | Does the last check tell the truth? Are checkouts removed? Has a success seen the repository, and is the empty stand-in kept from servers with credentials? Does a check leave "in progress"? | one push, dispatch, check run and tick, 2 jobs at once, 2 attempts, failing requests, 1 kill, 1 leaked checkout, three deployments |
| `healer_breaker` | Do limit and edits hold for concurrent handlers, and is each failure answered? | 4 deliveries, 2 jobs at once, 2 files, 2 attempts, 1 push, 2 failing calls, 1 kill |
| `mutation_lock` | Exclusion, restoration, results that are tested up to the dedupe, atomic edits of tools that do not overlap, and an end of every call | 3 overlapping tools, 2 entries, a refactoring, proofs, two dedupes, 1 crash |
| `sdk_jobs` | Does the registry keep its capacity and drop only what is due (running jobs last, fresh results stay)? Does a resuming call repeat stored work, or take another project's report? | 3 jobs (a remediation, a ranked portfolio of two projects, a dry run), one key, limits 1 and 2, 3 instants, 1 failed write or lost index file |
| `scan_requests` | Do reported fixes survive, are all changes reported, do requests hold their own fixes, are misses and repeated work confined to their causes? | 2 CVEs, 3 packages, all groupings, 1 mishap, 2 scans for one package |
| `scan_resume` | *violated*: does `--resume` prevent repeated work? | the same, no mishap |
| `patch_tools` | Is what a call reports on disk, is a proof one, is a failure undone, does the postinstall script stay as long as a patch needs it? | 2 calls for one package, the second with the first one's test and a proof required, a conflicting call for another, a bump, 1 failing write or removal, both modes |
| `decisions` | Every input within the bounds to the six pure parts: `UpgradeIsSafe`, `DeltaMissesNothing`, `NotReachableMisses`, `EditsLand`, `ArgumentsLand`, `SuppressionHolds` | below |
| `inventory_copies` | *violated*: is a vulnerable copy of a package found? | the same |

Why these bounds: each hazard involves at most two parties and one or two faults, and the instances
hold one more: two jobs of a key and a third that competes, two faults so that a fault can hit the
recovery from another, two attempts so that a retry exists and runs out, an LRU smaller than the
deliveries, three tools for two entries so that two share one, two CVEs that share a package so that
the second finds what the first left, two patch calls so that one undoes or inherits what the other
did. In `scan_requests` the wide projects (a transitive and a denied package, three groupings) are
scanned once and the narrow one twice; the mishap is a failing command, a dying process or a cut-off write.
In `healer_breaker` the failing calls are as many as the attempts of a job, so that one can lose
them all, and the exception of `FailureAnswered` is reached.
`MaxJobs`, `MaxFaults`, `MaxLeaks`, `MaxTime`, `MaxCrashes`, `MaxApiFaults`, `MaxMishaps`, `MaxArguments` and a
project's `scans` bound the models and are no limits of the code; `MaxAttempts`, `Concurrency`,
`MaxTracked`, `MaxHeals`, `capacity` and `ttl` are settings of it.

`decisions` takes five versions that differ in each place, one of them a prerelease, with every set
of them published, every OSV entry of one interval and every GitHub entry with a fix; trees of up to
two copies of two packages; manifests with three entries of one package and lockfiles with two
copies of it; up to two files of every scan, reference and use, for reachability; programs of one file of every shape (all bindings, five texts) or of two, the second
with three of the texts, with every set of the words the rules look for; calls of up to four
arguments (`MaxArguments`) with one nested call; suppressions in the policy, in the other file or in both, up to two in one. Comparisons look at one
component or one pair of edits or copies at a time, so that a disagreement shows in the smallest
input that has both.

In `patch_tools` the tests are a genuine one, one that crashes on stderr, one that always passes and
one that always fails; the diffs fix or do not apply. A diff that applies and fixes nothing fails the
positive phase as the test that always fails does, and is left to the proofs.

`patch_tools` and `decisions` check deadlock; in the others bounded jobs, deliveries, scans or calls
really run out. Every module with state has one type invariant; in most runs it is a conjunct of a
safety invariant, `JobRegistry`'s is a theorem.

### Fairness

- *Queue and worker*: the poll is an interval timer, delays pass, an orderly stop exits, and the
  process manager restarts what died (`WF`). Handlers settle (`WF`): the code runs a queued job
  without a time limit (`runWithTimeout` in `events.ts:32` covers direct triggers only), so this is
  an assumption on the remediation. Enqueues, faults, kills and stops are not fair.
- *Healer*: in addition GitHub answers each call, with a failure perhaps. Deliveries and pushes are
  not fair.
- *Mutating tools*: a call goes on, because its child processes have a time limit (`safe-exec.ts`)
  and the lock gives up after 15 s. `update-outdated` calls `execa` without a limit, so it may hang
  with the lock (`MayHang`); the others still end.
- *Checks*: GitHub answers each request, unawaited ones arrive, and a step of a handler is taken as
  long as it does not hang: git and the audit command run without a time limit (`MayHang`), so
  `ChecksSettle` assumes that they return.
- The registry, the scan, the patch tool and the decisions have no liveness property and no fairness.

## 4. Findings

Three statements of the documentation and of comments are violated by what the code does; each has
a run.

1. *A job that ran when the process died* is loaded as running (`queue.ts:203`), is never claimed
   again, and its key stays taken; `docs/integrations.md:320, 389` speak of durable state across
   restarts (`queue_durable`).
2. *`--resume` prevents duplicate remediation* (`docs/cli.md:93`): `git add -A`
   (`change-request/index.ts:328`) commits the index of stored reports to the request's branch, and
   the checkout of the base removes it (`scan_resume`, which needs no failure). `ResumeRespected` shows
   that there is one other cause only, a write of the index that is cut off: without change requests
   no stored CVE is run again unless `saveIndex`, which truncates the file (`idempotency.ts:48`), was
   stopped before the end and `loadIndex` (`39-41`) took what it left for an empty index.
3. *Which installed packages fall within the vulnerable ranges* (`check-version-match.ts:28`): of
   several copies of a package the inventory keeps the last one listed (`list-parser.ts:85`), and a
   vulnerable copy before it is not found (`inventory_copies`). `InventoryIsTrue` shows that a tree
   with one version of the package is judged rightly.

Observed while modelling, without a run of their own.

GitHub App:

- Job and mark of a delivery are two files: killed between them, a redelivery gets a second job once
  the first has finished (`docs/integrations.md:302` calls deduplication restart-safe);
  `SecondJobNeedsForgetting` shows that a lost mark is the only way.
- `enablePrAutoHealing` and `maxHealingAttempts` in `.github/autoremediator.yml`
  (`docs/integrations.md:401`) have no effect in the server as it is shipped: `sanitizeRaw` does not
  copy them (`repo-config.ts:15-91`) and nothing else supplies them, so that failing check runs are
  not healed. `FailureAnswered` speaks of servers whose embedder gives them a provider of the
  settings; `Enabled` is false for all others.
- `git clone --branch` is given a commit's sha, which it does not accept
  (`remediation-handler.ts:175`): a push or check suite with the default checkout fails, or without a
  token falls back to an empty repository. `SuccessSawRepository` shows that the job is not called a
  success then, and that a server with credentials never gets to the empty repository.
- That fallback is outside the `try` whose `finally` removes the checkout, so a failing git leaves its
  directory (`remediation-handler.ts:219`), in a server without credentials; a removal that fails is
  swallowed. These are the exceptions of `CheckoutsAreCleaned`, one directory at a time.
- The jobs of the scheduler carry no installation, so the default handler rejects them.
- The unawaited "queued" and "failure" checks can arrive after the check of a later state and cover
  it: the exception of `FinalCheckIsTrue`.
- A failing check run stays unanswered when a kill caught its job running, and when each attempt of
  the job loses its token, its comment or its label to a failing call: the two exceptions of
  `FailureAnswered`. The comment precedes the label (`pr-healer.ts:200-226`), and a comment that
  fails takes the label along.
- An attempt of the healer that repairs nothing fails its job, and the retries use up the attempts of
  the pull request; attempts are forgotten by a restart (`docs/integrations.md:408`); two handlers on
  a common file make the second escalate; `resetHealingAttempts` has no caller.
- The queue retries after a constant delay where `github-app/README.md:8` says exponential backoff.

Mutating tools and scans:

- Overlapping tools lose updates: the manifest is read before the lock. `OnlyStaleViewsClobber`
  shows that this is the only way; `core/CHANGELOG.md:336` announces concurrent safety.
- `configurePatchPackagePostinstall` reads `package.json`, lets the package manager add
  `patch-package` to it and writes the stale object back (`apply-patch-file/helpers.ts:85-127`): the
  devDependency is gone, and the next install may prune it.
- Outside CI patch-package exits with 0 when a patch does not apply, so that "applied" may be said of
  a tree without the diff: the exception of `AppliedIsInTree`, which a proof closes.
- The install of a cleanup removes no diff from a tree it keeps. A native patch that fails after its
  `patch-commit` leaves the entry in `package.json` and the package manager's own patch file
  (`helpers.ts:246`, `168`), and each removal and write of a cleanup swallows its error
  (`163-172`): the exceptions of `FailureCleansUp`.
- `return withRepoLock(...)` is not awaited inside the `try`, so an exception under the lock passes
  by the tool's catch, and nothing is cleaned up.
- A second call for a package takes over the first one's file, and its failure deletes it: the first
  fix, reported as applied, is gone; the exception of `FixesSurvive`.
- A positive phase of a proof that fails after a refactoring leaves the rewritten call sites, where
  `docs/policy-and-safety.md:249` has the repository's state restored: the exception of
  `FailureRestores`, which shows that every other failure reverts them.
- A failed bump restores `package.json` alone, and its range may keep the new version in lockfile and
  `node_modules`.
- The dedupe follows the validation and the positive phase of the proof (`apply-version-bump.ts:481`,
  `apply-package-override/index.ts:550`), as `docs/cli.md:419` says, so that the lockfile and
  `node_modules` of a success are not those that the tests ran on: the exception of
  `AppliedIsTested`, which holds manifest and sources to what was tested, and bounds the difference
  to one dedupe.
- Containment (`docs/policy-and-safety.md:290`) leaves `node_modules` as it is, so that the next CVE
  can find the package fixed: the exception of `NoSilentMiss`.
- The grouping of a scan's requests (`docs/cli.md:107`) has nothing left to group: each report's own
  request commits its changes first, and within one scan the first group's `git add -A` takes all.
- From a detached HEAD, branches are cut from one another and the provider is given the base `HEAD`.
- `withAtomicRollback` (`docs/policy-and-safety.md:223`) has no caller outside tests.
- A job that runs longer than the time to live leaves the registry and cannot be polled any more
  (`core/CHANGELOG.md:79`).
- Without a readable index file the index is one object for all projects of a process: the second
  project of a portfolio that resumes takes the first one's report for its own, and nothing is done
  there (`docs/api-sdk.md:272` says "matching `idempotencyKey` + CVE"). `ResumeIsSound` shows that a
  project whose file has always been readable is safe (a file that was never written counts as
  unreadable, and so does one that a write was cut off in). A stored failure is resumed like a success,
  and calls that overlap do the work twice.
- The reconciliation of patches takes no repository lock, does not install again after its roll back
  and has an outer catch without one; for a patch of a transitive copy it sets the direct dependency
  to that copy's safe version, possibly a downgrade.

Decisions:

- An OSV range of several intervals becomes one conjunction that no version satisfies
  (`osv.ts:133`): `MatchFindsVulnerable` holds for one interval only. When OSV has no entry, only
  the first of GitHub's is used (`lookup-cve.ts`).
- `evaluatePackage` looks at the first affected entry of an advisory, does not look at the version it
  recommends again, may recommend a first patched version that is not published, and takes a failing
  lookup for "safe" (`evaluate-package.ts:40-44`).
- The search for an upgrade skips the versions that satisfy the vulnerable range (`registry.ts:117`),
  and semver lets no prerelease satisfy a range of other versions: when OSV names no fix and the
  floor comes from GitHub, an affected prerelease can be chosen. This is the exception of
  `UpgradeIsSafe`; with a floor of OSV's own, a chosen prerelease is as safe as a release. GitHub's
  ranges with a comma (`github-advisory.ts:118`) are not semver's and match nothing by themselves.
- A delta scan counts a finding as introduced when another copy had it before, and as resolved when
  the old version stays beside the new one; a base that git does not know gives an empty difference
  and the verdict neutral.
- Overlapping edits: a known package's rule and the rule for a missing default export on one import,
  a rewritten call and a suggestion in it, two diagnostics for one member, which also garble every
  import of that member (`RulesCollide`); an argument that is dropped and swapped in one call, and
  calls nested in an argument that moves (`ArgumentsCollide`). A roll back whose writes fail leaves
  the rewritten or a cut-off file and says nothing (`refactor-agent.ts:113-118`). A
  diagnostic's file is ignored, its line is edited in every file; a namespace's or `require`'s calls
  are rewritten without the import; a default import is replaced although other uses remain.
- "Not reachable" is also said of functions passed on as values, modules bound by `require` or a
  dynamic import, bindings by another name from a subpath or a `require` (`Unseen`); of anything in
  files that cannot be read or parsed, or lie in a directory that is skipped, such as `build` and
  `dist`, or load the package in a way that is not recognised (`Hidden`); and of dependencies that
  are deeper than one level, whose parent's manifest is not in `node_modules`, or that lie below a
  package while some other file refers to them.
- A policy file that cannot be parsed counts as the default policy, without its deny list, and is
  overwritten by the next saved suppression, where `policy.ts:274` says "Preserves existing policy
  settings". A suppression saved again keeps the date on which it expired; one saved to a file that
  is a list is not written; one saved under a policy given inline goes to a file named by its text,
  which nothing reads. These are the exceptions of `SuppressionHolds`.
- The pipeline (`secops-preflight.ts:48`) and the tool for the model compare a CVE's id exactly, in
  upper case; `findSuppression`, which ignores case, has no caller in the program. An entry written
  by hand in lower case is ignored until triage replaces it.
- The abbreviated packument that the registry client asks for has no `time`, so `minPublishAgeHours`
  is not checked.

## 5. Proofs

`JobQueueProofs` proves for any keys, numbers of jobs, attempts and handlers, any mixture of write
faults, and a file or none:

| Theorem | Establishes |
|---|---|
| `TypeCorrect` | `TypeOK`, which is part of `AttemptBudget` |
| `DedupeHolds` | `OneActivePerKey` |
| `AttemptsBounded` | `AttemptBudget` |
| `FileConsistent` | `FileAgrees` |
| `Refinement` | `ImplementsLedger`: every step of queue, worker and file is a step of `AttemptLedger` or a stutter |
| `AcceptedIsKept`, `TerminalIsKept` | `AcceptedSurvives` and `TerminalIsDurable`, for a file whose writes never truncate it |

The assumption is `QueueAssumption`. None of the invariants is inductive alone: deduplication in
memory after a restart is deduplication in the file before it, and the budget of a job in the file
is what bounds its handler's starts in the next life of the process. The invariant `IInv` is
therefore `TypeOK` together with `Sound` (listed jobs are exactly the queued ones and have budget
left, starts are counted by attempts, keys are unique among active jobs) of the table in memory *and*
of the table in the file, the agreement of the two, that handlers belong to running jobs, that a
dead process has none, and that ids not yet handed out are unused. The steps fall in two classes, and
so do the lemmas: the process dies and memory is emptied (`DieStep`), or it stays alive and the file
is memory, unchanged, or behind memory in what the write lost (`AliveStep`). `Restart` needs both
halves of `Sound`.

Seven more modules prove the other properties of the passing runs for all values of the constants:

| Module | Theorem | Establishes |
|---|---|---|
| `WebhookServerProofs` | `LedgerIsKept` | its queue implements `AttemptLedger` |
| | `OneJobPerDelivery` | `SecondJobNeedsForgetting` |
| | `MarksHaveJobs` | `ProcessedHasJob`, for a queue with a file |
| | `SuspensionsHold` | `SuspendedStaysOut` |
| `StatusChecksProofs` | `LedgerIsKept` | its queue implements `AttemptLedger` |
| | `ChecksTellTheEnd` | `FinalCheckIsTrue` |
| | `CheckoutsHaveOwners` | `CheckoutsAreCleaned` |
| | `SuccessIsEarned` | `SuccessSawRepository` |
| `PrHealerProofs` | `BreakerWorks` | `BreakerHolds` |
| | `EditsAreKept` | `EditsSurvive` |
| | `QueueRuns`, `LedgerIsKept` | its steps are steps of `JobQueue`, so that its queue implements `AttemptLedger` |
| `RepoMutationProofs` | `Exclusion` | `LockExcludes` |
| | `Restoration`, `Clobbering` | `FailureRestores`, `OnlyStaleViewsClobber` |
| | `Acceptance` | `AppliedIsTested` |
| | `Atomicity` | `ImplementsEdits`: runs that do not overlap refine `AtomicEdits` |
| `PatchToolProofs` | `ProofsAreGenuine` | `ProofIsGenuine` |
| | `ScriptsStay` | `PatchStaysConfigured` |
| | `FailuresCleanUp` | `FailureCleansUp` |
| | `AppliedPatchIsThere` | `AppliedIsInTree` |
| `ScanRunProofs` | `ClaimsCoverChanges` | `ChangesAreClaimed` |
| | `RequestsKeepApart` | `RequestsStandAlone` |
| | `ClaimedFixesSurvive`, `MissesAreExplained` | `FixesSurvive`, `NoSilentMiss` |
| | `StoredIsResumed` | `ResumeRespected` |
| `SdkProofs` | `BoundedRegistry`, `DueEvictions` | `TypeOK` and `CapacityHolds`, `DropsAreDue` |
| | `CallsUseRegistry` | the calls' steps are steps of `JobRegistry`, so both hold of them |
| | `ResumingIsSound` | `ResumeIsSound` |
| | `UpgradesAreSafe`, `DeltaIsComplete` | `UpgradeIsSafe`, `DeltaMissesNothing` |
| | `UnreachableIsUnseen`, `SavedIsInForce` | `NotReachableMisses`, `SuppressionHolds` |
| | `EditsAreRight` | `EditsLand` |

Each rests on the named assumptions of its module and of the modules it is composed of, which only
say what the constants are. The invariants of `PatchTool`, `WebhookServer` and `ScanRun` were
model-checked on the runs' instances before they were proved.

**Compositions with the queue.** Webhook intake, checks and healer take what they need of the queue
from `JobQueueProofs` (instance `QP`) once each of their steps is shown to be a step of the queue
(`QueueStep`; the server's other file adds steps that only count a fault). The same lemma carries the
refinement over: what the queue alone promises about a job, `LedgerIsKept` promises of the queue
under deliveries, marks, checks, healing and reports.

**Webhook intake and checks.** On top of the queue's invariant `WebhookServerProofs` keeps that a
trigger whose mark was never forgotten has at most one job and a known mark (`Single`), that the
delivery between dispatch and mark has its job (`Dispatched`), and that a suspended installation is
active neither in memory nor in the state file (`Suspended`). `Single` speaks of memory while the
process lives and of the two files while it is down, so that a restart finds it true.
`StatusChecksProofs` follows a handler from stage to stage: that with credentials it has a token
once it is past the first stage (`Granted`), hence nothing that stands in for a repository
(`Genuine`), what it works on (`Trees`), and whose each checkout is (`Owned`: one attempt's, or a
directory with a reason of its own to be left); that the jobs of a delivery follow one another (`Ordered`), and
that the check of the last one tells its end, is covered by a request that came late, or is about to
be told by one that has not arrived (`Visible`, `Told`).

**Healer.** The breaker holds because an attempt is a number that no two handlers share (`Numbered`)
and a push keeps the number of its attempt for good (`Recorded`); the map from pushes to their
numbers in `1..MaxHeals` is an injection, which bounds how many there are.

**Mutating tools.** What holds of one run under the lock (`Section`: what it has made of manifest and
`node_modules` at each step) is kept by its own steps, and by others because they are outside.
`Views` relates the manifest that a run read before the lock to the sections that ended since,
`Rewrites` a rewritten call site to the validation that passed on it, and
`Alone` is the case of runs that do not overlap, from which the refinement follows step by step.

**Patch tool.** `ProofIsGenuine` speaks of the end of a call; the invariant speaks of its phases:
before a call has chosen its test it has proved nothing (`Chosen`), and a phase that passed tells
what the test may be (`Judged`): a genuine one or one that always fails after the first, not one that
always fails after the second. `NegativeTells` and `PositiveTells` draw this from the runner's rules
alone. The other three need a second invariant about a call that has the lock (`Section`): that a
failure can still be undone (`Restorable`: the snapshot is what the call found, and native commands have
added no more than the call's own entry), whose files it writes until its cleanup leaves what
`Undone` allows (`Owned`), that `package.json` has
the postinstall script where it is needed, before the call and after (`Configured`), and that from
its install on the tree has the diff or is still vulnerable (`InTree`); `Needed` says that a recorded
patch has its script.

**Scans.** One invariant carries all five properties, because the pipeline, the requests and the
resumption work on one tree: every change in the files and on the branches was claimed, decided or
given up (`Accounted`), a claimed version is in the files or on a branch (`Safe`), what
`node_modules` has comes from there or drifted (`Installed`), without change requests the index that is read has every
stored report that no cut-off write erased (`Indexed`), and as long as nothing fails, a branch
differs from the one it was cut from by its own fixes only (`Cut`, `Apart`). Most of the proof is
one lemma per step of pipeline and request; `DecideStep` is the longest, because containment may
take back any of them.

**Registry and calls.** Expiry only shrinks the set of jobs and each eviction removes one of a set
that is larger than the capacity; a registry that evicts ends exactly full, so that what is dropped
goes before everything left. For resumption the order of a call's turns must give one turn at a time
(`OneIsDue`), so that a busy call's turn is the one it began; what a stored report is worth follows
from the files' history (`Lasting`, `Own`).

**Decisions.** `AskSpec => []P` over a model without memory is a lemma about the operators, for any
input within the assumed types: `WellAsked` says that what is asked comes from the inputs, and each
topic has its `Answer` lemma. The upgrade needs the most: that versions are linearly ordered
(`Linear`, `Transitive`), that the search finds the lowest of a level (`LowestIs`, `ResolveIs`), and
that the comparators which the code writes for one interval of OSV's events are met by affected
versions only, and by every affected release (`SatisfiedIs`).

**Refactoring.** `EditsAreRight` holds for any sequence of files of any lines and any output of
the compiler, and needs induction. That a nonempty set of numbers
has a least one (`Least`, from the library's theorem on `<`) gives it in a form without an operator
parameter (`Induction`: a set that has 0 and each successor is `Nat`), and with it what the library's
flattening of sequences (`FlattenIs`, `Flatten`) and the order of `applyEdits` compute. The argument
has two parts.

- *One text.* Of several edits the lowest is applied last (`LowestIsLast`), so by induction on their
  number each is applied to a text whose tokens up to its end are still the old ones (`ApplyAt`); cut
  at its edges, the result is the kept pieces and the new ones in turn, which is `Splice`
  (`KeptSegment`, `EditedSegment`, `EditsSplice`). Disjointness is what makes the places of one edit
  independent of the others' lengths.
- *The rules.* Each rule's edits lie in the text and are disjoint from one another (`UseRule`,
  `SuggestionEdits`, `ImportEdit`): a rule edits the import or one occurrence, and occurrences are
  apart (`Positions`, `Apart`). Edits meet on the same tokens only in the four ways that
  `RulesCollide` lists (`EditsFit`).

Model-checked only:

- `SettlesOrStrands`, `ChecksSettle`, `FailureAnswered` and `EveryRunEnds`: liveness under fairness
  needs `ENABLED`, which is out of TLAPS's reach.
- `ArgumentsLand`: the text of the arguments is proved of nothing; TLC checks every call of up to four
  arguments, with a nested call or not. No caller in the repository asks for these edits yet.
- The properties of the violated runs, which are false.

## 6. Not modelled, and why

- HTTP clients, prompts, schemas, formatting and routing keep no state between calls. What a language
  model answers enters as a choice: the diffs of `PatchTool`, the tools' outcomes in `LocalPipeline`.
- NVD, EPSS, KEV and the scanners' formats add data to a report and decide nothing; SARIF and VEX are
  conversions (VEX says "not affected" of every suppression); service levels compare two dates.
- Parsing of manifests, lockfiles, listings and sources is abstracted to its result; workspaces and
  the package managers' command lines likewise.
- The totals, status lines and exit codes of reports are counts over results that other modules have.
- Several processes on one directory meet in the queue file, the repository lock and the index; the
  lock is modelled for them (`RepoMutation`), the other two files are written by one process as
  deployed.
- Cryptography and the setup pages are outside what a model of steps can say.

`PROJECT.json` has a reason per component.

## 7. Plan

The parts that keep state are modelled, and every safety and step property of a passing run is a
theorem; what handlers, checks and deliveries do runs on a queue that implements `AttemptLedger`.
What is left is
to give the fix discovery's lookups, which wait on the network, steps of their own: a lookup that
fails or is answered late while the remediation of another CVE changes the tree.
