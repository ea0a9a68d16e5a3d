---------------------------- MODULE RepoMutation ----------------------------
(***************************************************************************)
(* The tools that change a repository's package.json and install it:       *)
(* apply-version-bump, apply-package-override and the bump of              *)
(* update-outdated, run by several callers on one working directory, each  *)
(* under the repository lock (platform/repo-lock.ts).                      *)
(*                                                                         *)
(* A tool reads the manifest, waits for the lock, writes the manifest,     *)
(* installs, validates, perhaps rewrites the call sites, runs the two      *)
(* phases of the proof of fix, and undoes its change when one of these     *)
(* fails.  Every child process and every wait is a step of its own.        *)
(*                                                                         *)
(* An entry is one place in the manifest: a dependency's range or an       *)
(* override.  What a version is, and which command a package manager       *)
(* runs, do not matter here.                                               *)
(***************************************************************************)
EXTENDS Integers, FiniteSets

CONSTANTS
  Runs,        \* calls of a tool on the directory
  Entries,     \* entries of package.json (deno.json)
  EntryOf,     \* run -> the entry it sets
  KindOf,      \* run -> "bump", "override" or "outdated"
  Proving,     \* runs with a reproduction test
  Refactoring, \* runs with breakingChangeRefactor
  Deduping,    \* runs whose package manager has a dedupe command
  MaxCrashes   \* bound: runs whose process dies

ASSUME MutationAssumption ==
  /\ EntryOf \in [Runs -> Entries]
  /\ KindOf \in [Runs -> {"bump", "override", "outdated"}]
  /\ \A r \in Proving : r \in Runs /\ KindOf[r] # "outdated"
  /\ \A r \in Refactoring : r \in Runs /\ KindOf[r] = "bump"
  /\ \A r \in Deduping : r \in Runs /\ KindOf[r] # "outdated"
  /\ MaxCrashes \in Nat
  /\ "free" \notin Runs

VARIABLES
  overlap,     \* FALSE: the callers run one tool after the other
  manifest,    \* package.json: entry -> "old" or "new"
  installed,   \* the manifest that node_modules was last installed from
  rewritten,   \* runs whose refactoring of the call sites is in the sources
  deduped,     \* runs whose dedupe is in the lockfile and node_modules
  lock,        \* remediation.lock: "free", or the run that made it
  pc,          \* run -> its next step
  view,        \* run -> the manifest as it read it, before the lock
  result,      \* run -> how it ended
  crashes,
  sections,    \* history: critical sections that ended
  readAt,      \* history: run -> sections when it read the manifest
  before,      \* history: run -> the manifest when it got the lock
  tested,      \* history: run -> the tree that its validation passed on
  unclean      \* history: the last install failed

vars == <<overlap, manifest, installed, rewritten, deduped, lock, pc, view,
          result, crashes, sections, readAt, before, tested, unclean>>

Old == [e \in Entries |-> "old"]
Manifests == [Entries -> {"old", "new"}]
Critical == {"negative", "write", "install", "validate", "revalidate",
             "rollback", "positive", "reinstall", "dedupe"}
Steps == {"start", "waiting", "done"} \cup Critical

\* What a validation runs on.
Tree == [installed |-> installed, rewritten |-> rewritten, deduped |-> deduped]

GoTo(r, step) == pc' = [pc EXCEPT ![r] = step]

\* Run r ends; withRepoLock releases the lock.
Finish(r, how) ==
  /\ pc' = [pc EXCEPT ![r] = "done"]
  /\ result' = [result EXCEPT ![r] = how]
  /\ lock' = "free"
  /\ sections' = sections + 1

\* Nothing but the step of r changes.
Continue(r, step) == GoTo(r, step) /\ UNCHANGED <<result, lock, sections>>

-----------------------------------------------------------------------------
(* Before the lock *)

\* The checks before the lock: policy, major bump, no manifest, no such entry,
\* dry run.
Refuse(r) ==
  /\ pc[r] = "start"
  /\ GoTo(r, "done")
  /\ result' = [result EXCEPT ![r] = "refused"]
  /\ UNCHANGED <<manifest, installed, rewritten, deduped, lock, view, crashes,
                 sections, readAt, before, tested, unclean>>

Busy(r) == pc[r] \notin {"start", "done"}

\* The manifest is read and parsed, and not read again.
Read(r) ==
  /\ pc[r] = "start"
  /\ overlap \/ \A s \in Runs : ~Busy(s)
  /\ GoTo(r, "waiting")
  /\ view' = [view EXCEPT ![r] = manifest]
  /\ readAt' = [readAt EXCEPT ![r] = sections]
  /\ UNCHANGED <<manifest, installed, rewritten, deduped, lock, result,
                 crashes, sections, before, tested, unclean>>

LockIgnored == TRUE  \* mutant
LockFree == lock = "free"

\* mkdir of the lock directory succeeds.
Acquire(r) ==
  /\ pc[r] = "waiting"
  /\ LockFree
  /\ lock' = r
  /\ GoTo(r, IF r \in Proving THEN "negative" ELSE "write")
  /\ before' = [before EXCEPT ![r] = manifest]
  /\ UNCHANGED <<manifest, installed, rewritten, deduped, view, result,
                 crashes, sections, readAt, tested, unclean>>

WaitsForever(r) == FALSE  \* mutant: no deadline
Overdue(r) == pc[r] = "waiting" /\ lock # "free"

\* The lock was not released in time: the tool throws.
TimeOut(r) ==
  /\ Overdue(r)
  /\ GoTo(r, "done")
  /\ result' = [result EXCEPT ![r] = "timeout"]
  /\ UNCHANGED <<manifest, installed, rewritten, deduped, lock, view, crashes,
                 sections, readAt, before, tested, unclean>>

-----------------------------------------------------------------------------
(* Under the lock *)

\* The reproduction test has to fail on the unchanged tree; it may also be
\* missing although a proof is required.
Negative(r) ==
  /\ pc[r] = "negative"
  /\ Continue(r, "write") \/ Finish(r, "failed")
  /\ UNCHANGED <<manifest, installed, rewritten, deduped, view, crashes,
                 readAt, before, tested, unclean>>

\* mutant: the manifest is cached from an earlier tool
EditedFromCache(r) == [Old EXCEPT ![EntryOf[r]] = "new"]

\* The manifest that was read, with the run's entry set.
Edited(r) == [view[r] EXCEPT ![EntryOf[r]] = "new"]

Write(r) ==
  /\ pc[r] = "write"
  /\ manifest' = Edited(r)
  /\ Continue(r, "install")
  /\ UNCHANGED <<installed, rewritten, deduped, view, crashes, readAt, before,
                 tested, unclean>>

\* mutant: nothing is written back
NotRestored(r) == manifest

\* The manifest that was read, written back to undo the change.
Restored(r) == view[r]

\* The package manager installs, or fails and the manifest is restored.
Install(r) ==
  /\ pc[r] = "install"
  /\ \/ /\ installed' = manifest
        /\ unclean' = FALSE
        /\ Continue(r, "validate")
        /\ UNCHANGED manifest
     \/ /\ manifest' = Restored(r)
        /\ unclean' = TRUE
        /\ Finish(r, "failed")
        /\ UNCHANGED installed
  /\ UNCHANGED <<rewritten, deduped, view, crashes, readAt, before, tested>>

\* The change stands.  Where the package manager can, the duplicates that it
\* left are removed, but not by a run that rewrote call sites.
Succeed(r) ==
  IF r \in Deduping \ rewritten THEN Continue(r, "dedupe")
                                ELSE Finish(r, "applied")

\* The change stands unless the reproduction test is to run again.
Accept(r) ==
  /\ tested' = [tested EXCEPT ![r] = Tree]
  /\ IF r \in Proving THEN Continue(r, "positive") ELSE Succeed(r)

NoSecondValidation == "positive"  \* mutant
AfterRewrite == "revalidate"

\* Tests and type check.  When they fail, a refactoring run rewrites the call
\* sites and validates again, any other run rolls back.
Validate(r) ==
  /\ pc[r] = "validate"
  /\ \/ Accept(r) /\ UNCHANGED rewritten
     \/ /\ Continue(r, "rollback")
        /\ UNCHANGED <<rewritten, tested>>
     \/ /\ r \in Refactoring
        /\ rewritten' = rewritten \cup {r}
        /\ Continue(r, AfterRewrite)
        /\ UNCHANGED tested
  /\ UNCHANGED <<manifest, installed, deduped, view, crashes, readAt, before,
                 unclean>>

RewritesKept(r) == rewritten  \* mutant

\* revertRefactorSnapshots
RewritesUndone(r) == rewritten \ {r}

\* The validation after the rewrite; when it fails too, the call sites are
\* restored before the roll back.
Revalidate(r) ==
  /\ pc[r] = "revalidate"
  /\ \/ Accept(r) /\ UNCHANGED rewritten
     \/ /\ rewritten' = RewritesUndone(r)
        /\ Continue(r, "rollback")
        /\ UNCHANGED tested
  /\ UNCHANGED <<manifest, installed, deduped, view, crashes, readAt, before,
                 unclean>>

\* The reproduction test has to pass on the changed tree.
Positive(r) ==
  /\ pc[r] = "positive"
  /\ Succeed(r) \/ Continue(r, "rollback")
  /\ UNCHANGED <<manifest, installed, rewritten, deduped, view, crashes,
                 readAt, before, tested, unclean>>

\* The dedupe rewrites lockfile and node_modules, within the manifest, or finds
\* nothing to do; its failure is only reported.  Nothing is tested after it.
Dedupe(r) ==
  /\ pc[r] = "dedupe"
  /\ deduped' \in {deduped, deduped \cup {r}}
  /\ Finish(r, "applied")
  /\ UNCHANGED <<manifest, installed, rewritten, view, crashes, readAt, before,
                 tested, unclean>>

Rollback(r) ==
  /\ pc[r] = "rollback"
  /\ manifest' = Restored(r)
  /\ Continue(r, "reinstall")
  /\ UNCHANGED <<installed, rewritten, deduped, view, crashes, readAt, before,
                 tested, unclean>>

Reinstalled == manifest

\* The install of the restored manifest; its failure is ignored.
Reinstall(r) ==
  /\ pc[r] = "reinstall"
  /\ \/ installed' = Reinstalled /\ unclean' = FALSE
     \/ UNCHANGED installed /\ unclean' = TRUE
  /\ Finish(r, "failed")
  /\ UNCHANGED <<manifest, rewritten, deduped, view, crashes, readAt, before,
                 tested>>

-----------------------------------------------------------------------------

\* The process of a run dies; a lock it holds stays.
Crash(r) ==
  /\ Busy(r)
  /\ crashes < MaxCrashes
  /\ crashes' = crashes + 1
  /\ GoTo(r, "done")
  /\ result' = [result EXCEPT ![r] = "dead"]
  /\ UNCHANGED <<manifest, installed, rewritten, deduped, lock, view, sections,
                 readAt, before, tested, unclean>>

Init ==
  /\ overlap \in BOOLEAN
  /\ manifest = Old
  /\ installed = Old
  /\ rewritten = {}
  /\ deduped = {}
  /\ lock = "free"
  /\ pc = [r \in Runs |-> "start"]
  /\ view = [r \in Runs |-> Old]
  /\ result = [r \in Runs |-> "none"]
  /\ crashes = 0
  /\ sections = 0
  /\ readAt = [r \in Runs |-> 0]
  /\ before = [r \in Runs |-> Old]
  /\ tested = [r \in Runs |->
                 [installed |-> Old, rewritten |-> {}, deduped |-> {}]]
  /\ unclean = FALSE

Step(r) ==
  \/ Refuse(r)
  \/ Read(r)
  \/ Acquire(r)
  \/ TimeOut(r)
  \/ Negative(r)
  \/ Write(r)
  \/ Install(r)
  \/ Validate(r)
  \/ Revalidate(r)
  \/ Positive(r)
  \/ Dedupe(r)
  \/ Rollback(r)
  \/ Reinstall(r)

Next == (\E r \in Runs : Step(r) \/ Crash(r)) /\ UNCHANGED overlap

Spec == Init /\ [][Next]_vars

\* A tool that was called goes on until it ends: its child processes run with a
\* timeout (safe-exec.ts).  Those of update-outdated do not and may hang.
MayHang(r) == KindOf[r] = "outdated" /\ pc[r] \in Critical

FairSpec == Spec /\ \A r \in Runs : WF_vars(~MayHang(r) /\ Step(r) /\ UNCHANGED overlap)

-----------------------------------------------------------------------------
(* Properties *)

Trees == [installed: Manifests, rewritten: SUBSET Runs, deduped: SUBSET Runs]
Results == {"none", "refused", "failed", "timeout", "applied", "dead"}

\* Type invariant of the working directory and the runs.
TypeOK ==
  /\ overlap \in BOOLEAN
  /\ manifest \in Manifests
  /\ installed \in Manifests
  /\ rewritten \subseteq Runs
  /\ deduped \subseteq Runs
  /\ lock \in Runs \cup {"free"}
  /\ pc \in [Runs -> Steps]
  /\ view \in [Runs -> Manifests]
  /\ result \in [Runs -> Results]
  /\ crashes \in 0..MaxCrashes
  /\ sections \in Nat
  /\ readAt \in [Runs -> Nat]
  /\ before \in [Runs -> Manifests]
  /\ tested \in [Runs -> Trees]
  /\ unclean \in BOOLEAN

\* The tools' changes, installs and tests are mutually exclusive: a run between
\* its first and last step under the lock is the one that made the lock.  So
\* when nobody holds it, node_modules is what the manifest says, unless the last
\* install failed.
LockExcludes ==
  /\ TypeOK
  /\ \A r \in Runs : pc[r] \in Critical => lock = r
  /\ lock = "free" /\ ~unclean => installed = manifest

Ends(r) == pc[r] # "done" /\ pc'[r] = "done" /\ result'[r] # "dead"

\* r has a proof, and its validation passed with the call sites rewritten.
Rejected(r) == r \in Proving /\ r \in tested[r].rewritten

\* The manifest changed between the reading of r's view and its lock.
Stale(r) == before[r] # view[r]

\* A run that ends without success, and whose view was not stale, leaves the
\* manifest as it found it when it got the lock, and no rewritten call sites.
\* The exception to the latter is a proof that fails after the validation passed
\* on them: its positive phase rolls back without reverting them, where
\* docs/content/policy-and-safety.md:249 has the state of the repository restored.
FailureRestores ==
  [][\A r \in Runs :
        Ends(r) /\ result'[r] = "failed"
          => /\ ~Stale(r) => manifest' = before[r]
             /\ r \in rewritten' => Rejected(r)']_vars

\* A run that changes the entry of somebody else had a stale view: the lost
\* update needs a section that ended between its read and its lock.
OnlyStaleViewsClobber ==
  [][\A r \in Runs, e \in Entries :
        /\ pc[r] = "write" /\ pc'[r] = "install"
        /\ e # EntryOf[r] /\ manifest'[e] # manifest[e]
        => readAt[r] < sections]_vars

\* The tree that r leaves is the one its validation passed on, or what its own
\* dedupe made of that; a run with rewritten call sites does not dedupe.
LeavesTested(r) ==
  /\ installed' = tested'[r].installed
  /\ rewritten' = tested'[r].rewritten
  /\ deduped' # tested'[r].deduped
       => /\ r \in Deduping \ rewritten'
          /\ deduped' = tested'[r].deduped \cup {r}

\* A run that reports success leaves its entry set and the sources, refactored
\* call sites included, that its validation passed on, installed from the same
\* manifest.  The exception: the dedupe that follows the validation and the proof
\* rewrites lockfile and node_modules once more, and nothing tests the result
\* (apply-version-bump.ts:481-494, apply-package-override/index.ts:550-559).
AppliedIsTested ==
  [][\A r \in Runs :
        Ends(r) /\ result'[r] = "applied"
          => LeavesTested(r) /\ manifest'[EntryOf[r]] = "new"]_vars

\* Every call of a tool ends, also when a process died with the lock or hangs
\* with it; only update-outdated may itself hang.
EveryRunEnds ==
  \A r \in Runs : pc[r] = "waiting" ~> (pc[r] = "done" \/ MayHang(r))

\* The manifest between two sections: what a live run changed under the lock
\* does not count before it ends.
Settled ==
  IF lock \in Runs /\ pc[lock] \in Critical THEN before[lock] ELSE manifest

\* Only runs that follow one another are meant to be atomic.
Edits ==
  INSTANCE AtomicEdits
    WITH entries <- IF overlap THEN Old ELSE Settled,
         result <- IF overlap THEN [r \in Runs |-> "none"] ELSE result

\* One after the other, the runs are atomic edits of the manifest.
ImplementsEdits == Edits!Spec

=============================================================================
