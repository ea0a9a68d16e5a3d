--------------------------- MODULE LocalPipeline ---------------------------
(***************************************************************************)
(* remediation/local/: the deterministic pipeline that remediates one CVE. *)
(* It looks the CVE up, lists the installed packages the CVE affects, and  *)
(* for each takes a snapshot, tries a version bump or an override, perhaps *)
(* falls back to a generated patch, and decides what becomes of the result *)
(* (local/run.ts, primary-strategy.ts, fallback.ts, disposition.ts).       *)
(*                                                                         *)
(* A tool that changes the project is one step here; RepoMutation has its  *)
(* steps and its lock.                                                     *)
(***************************************************************************)
EXTENDS WorkingCopy

CONSTANTS
  NoPackage,  \* no package in hand
  Direct,     \* packages that package.json names
  Denied,     \* denyPackages of the policy
  Escalating  \* the CVEs with an exploit signal or an SLA breach

VARIABLES
  phase,      \* "off", "lookup", "select", "primary", "fallback", "decide", "done"
  cve,        \* the CVE in hand
  todo,       \* vulnerable packages still to do
  pkg,        \* the package in hand
  snapshot,   \* the files when it was selected
  draft,      \* its result so far
  results,    \* the results of the CVE
  containment \* containmentMode

pipelineVars == <<phase, cve, todo, pkg, snapshot, draft, results, containment>>

Reasons == {"none", "policy-blocked", "constraint-blocked", "no-safe-version",
            "install-failed", "validation-failed", "override-apply-failed",
            "major-bump-required", "breaking-change-unresolved",
            "proof-of-fix-failed", "source-fetch-failed",
            "patch-generation-failed", "patch-confidence-too-low",
            "consensus-failed", "patch-validation-failed", "patch-apply-failed"}

Drafts == [applied: BOOLEAN, how: {"none", "version", "patch"}, reason: Reasons]
Results == [cve: Cves, pkg: Packages, applied: BOOLEAN,
            how: {"none", "version", "patch"},
            disposition: {"escalate", "hold-for-approval", "simulate-only", "auto-apply"}]

Unresolved(reason) == [applied |-> FALSE, how |-> "none", reason |-> reason]
Applied(how) == [applied |-> TRUE, how |-> how, reason |-> "none"]

-----------------------------------------------------------------------------

\* shouldAttemptPatchFallback, unless the caller prefers version bumps.
FallbackReasons == {"no-safe-version", "install-failed", "override-apply-failed",
                    "validation-failed", "major-bump-required", "proof-of-fix-failed"}

\* computeDisposition: the dispositions a result can get.  A failed check, an
\* exploit signal or an SLA breach escalates; then a result may be held, for a
\* low confidence or because the package is transitive; and then it matters
\* whether it was applied.  A detected regression, which escalates too, cannot
\* occur: a safe version is never in the vulnerable range.
Dispositions(c, p, result) ==
  IF \/ result.reason \in {"consensus-failed", "validation-failed",
                           "patch-validation-failed", "install-failed"}
     \/ c \in Escalating
  THEN {"escalate"}
  ELSE IF result.reason = "patch-confidence-too-low"
  THEN {"hold-for-approval"}
  ELSE {IF result.applied THEN "auto-apply" ELSE "simulate-only"}
         \cup (IF p \notin Direct \/ (result.how = "patch" /\ result.applied)
               THEN {"hold-for-approval"} ELSE {})

\* mutant: the deny list is applied to the match, without a result
AllowedVulnerable(c, atFix) == {p \in project.affects[c] : p \notin atFix \cup Denied}

\* findVulnerablePackages
Vulnerable(c, atFix) == {p \in project.affects[c] : p \notin atFix}

-----------------------------------------------------------------------------

\* runLocalRemediationPipeline(c)
Enter(c) ==
  /\ cve' = c
  /\ results' = {}
  /\ phase' = "lookup"

\* The CVE is not found, suppressed, or affects no npm package.
NothingKnown ==
  /\ phase = "lookup"
  /\ phase' = "done"
  /\ UNCHANGED <<project, tree, installed, branches, head, cve, todo, pkg, snapshot,
                 draft, results, containment>>

\* check-inventory lists node_modules, or reads package.json when the listing
\* gives nothing, and then knows the direct dependencies only.
Inventory ==
  /\ phase = "lookup"
  /\ \/ todo' = Vulnerable(cve, installed)
     \/ todo' = Vulnerable(cve, tree.fixed) \cap Direct
  /\ phase' = "select"
  /\ UNCHANGED <<project, tree, installed, branches, head, cve, pkg, snapshot, draft,
                 results, containment>>

\* The next vulnerable package: createProjectSnapshot, then the deny list and
\* the reachability of the package.
Select(p) ==
  /\ phase = "select"
  /\ p \in todo
  /\ pkg' = p
  /\ todo' = todo \ {p}
  /\ snapshot' = tree
  /\ \/ /\ p \in Denied
        /\ draft' = Unresolved("policy-blocked")
        /\ phase' = "decide"
     \/ /\ p \notin Denied
        /\ draft' = Unresolved("none")
        /\ phase' \in {"decide", "primary"}
  /\ UNCHANGED <<project, tree, installed, branches, head, cve, results, containment>>

\* Nothing is left to do for the CVE.
Complete ==
  /\ phase = "select"
  /\ todo = {}
  /\ phase' = "done"
  /\ UNCHANGED <<project, tree, installed, branches, head, cve, todo, pkg, snapshot,
                 draft, results, containment>>

\* The primary strategy gave this result: it is decided on, or forgotten for
\* the patch fallback, which preferVersionBump turns off.
Conclude(result) ==
  \/ draft' = result /\ phase' = "decide"
  \/ /\ ~result.applied /\ result.reason \in FallbackReasons
     /\ draft' = Unresolved("none")
     /\ phase' = "fallback"

\* What node_modules may hold at a fixed version after an install: what the
\* manifest fixes, and perhaps what an earlier install fixed, as long as the
\* ranges allow it.
Installs(content) == {content.fixed, content.fixed \cup installed}

\* resolvePrimaryResult ends before a tool is called, or the tool before the
\* lock: no safe version, the trust gate, a major bump, a constraint on
\* transitive packages.
PrimaryRefused ==
  /\ phase = "primary"
  /\ \/ \E reason \in {"no-safe-version", "policy-blocked", "major-bump-required"} :
          Conclude(Unresolved(reason))
     \/ pkg \notin Direct /\ Conclude(Unresolved("constraint-blocked"))
  /\ UNCHANGED <<project, tree, installed, branches, head, cve, todo, pkg, snapshot,
                 results, containment>>

\* apply-version-bump or apply-package-override succeeds: the manifest has the
\* fixed version and node_modules is installed from it.
PrimaryApplied ==
  /\ phase = "primary"
  /\ tree' = [tree EXCEPT !.fixed = @ \cup {pkg}]
  /\ installed' \in Installs(tree')
  /\ Conclude(Applied("version"))
  /\ UNCHANGED <<project, branches, head, cve, todo, pkg, snapshot, results, containment>>

\* The tool fails and restores the manifest.  node_modules is as it was, or
\* installed again, or left with the fixed version: the install of the restored
\* manifest may fail, and its range may allow the version.
PrimaryFailed ==
  /\ phase = "primary"
  /\ installed' \in {installed, tree.fixed, installed \cup {pkg}}
  /\ \E reason \in {"install-failed", "override-apply-failed", "validation-failed",
                    "breaking-change-unresolved", "proof-of-fix-failed",
                    "policy-blocked"} :
       Conclude(Unresolved(reason))
  /\ UNCHANGED <<project, tree, branches, head, cve, todo, pkg, snapshot, results,
                 containment>>

\* tryLocalPatchFallback ends before the patch is written: the source cannot be
\* fetched, nothing is generated, the confidence is low, there is no consensus,
\* or the patch is no unified diff.
FallbackRefused ==
  /\ phase = "fallback"
  /\ \E reason \in {"source-fetch-failed", "patch-generation-failed",
                    "patch-confidence-too-low", "consensus-failed",
                    "patch-apply-failed"} :
       draft' = Unresolved(reason)
  /\ phase' = "decide"
  /\ UNCHANGED <<project, tree, installed, branches, head, cve, todo, pkg, snapshot,
                 results, containment>>

\* apply-patch-file writes the patch, under a name made of the package and its
\* version, and patch-package applies it to the vulnerable version.
FallbackApplied ==
  /\ phase = "fallback"
  /\ tree' = [tree EXCEPT !.patchOf[pkg] = cve]
  /\ \E atFix \in Installs(tree) : installed' = atFix \ ({pkg} \ tree.fixed)
  /\ draft' = Applied("patch")
  /\ phase' = "decide"
  /\ UNCHANGED <<project, branches, head, cve, todo, pkg, snapshot, results, containment>>

\* The patch was written and cannot be applied, or fails its tests or its proof:
\* cleanupPatchArtifacts removes the file, whoever wrote it first.
FallbackFailed ==
  /\ phase = "fallback"
  /\ tree' = [tree EXCEPT !.patchOf[pkg] = NoCve]
  /\ installed' \in {installed} \cup Installs(tree)
  /\ \E reason \in {"patch-validation-failed", "patch-apply-failed",
                    "proof-of-fix-failed", "policy-blocked"} :
       draft' = [applied |-> FALSE, how |-> "patch", reason |-> reason]
  /\ phase' = "decide"
  /\ UNCHANGED <<project, branches, head, cve, todo, pkg, snapshot, results, containment>>

ManifestRestored == [tree EXCEPT !.fixed = snapshot.fixed]  \* mutant: patches stay

\* restoreProjectSnapshotSync: manifests, lockfiles and patch files; the state
\* files have not changed since the snapshot.
Restored == [tree EXCEPT !.fixed = snapshot.fixed, !.patchOf = snapshot.patchOf]

\* finalizePatchResult: the disposition, and in containment mode the roll back
\* of an applied change that is to be escalated.  The package's snapshot is gone
\* with its turn of the loop.
Decide ==
  /\ phase = "decide"
  /\ \E disposition \in Dispositions(cve, pkg, draft) :
       LET contained == containment /\ draft.applied /\ disposition = "escalate"
       IN  /\ results' = results \cup
                {[cve |-> cve, pkg |-> pkg, how |-> draft.how,
                  applied |-> draft.applied /\ ~contained,
                  disposition |-> disposition]}
           /\ tree' = IF contained THEN Restored ELSE tree
  /\ phase' = "select"
  /\ pkg' = NoPackage
  /\ draft' = Unresolved("none")
  /\ snapshot' = Untouched
  /\ UNCHANGED <<project, installed, branches, head, cve, todo, containment>>

\* A source, the registry or the repository lock throws: the results so far are
\* lost, the changes are not.
Throws == phase \in {"lookup", "primary", "fallback"} /\ phase' = "off"

PipelineStep ==
  \/ NothingKnown
  \/ Inventory
  \/ \E p \in Packages : Select(p)
  \/ Complete
  \/ PrimaryRefused
  \/ PrimaryApplied
  \/ PrimaryFailed
  \/ FallbackRefused
  \/ FallbackApplied
  \/ FallbackFailed
  \/ Decide

=============================================================================
