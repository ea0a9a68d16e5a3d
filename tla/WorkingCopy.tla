---------------------------- MODULE WorkingCopy ----------------------------
(***************************************************************************)
(* The project directory a remediation run works on: its files, its        *)
(* node_modules and its git branches.                                      *)
(*                                                                         *)
(* Of the files only what a remediation writes is kept: which packages the *)
(* manifest (package.json, its overrides and the lockfile) holds at a      *)
(* fixed version, which CVE the patch file of a package was generated for, *)
(* the CVEs recorded in .autoremediator/state/idempotency.json, and the    *)
(* evidence logs.  One release of a package fixes all its CVEs.            *)
(***************************************************************************)
EXTENDS Integers, Sequences, FiniteSets

CONSTANTS
  Packages,
  Cves,
  NoCve,      \* no patch file
  Projects    \* the projects to choose from: which packages a CVE affects, how
              \* changes are grouped into requests, and a bound on the scans

ASSUME WorkingCopyAssumption ==
  /\ NoCve \notin Cves
  /\ Projects \subseteq
       [affects: [Cves -> SUBSET Packages],
        grouping: {"all", "per-cve", "per-package", "by-severity"},
        scans: Nat \ {0}]

VARIABLES
  project,    \* the project
  tree,       \* the files
  installed,  \* packages at a fixed version in node_modules
  branches,   \* the commits at the tips of the branches, the oldest first;
              \* the first is the commit that was checked out at the start
  head        \* the branch that is checked out

\* An index file whose writing was cut off: it does not parse.
Torn == {NoCve}

Contents == [fixed: SUBSET Packages,
             patchOf: [Packages -> Cves \cup {NoCve}],
             ledger: (SUBSET Cves) \cup {Torn},
             evidence: SUBSET (1..project.scans)]

\* The project before the first run: nothing fixed, no patch, no state files.
Untouched == [fixed |-> {}, patchOf |-> [p \in Packages |-> NoCve],
              ledger |-> {}, evidence |-> {}]

\* A fix is what a result reports as applied: a version in the manifest, or the
\* patch file generated for a CVE.
Fixes == [cve: Cves, pkg: Packages, how: {"version", "patch"}]

Holds(content, fix) ==
  \/ fix.how = "version" /\ fix.pkg \in content.fixed
  \/ fix.how = "patch" /\ content.patchOf[fix.pkg] = fix.cve

\* The fix is in the files or on a branch.
Kept(fix) == Holds(tree, fix) \/ \E b \in DOMAIN branches : Holds(branches[b], fix)

\* git status --porcelain prints something.
Dirty == tree # branches[head]

=============================================================================
