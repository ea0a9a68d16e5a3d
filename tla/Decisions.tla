------------------------------ MODULE Decisions ------------------------------
(***************************************************************************)
(* The decisions that the tools take from data alone, each asked for every *)
(* input within bounds: which version to install, what a change of the     *)
(* dependencies introduces, whether a symbol is reachable, how a file is   *)
(* rewritten, whether a suppression takes effect, what is installed and    *)
(* when a stored patch is retired.  asked is the question being answered;  *)
(* questions do not depend on each other.                                  *)
(***************************************************************************)
EXTENDS Integers, Sequences, FiniteSets

CONSTANTS Versions,     \* published versions of a package
          UpgradeEntries,  \* OSV entries of one advisory
          PatchedRanges,   \* entries of advisories with a fix, from the start
          Listings,     \* what the package manager lists
          Packages,     \* packages of a delta scan
          Numbers,      \* their versions
          Manifests, Locks, Findings,  \* of its sides
          Programs,     \* the files of a refactoring
          MaxArguments, \* bound: arguments of a call
          PolicyLists, Suppressions    \* of a policy and a suppressions file

VARIABLE asked

A == INSTANCE StoredPatches
D == INSTANCE DeltaScan
R == INSTANCE Reachability
F == INSTANCE Refactoring
P == INSTANCE Policy

ASSUME VersionsAssumption ==
  /\ Versions \subseteq A!Version /\ IsFiniteSet(Versions)
  /\ UpgradeEntries \subseteq A!Intervals(Versions \cup {A!Zero})
  /\ PatchedRanges \subseteq {<<A!Introduced(A!Zero), A!Fixed(v)>> : v \in Versions}
  /\ Listings \subseteq Seq([name : STRING, version : Versions])

ASSUME LocksAssumption ==
  Locks \subseteq Seq([name : Packages, version : Numbers]) /\ 0 \notin Numbers

ASSUME ProgramsAssumption ==
  /\ Programs \subseteq Seq([binding : F!Bindings, lines : Seq(Seq(F!Uses))])
  /\ MaxArguments \in Nat

ASSUME PolicyAssumption ==
  PolicyLists \subseteq Seq(SUBSET STRING) /\ Suppressions \subseteq Seq(P!Entry) \X Seq(P!Entry)

Nothing == [topic |-> "none"]

AskInit == asked = Nothing

Idle == asked = Nothing

AskUpgrade ==
  /\ Idle
  /\ \E installed \in Versions, published \in SUBSET Versions,
        osv \in UpgradeEntries, gh \in {<<>>} \cup {<<e>> : e \in PatchedRanges} :
       asked' = [topic |-> "upgrade", installed |-> installed,
                 published |-> published, osv |-> <<osv>>, gh |-> gh]

AskEvaluation ==
  /\ Idle
  /\ \E version \in Versions, published \in SUBSET Versions,
        e1 \in PatchedRanges, e2 \in PatchedRanges :
       asked' = [topic |-> "evaluation", version |-> version, published |-> published,
            advisories |-> {<<e1>>, <<e2>>}]

AskInventory ==
  /\ Idle
  /\ \E listing \in Listings, declared \in Listings, osv \in UpgradeEntries,
        version \in Versions :
       /\ Len(declared) <= 1
       /\ asked' = [topic |-> "inventory", listing |-> listing,
                    declared |-> declared, osv |-> <<osv>>, version |-> version]

AskRetirement ==
  /\ Idle
  /\ \E version \in Versions, published \in {{}, Versions},
        e1 \in PatchedRanges, e2 \in PatchedRanges, cve \in 0..2,
        autoApply \in BOOLEAN, runTests \in BOOLEAN,
        failing \in {"none", "write", "patch", "manifest", "install", "tests"} :
       \E repo \in A!Repositories({version}) :
         asked' = [topic |-> "retirement", version |-> version,
                   published |-> published, advisories |-> <<<<e1>>, <<e2>>>>,
                   cve |-> cve, autoApply |-> autoApply, runTests |-> runTests,
                   failing |-> failing, repo |-> repo]

AskDelta ==
  /\ Idle
  /\ \E old \in [manifest : Manifests, lock : Locks],
        new \in [manifest : Manifests, lock : Locks], cves \in Findings :
       asked' = [topic |-> "delta", old |-> old, new |-> new, cves |-> cves]

AskReachability ==
  /\ Idle
  /\ \E f \in R!Files, g \in R!Files, withSymbol \in BOOLEAN, below \in R!Belows :
       asked' = [topic |-> "reachability", files |-> {f, g}, withSymbol |-> withSymbol,
            below |-> below]

AskRefactoring ==
  /\ Idle
  /\ \E files \in Programs, known \in BOOLEAN,
        words \in SUBSET F!Words, members \in SUBSET {"old", "sync"} :
       \E failing \in 0..Len(files) : \E left \in [1..failing -> F!Lefts] :
         asked' = [topic |-> "refactoring", files |-> files, known |-> known,
              output |-> [words |-> words,
                          suggestions |-> F!Suggestions(files, members)],
              failing |-> failing, left |-> left]

AskArguments ==
  /\ Idle
  /\ \E n, m, drop \in 0..MaxArguments, i, j \in 1..MaxArguments :
       \E nested \in 0..n :
         asked' = [topic |-> "arguments",
                   call |-> [args |-> [k \in 1..n |-> k], nested |-> nested,
                             inner |-> [k \in 1..m |-> n + k]],
                   drop |-> drop, i |-> i, j |-> j]

AskPolicy ==
  /\ Idle
  /\ \E inline \in BOOLEAN, state \in {"ok", "broken", "list"},
        other \in {"ok", "broken", "list", "absent"},
        deny \in PolicyLists, allow \in PolicyLists, lists \in Suppressions, id \in {"c1", "c2"}:
       asked' = [topic |-> "policy",
            options |-> [inline |-> inline,
                         policy |-> [state |-> state, deny |-> deny, allow |-> allow,
                                     suppressions |-> lists[1]],
                         extra |-> [state |-> other, deny |-> <<>>, allow |-> <<>>,
                                    suppressions |-> lists[2]]],
            saved |-> P!Suppression(id, "fixed")]

\* The answer is given.
Answer == ~Idle /\ asked' = Nothing

AskNext ==
  \/ AskUpgrade \/ AskEvaluation \/ AskInventory \/ AskRetirement \/ AskDelta \/ AskReachability
  \/ AskRefactoring \/ AskArguments \/ AskPolicy \/ Answer

AskSpec == AskInit /\ [][AskNext]_asked

-----------------------------------------------------------------------------
(* Properties *)

\* A release that OSV's events mean as affected is reported, whatever GitHub
\* says (check-version-match on the result of lookup-cve).
MatchFindsVulnerable ==
  asked.topic = "upgrade" /\ ~A!Prerelease(asked.installed)
    /\ A!Affected(asked.installed, asked.osv[1])
    => A!Match(asked.installed, A!LookupCve(asked.osv, asked.gh)) # 0

\* With one interval, every affected release is reported.  The version that
\* find-fixed-version chooses is published, no downgrade, not below the fix that
\* either database names, and outside the range; it leaves the major version
\* only when nothing within it would do.  One case is left: when OSV names no fix
\* and the floor is GitHub's, a prerelease may be chosen that OSV's range means,
\* because semver matches no prerelease with the range (registry.ts:117).
FixIsSafe ==
  LET affected == A!LookupCve(asked.osv, asked.gh)
      fix == A!FindFixedVersion(asked.installed, asked.published, affected)
      Upward(v) == A!AtMost(asked.installed, v) /\ A!AtMost(affected[1].firstPatched, v)
      FloorOfGitHub == A!FirstPatched(asked.osv[1]) = A!NoVersion
  IN /\ MatchFindsVulnerable
     /\ asked.topic = "upgrade" /\ A!Match(asked.installed, affected) # 0
          /\ affected[1].firstPatched # A!NoVersion =>
       /\ fix # A!NoVersion =>
            /\ fix \in asked.published /\ Upward(fix)
            /\ A!Affected(fix, asked.osv[1]) => A!Prerelease(fix) /\ FloorOfGitHub
       /\ \A v \in asked.published : Upward(v) /\ ~A!Affected(v, asked.osv[1]) =>
            /\ fix # A!NoVersion
            /\ v[1] = asked.installed[1] => fix[1] = v[1]
            /\ v[1] = asked.installed[1] /\ v[2] = asked.installed[2] => A!AtMost(fix, v)

\* The recommendation for a release is affected by none of the advisories, when
\* each affects all versions below its fix; an advisory that does not cover the
\* installed version is not looked at again for the recommended one.
RecommendationIsSafe ==
  asked.topic = "evaluation" /\ ~A!Prerelease(asked.version) =>
    LET report == A!Evaluate(asked.version, asked.published, asked.advisories)
    IN \A entries \in asked.advisories : ~A!Affected(report.recommended, entries[1])

\* A patch is gone only when package.json asks for a version that the patch's
\* CVE does not affect, at whatever step the reconciliation failed; a failing
\* install or test leaves everything as it was, and nothing is touched unasked.
RetirementIsSafe ==
  asked.topic = "retirement" =>
    LET safe == A!SafeUpgrade(asked.cve, asked.version, asked.published,
                              asked.advisories)
        end == A!Reconcile(asked.repo, safe, asked.autoApply, asked.runTests,
                           asked.failing)
        Unaffected(v) == \E i \in 1..2 :
          /\ asked.cve \in {0, i}
          /\ ~A!Affected(v, asked.advisories[i][1])
          /\ A!Satisfies(asked.version, A!Parse(asked.advisories[i][1]).range)
    IN /\ ~end.repo.patch =>
            /\ {end.repo.direct, end.repo.override} # {A!NoVersion}
            /\ \A v \in {end.repo.direct, end.repo.override} \ {A!NoVersion} :
                 Unaffected(v)
       /\ end.status # "upgraded" /\ asked.failing \notin {"patch", "manifest"}
            => end.repo = asked.repo
       /\ ~asked.autoApply => end.repo = asked.repo

\* A copy of package p in the tree that an advisory affects is reported, from
\* the listing to the match (check-inventory, then check-version-match).
VulnerableCopyIsFound ==
  asked.topic = "inventory" =>
    \A i \in 1..Len(asked.listing) :
      /\ asked.listing[i].name = "p"
      /\ ~A!Prerelease(asked.listing[i].version)
      /\ A!Affected(asked.listing[i].version, asked.osv[1])
      => A!Matched(asked.listing, asked.declared, "p", A!LookupCve(asked.osv, <<>>))

\* With at most one version of p in the tree, it is; and a stored patch of p
\* that is reported as drifted is then not for the installed version, one that
\* is not reported is for it, unless p is not installed.
InventoryIsTrue ==
  asked.topic = "inventory" =>
    LET versions == {e.version : e \in {e \in A!ToSet(asked.listing) : e.name = "p"}}
    IN (\A v, w \in versions : v = w) =>
         /\ VulnerableCopyIsFound
         /\ asked.listing # <<>> /\ versions # {} =>
              (A!Drifted(asked.listing, asked.declared, "p", asked.version)
                 <=> asked.version \notin versions)

\* From the installed tree to the upgrade: an affected release is found, and the
\* ways to a version (the fix of an advisory, the recommendation, the upgrade
\* that replaces a patch) lead out of the affected range, but for the
\* prereleases of FixIsSafe.  An installed prerelease matches no range.
UpgradeIsSafe ==
  InventoryIsTrue /\ FixIsSafe /\ RecommendationIsSafe /\ RetirementIsSafe

\* A finding that the new lockfile exposes and the old one did not is among the
\* introduced ones, unless the package's entry in package.json changed too (it
\* is then judged by that entry alone); with single versions, a finding that
\* counts as resolved is gone.
DeltaMissesNothing ==
  asked.topic = "delta" =>
    LET report == D!ScanDelta(asked.old, asked.new, asked.cves)
        old == D!Exposure(asked.old.lock, asked.cves)
        new == D!Exposure(asked.new.lock, asked.cves)
        direct == D!Direct(asked.old, asked.new)
    IN /\ \A x \in new \ old : x \in report.introduced \/ x[1] \in direct
       /\ \A x \in report.resolved \cap new :
            x[1] \in direct \/ D!Several(asked.new.lock, x[1])
       /\ report.verdict # "degraded" => \A x \in new \ old : x[1] \in direct

\* A package called not reachable is executed only in a way of this list.  In a
\* file that is skipped, or that could not be read or parsed, or by a loader that
\* is not recognised: anything.  In the other files, when a symbol was asked for:
\* a use that is no plain call, a call through a module bound by require or a
\* dynamic import, a direct binding by another name than the symbol's from a
\* subpath or a require.  Below another package: anything when a file that was
\* read refers to this one, else what is no dependency in the manifest, found in
\* node_modules, of a package that a read file imports.
NotReachableMisses ==
  asked.topic = "reachability"
    /\ R!Assess(asked.files, asked.withSymbol, asked.below) = "not-reachable" =>
       /\ \A f \in asked.files : f.use # "none" =>
            R!Hidden(f) \/ (asked.withSymbol /\ R!Unseen(f))
       /\ \A f \in asked.files : f.reference = "reexport" => R!Hidden(f)
       /\ asked.below = "direct" =>
            \/ \A f \in asked.files : f.reference = "parent" => R!Hidden(f)
            \/ \E f \in asked.files : ~R!Hidden(f) /\ f.reference \notin {"none", "parent"}

\* A file that the codemods rewrite is its old text with every edit where it
\* belongs, whichever rules fire together, and edits overlap only where two
\* rules or two diagnostics claim the same tokens; a failed write leaves every
\* file as it was, but for one whose snapshot could not be written back.
EditsLand ==
  asked.topic = "refactoring" =>
    LET result == F!Refactor(asked.files, asked.known, asked.output,
                             asked.failing, asked.left)
    IN \A k \in 1..Len(asked.files) :
         LET f == asked.files[k]
             edits == F!Edits(f, asked.known, asked.output) IN
         /\ F!Disjoint(edits) \/ F!RulesCollide(f, asked.known, asked.output)
         /\ result.texts[k] # F!Source(f) =>
              /\ F!CallSite(f)
              /\ result.applied \/ (k <= asked.failing /\ asked.left[k] # "restored")
         /\ result.applied /\ F!CallSite(f) /\ F!Disjoint(edits)
              => result.texts[k] = F!Splice(F!Source(f), edits)

\* The edits of a call's arguments overlap only when the dropped argument is
\* swapped too or an edited call is nested in an edited argument, and otherwise
\* land where they belong; dropping or swapping alone, with no nested call, gives
\* the text of the list without the argument or of the swapped list.
ArgumentsLand ==
  asked.topic = "arguments" =>
    LET args == asked.call.args
        i == asked.i
        j == asked.j
        edits == F!ArgumentEdits(asked.call, asked.drop, i, j)
        result == F!TransformArguments(asked.call, asked.drop, i, j)
    IN /\ F!Disjoint(edits) \/ F!ArgumentsCollide(asked.call, asked.drop, i, j)
       /\ F!Disjoint(edits) => result = F!Splice(F!CallText(asked.call), edits)
       /\ asked.call.nested = 0 /\ i = j =>
            result = F!Arguments(IF F!Drops(Len(args), asked.drop)
                                 THEN F!RemoveAt(args, asked.drop) ELSE args)
       /\ asked.call.nested = 0 /\ ~F!Drops(Len(args), asked.drop) =>
            result = F!Arguments(IF F!Swaps(Len(args), i, j)
                                 THEN [args EXCEPT ![i] = args[j], ![j] = args[i]]
                                 ELSE args)

\* A CVE that triage reports as suppressed is skipped by the next run with the
\* same options, for the reason just given, or for that of the policy when the
\* entry went to the suppressions file and the policy has one of its own.  Three
\* cases are left: the policy is given inline; the file is a list; the entry it
\* replaced had expired.  No other CVE's suppression changes, and no decision on a
\* package, by what the policy said as it was last read: a file that could not be
\* parsed had no effect, and its text is lost.
SuppressionHolds ==
  asked.topic = "policy" =>
    LET saved == asked.saved
        before == asked.options
        after == P!Triage(before, saved)
        separate == before.extra.state # "absent"
        target == IF separate THEN before.extra ELSE before.policy
        replaced == P!Replaced(P!LoadPolicy(target).suppressions, saved)
        found == P!Preflight(after, saved.id)
        own == P!ActiveSuppression(P!LoadPolicy(before.policy).suppressions, saved.id)
    IN /\ \A p \in UNION {P!ToSet(l) : l \in PolicyLists} : \A q \in p :
            P!IsPackageAllowed(P!LoadPolicy(after.policy), q)
              = P!IsPackageAllowed(P!LoadPolicy(before.policy), q)
       /\ \A id \in {"c1", "c2"} \ {saved.id} :
            P!Preflight(after, id) = P!Preflight(before, id)
       /\ \/ ~separate /\ before.inline
          \/ target.state = "list"
          \/ replaced # P!NoSuppression /\ ~P!IsActiveSuppression(replaced)
          \/ /\ found # P!NoSuppression
             /\ found.justification = saved.justification \/ (separate /\ found = own)
=============================================================================
