---------------------------- MODULE ScanRunProofs ----------------------------
(***************************************************************************)
(* Proofs about ScanRun, the pipeline and the change requests it runs, for *)
(* any CVEs, packages, projects and number of failures: changes are        *)
(* claimed, claimed fixes survive, nothing is missed silently, requests    *)
(* propose their own fixes only, and a resumed scan repeats no CVE.        *)
(***************************************************************************)
EXTENDS ScanRun, SequenceTheorems, TLAPS

-----------------------------------------------------------------------------
(* The inductive invariant, by parts *)

\* What the files held before the package in hand was changed.
Before == IF draft.applied THEN snapshot ELSE tree

\* The fixes of results that are decided on, and all the fixes but the draft.
Decided == FixesIn(results)
Reported == claims \cup abandoned \cup Decided

\* Every change in these files is one of these fixes.
Claimed(content, fixes) ==
  /\ \A p \in content.fixed :
       \E fix \in fixes : fix.how = "version" /\ fix.pkg = p
  /\ \A p \in Packages :
       content.patchOf[p] # NoCve =>
         [cve |-> content.patchOf[p], pkg |-> p, how |-> "patch"] \in fixes

\* Every change between two states of the files is one of these fixes, or the
\* removal of a patch.
Explained(new, old, fixes) ==
  /\ \A p \in new.fixed \ old.fixed :
       \E fix \in fixes : fix.how = "version" /\ fix.pkg = p
  /\ \A p \in Packages :
       \/ new.patchOf[p] \in {old.patchOf[p], NoCve}
       \/ [cve |-> new.patchOf[p], pkg |-> p, how |-> "patch"] \in fixes

\* Phases of the pipeline and steps of a request have their modes, and a draft
\* is applied only until it is decided on.
Modes ==
  /\ mode # "remediate" => phase = "off" /\ results = {} /\ ~draft.applied
  /\ mode = "remediate" => phase # "off"
  /\ mode # "idle" => scan > 0
  /\ mode \in {"remediate", "request", "store"} => cve \in Cves
  /\ mode \in {"request", "final"} <=> step # "off"
  /\ mode \in {"request", "final"} => changeRequest
  /\ ~changeRequest => requests = {}
  /\ phase \in {"primary", "fallback", "decide"} => pkg \in Packages
  /\ draft.applied => /\ phase = "decide"
                      /\ draft \in {Applied("version"), Applied("patch")}
  /\ \A r \in results : /\ r.cve = cve
                        /\ r.applied => r.how \in {"version", "patch"}
  /\ \A k \in DOMAIN groups : groups[k] \subseteq Cves

\* The snapshot of a package in hand differs from the files by the draft alone.
Turn ==
  /\ phase \in {"primary", "fallback"} => tree = snapshot
  /\ draft = Applied("version") =>
       tree = [snapshot EXCEPT !.fixed = @ \cup {pkg}]
  /\ draft = Applied("patch") =>
       tree = [snapshot EXCEPT !.patchOf[pkg] = cve]

\* The changes of the files and the branches are reported fixes.
Accounted ==
  /\ Claimed(Before, Reported)
  /\ \A b \in DOMAIN branches : Claimed(branches[b], Reported)

\* A version that was reported as fixed is in the files or on a branch.
Safe ==
  \A fix \in claims \cup Decided :
     fix.how = "version" =>
       \/ fix.pkg \in Before.fixed
       \/ \E b \in DOMAIN branches : fix.pkg \in branches[b].fixed

\* In containment mode no fix of an escalating CVE is reported as applied.
Contained ==
  containment => \A fix \in claims \cup Decided : fix.cve \notin Escalating

\* node_modules has what the files or a branch have, or what drifted.
Installed ==
  \A p \in installed \ drifted :
     \/ p \in tree.fixed
     \/ \E b \in DOMAIN branches : p \in branches[b].fixed

\* Without change requests the index keeps every stored CVE that no cut-off write
\* erased.
Indexed == ~changeRequest => stored \ cutOff \subseteq tree.ledger

\* A branch that was cut is a copy until the commit, and no request names it.
Cut ==
  step = "commit" =>
    /\ base # head
    /\ \E b \in DOMAIN branches \ {head} : branches[b] = branches[head]
    /\ \A r \in requests : r.branch # head /\ r.base # head

\* The fixes a change request may propose.
FixesOf(cs) == {fix \in claims : fix.cve \in cs}

\* The fixes by which the files may differ from the branch.
Own ==
  CASE mode = "remediate" -> Decided
    [] mode = "request" /\ DOMAIN groups # {} -> FixesOf({cve})
    [] OTHER -> {}

\* As long as nothing fails and no result is lost, what is not yet on a branch
\* belongs to the CVE in hand.
Apart ==
  changeRequest /\ mishaps = 0 /\ abandoned = {} =>
    /\ step \in {"off", "next"} => Explained(Before, branches[head], Own)
    /\ step = "next" => base \in {head, Detached}
    /\ step = "commit" =>
         /\ Explained(tree, branches[head], FixesOf(group))
         /\ base # Detached => branches[base] = branches[head]
    /\ step \in {"push", "open"} /\ base # Detached =>
         Explained(branches[head], branches[base], FixesOf(group))
    /\ step \in {"push", "open", "return"} => tree = branches[head]
    /\ mode = "request" => \A k \in DOMAIN groups : groups[k] = {cve}
    /\ \A r \in requests :
         Explained(branches[r.branch], branches[r.base], FixesOf(r.cves))

IInv == /\ TypeOK /\ Modes /\ Turn /\ Accounted /\ Safe /\ Contained
        /\ Installed /\ Indexed /\ Cut /\ Apart

-----------------------------------------------------------------------------
(* What the operators give *)

\* More fixes claim and explain more; nothing explains no change.
LEMMA MoreFixes ==
  ASSUME NEW x, NEW y, NEW f, NEW g, f \subseteq g
  PROVE  /\ Claimed(x, f) => Claimed(x, g)
         /\ Explained(x, y, f) => Explained(x, y, g)
         /\ Explained(x, x, f)
BY DEF Claimed, Explained

\* Only the versions and the patches of files count.
LEMMA SameChanges ==
  ASSUME NEW x, NEW y, x.fixed = y.fixed, x.patchOf = y.patchOf, NEW f, NEW z
  PROVE  /\ Claimed(x, f) => Claimed(y, f)
         /\ Explained(x, z, f) => Explained(y, z, f)
BY DEF Claimed, Explained

\* No results, no fixes; a result adds its fix when it is applied.
LEMMA FixesOfResults ==
  /\ FixesIn({}) = {}
  /\ \A rs, r :
       FixesIn(rs \cup {r}) =
         FixesIn(rs) \cup
           (IF r.applied
            THEN {[cve |-> r.cve, pkg |-> r.pkg, how |-> r.how]} ELSE {})
<1>1. FixesIn({}) = {}
  BY DEF FixesIn
<1>2. ASSUME NEW rs, NEW r, r.applied
      PROVE  FixesIn(rs \cup {r}) =
               FixesIn(rs) \cup {[cve |-> r.cve, pkg |-> r.pkg, how |-> r.how]}
  BY <1>2 DEF FixesIn
<1>3. ASSUME NEW rs, NEW r, ~r.applied
      PROVE  FixesIn(rs \cup {r}) = FixesIn(rs)
  BY <1>3 DEF FixesIn
<1> QED
  BY <1>1, <1>2, <1>3

\* The fixes of typed results are typed.
LEMMA FixesTyped ==
  ASSUME NEW rs \in SUBSET Results,
         \A r \in rs : r.applied => r.how \in {"version", "patch"}
  PROVE  FixesIn(rs) \subseteq Fixes
BY DEF FixesIn, Results, Fixes

\* The empty project, and the types of a content's parts.
LEMMA ContentFacts ==
  ASSUME project \in Projects
  PROVE  /\ Untouched \in Contents
         /\ \A p \in Packages : Untouched.patchOf[p] = NoCve
         /\ Untouched.fixed = {} /\ Untouched.ledger = {}
BY DEF Untouched, Contents

\* The fixes in flight are those decided on and the draft's.
LEMMA InFlightIs ==
  /\ ~draft.applied => InFlight = Decided
  /\ draft.applied =>
       InFlight = Decided \cup {[cve |-> cve, pkg |-> pkg, how |-> draft.how]}
BY DEF InFlight, Decided

\* The files hold what they held before the draft, and the draft; their changes
\* are those of fixes reported or in flight.
LEMMA TreeFacts ==
  ASSUME IInv
  PROVE  /\ Before.fixed \subseteq tree.fixed
         /\ Claimed(tree, Reported \cup InFlight)
<1>1. Claimed(Before, Reported \cup InFlight)
  BY MoreFixes DEF IInv, Accounted
<1>2. CASE ~draft.applied
  BY <1>1, <1>2 DEF Before
<1>3. CASE draft = Applied("version")
  <2>1. /\ Before = snapshot /\ pkg \in Packages /\ snapshot \in Contents
        /\ tree = [snapshot EXCEPT !.fixed = @ \cup {pkg}]
        /\ [cve |-> cve, pkg |-> pkg, how |-> "version"] \in InFlight
    BY <1>3, InFlightIs
    DEF IInv, Modes, Turn, Before, Applied, TypeOK
  <2>2. tree.fixed = snapshot.fixed \cup {pkg} /\ tree.patchOf = snapshot.patchOf
    BY <2>1 DEF Contents
  <2> QED
    BY <1>1, <2>1, <2>2 DEF Claimed
<1>4. CASE draft = Applied("patch")
  <2>1. /\ Before = snapshot /\ pkg \in Packages /\ snapshot \in Contents
        /\ tree = [snapshot EXCEPT !.patchOf[pkg] = cve]
        /\ [cve |-> cve, pkg |-> pkg, how |-> "patch"] \in InFlight
    BY <1>4, InFlightIs
    DEF IInv, Modes, Turn, Before, Applied, TypeOK
  <2>2. /\ tree.fixed = snapshot.fixed
        /\ tree.patchOf = [snapshot.patchOf EXCEPT ![pkg] = cve]
    BY <2>1 DEF Contents
  <2>3. snapshot.patchOf \in [Packages -> Cves \cup {NoCve}]
    BY <2>1 DEF Contents
  <2> QED
    BY <1>1, <2>1, <2>2, <2>3 DEF Claimed
<1> QED
  BY <1>2, <1>3, <1>4 DEF IInv, Modes

-----------------------------------------------------------------------------
(* The steps of the pipeline *)

Phases == {"off", "lookup", "select", "primary", "fallback", "decide", "done"}

\* The types after a step of the pipeline.
LEMMA PipelineTypes ==
  ASSUME TypeOK, Pipeline, UNCHANGED <<project, branches, head, cve, containment>>,
         tree' \in Contents, installed' \subseteq Packages, phase' \in Phases,
         todo' \subseteq Packages, pkg' \in Packages \cup {NoPackage},
         snapshot' \in Contents, draft' \in Drafts, results' \subseteq Results,
         phase \in {"primary", "decide"} => pkg \in Packages
  PROVE  TypeOK'
<1>1. UNCHANGED <<step, groups, group, base, requests, named, mishaps, mode, scan,
                  waiting, reports, pkgsOf, memory, changeRequest, stored, cutOff,
                  claims, abandoned>>
  BY DEF Pipeline, requestVars
<1>2. drifted' \subseteq Packages
  BY DEF Pipeline, TypeOK
<1>3. Contents' = Contents
  BY DEF Contents
<1> QED
  BY <1>1, <1>2, <1>3 DEF TypeOK, Phases

\* What stays when the files before the draft stay.
LEMMA QuietStep ==
  ASSUME IInv, Pipeline, UNCHANGED <<branches, head, containment>>,
         Before' = Before, Decided' = Decided,
         tree'.ledger = tree.ledger, tree.fixed \subseteq tree'.fixed,
         \A p \in installed' \ drifted' :
            p \in tree'.fixed \/ p \in installed \ drifted
  PROVE  Accounted' /\ Safe' /\ Contained' /\ Installed' /\ Indexed' /\ Cut' /\ Apart'
<1>1. /\ UNCHANGED <<step, groups, group, base, requests, mishaps, mode, claims,
                     changeRequest, stored, cutOff, abandoned>>
      /\ mode = "remediate"
  BY DEF Pipeline, requestVars
<1>2. Accounted' /\ Safe' /\ Contained' /\ Indexed' /\ Cut'
  <2>1. Reported' = Reported
    BY <1>1 DEF Reported
  <2>2. Accounted'
    BY <2>1 DEF IInv, Accounted
  <2> QED
    BY <1>1, <2>2 DEF IInv, Safe, Contained, Indexed, Cut
<1>3. Installed'
  BY DEF IInv, Installed
<1>4. Apart'
  <2>1. step = "off"
    BY <1>1 DEF IInv, Modes
  <2>2. Own' = Own
    BY <1>1 DEF Own
  <2>3. \A cs : FixesOf(cs)' = FixesOf(cs)
    BY <1>1 DEF FixesOf
  <2> QED
    BY <1>1, <2>1, <2>2, <2>3 DEF IInv, Apart
<1> QED
  BY <1>2, <1>3, <1>4

\* What stays of the modes in a step of the pipeline.
LEMMA PipelineModes ==
  ASSUME IInv, Pipeline, cve' = cve, phase' # "off",
         phase' \in {"primary", "fallback", "decide"} => pkg' \in Packages,
         draft'.applied => /\ phase' = "decide"
                           /\ draft' \in {Applied("version"), Applied("patch")},
         \A r \in results' : /\ r.cve = cve
                             /\ r.applied => r.how \in {"version", "patch"}
  PROVE  Modes'
<1>1. /\ UNCHANGED <<step, groups, requests, mode, scan, changeRequest>>
      /\ mode = "remediate"
  BY DEF Pipeline, requestVars
<1>2. \A k \in DOMAIN groups' : groups'[k] \subseteq Cves
  BY <1>1 DEF IInv, Modes
<1>3. \A h \in {"version", "patch"} : Applied(h)' = Applied(h)
  BY DEF Applied
<1> QED
  BY <1>1, <1>2 DEF IInv, Modes, Applied

\* A step of the pipeline that leaves files and results alone.
LEMMA CalmStep ==
  ASSUME IInv, Pipeline,
         UNCHANGED <<project, tree, branches, head, cve, results, containment>>,
         ~draft.applied, ~draft'.applied, draft' \in Drafts,
         phase' \in Phases \ {"off"},
         todo' \subseteq Packages, pkg' \in Packages \cup {NoPackage},
         phase' \in {"primary", "fallback", "decide"} => pkg' \in Packages,
         snapshot' \in Contents,
         phase' \in {"primary", "fallback"} => snapshot' = tree,
         installed' \subseteq Packages,
         \A p \in installed' : p \in installed \cup tree.fixed \cup drifted'
  PROVE  IInv'
<1>1. TypeOK'
  BY PipelineTypes DEF IInv, Modes, TypeOK
<1>2. Modes'
  BY PipelineModes DEF IInv, Modes, Phases
<1>3. Turn'
  BY DEF Turn, Applied
<1>4. Before' = Before /\ Decided' = Decided
  BY DEF Before, Decided, FixesIn
<1>5. drifted \subseteq drifted'
  BY DEF Pipeline
<1>6. Accounted' /\ Safe' /\ Contained' /\ Installed' /\ Indexed' /\ Cut' /\ Apart'
  BY <1>4, <1>5, QuietStep
<1> QED
  BY <1>1, <1>2, <1>3, <1>6 DEF IInv

\* A result that concludes is decided on, or forgotten for the fallback.
LEMMA Concluded ==
  ASSUME NEW result \in Drafts, Conclude(result)
  PROVE  \/ draft' = result /\ phase' = "decide"
         \/ draft' = Unresolved("none") /\ phase' = "fallback" /\ ~result.applied
BY DEF Conclude

\* Results without a fix, and results with one, are drafts.
LEMMA DraftFacts ==
  /\ \A reason \in Reasons : /\ Unresolved(reason) \in Drafts
                             /\ ~Unresolved(reason).applied
  /\ \A h \in {"version", "patch"} : /\ Applied(h) \in Drafts
                                     /\ Applied(h).applied
                                     /\ Applied(h).how = h
                                     /\ Applied(h).reason = "none"
BY DEF Unresolved, Applied, Drafts, Reasons

\* The lookup, the selection of a package and the end of the loop.
LEMMA LoopStep ==
  ASSUME IInv, Pipeline,
         NothingKnown \/ Inventory \/ Complete \/ \E p \in Packages : Select(p)
  PROVE  IInv'
<1> USE DEF Phases
<1>1. /\ project.affects \in [Cves -> SUBSET Packages]
      /\ mode = "remediate" /\ cve \in Cves
  BY WorkingCopyAssumption DEF IInv, TypeOK, Pipeline, Modes
<1>2. /\ phase \in {"lookup", "select"} => ~draft.applied
      /\ draft \in Drafts /\ snapshot \in Contents /\ todo \subseteq Packages
      /\ installed \subseteq Packages /\ tree \in Contents
      /\ pkg \in Packages \cup {NoPackage}
  BY DEF IInv, TypeOK, Modes
<1>3. CASE NothingKnown \/ Complete
  BY <1>2, <1>3, CalmStep DEF NothingKnown, Complete
<1>4. CASE Inventory
  <2>1. todo' \subseteq Packages
    BY <1>1, <1>4 DEF Inventory, Vulnerable
  <2> QED
    BY <1>2, <1>4, <2>1, CalmStep DEF Inventory
<1>5. ASSUME NEW p \in Packages, Select(p) PROVE IInv'
  <2>1. \E reason \in {"policy-blocked", "none"} : draft' = Unresolved(reason)
    BY <1>5 DEF Select
  <2>2. draft' \in Drafts /\ ~draft'.applied
    BY <2>1, DraftFacts DEF Reasons
  <2> QED
    BY <1>2, <1>5, <2>2, CalmStep DEF Select
<1> QED
  BY <1>3, <1>4, <1>5

\* The tool or the fallback refuses, or the tool fails.
LEMMA RefusedStep ==
  ASSUME IInv, Pipeline, PrimaryRefused \/ PrimaryFailed \/ FallbackRefused
  PROVE  IInv'
<1> USE DEF Phases
<1>1. /\ phase \in {"primary", "fallback"}
      /\ UNCHANGED <<project, tree, branches, head, cve, todo, pkg, snapshot,
                     results, containment>>
  BY DEF PrimaryRefused, PrimaryFailed, FallbackRefused
<1>2. /\ ~draft.applied /\ pkg \in Packages /\ snapshot = tree
      /\ snapshot \in Contents /\ todo \subseteq Packages
      /\ installed \subseteq Packages /\ tree.fixed \subseteq Packages
  BY <1>1 DEF IInv, TypeOK, Modes, Turn, Contents
<1>3. PICK reason \in Reasons :
        \/ draft' = Unresolved(reason) /\ phase' = "decide"
        \/ draft' = Unresolved("none") /\ phase' = "fallback"
  BY DEF PrimaryRefused, PrimaryFailed, FallbackRefused, Reasons, Conclude
<1>4. draft' \in Drafts /\ ~draft'.applied
  BY <1>3, DraftFacts DEF Reasons
<1>5. /\ installed' \subseteq Packages
      /\ \A p \in installed' : p \in installed \cup tree.fixed \cup drifted'
  <2>1. installed' # installed => phase = "primary"
    BY DEF PrimaryRefused, PrimaryFailed, FallbackRefused
  <2>2. installed' # installed => drifted' = drifted \cup {pkg}
    BY <1>1, <2>1 DEF Pipeline
  <2>3. installed' \in {installed, tree.fixed, installed \cup {pkg}}
    BY DEF PrimaryRefused, PrimaryFailed, FallbackRefused
  <2> QED
    BY <1>2, <2>2, <2>3
<1> QED
  BY <1>1, <1>2, <1>3, <1>4, <1>5, CalmStep

\* The tool applied a version: the snapshot has the files before it.
LEMMA AppliedVersionStep ==
  ASSUME IInv, Pipeline, PrimaryApplied
  PROVE  IInv'
<1> USE DEF Phases
<1>1. /\ phase = "primary"
      /\ tree' = [tree EXCEPT !.fixed = @ \cup {pkg}]
      /\ UNCHANGED <<project, branches, head, cve, todo, pkg, snapshot, results,
                     containment>>
  BY DEF PrimaryApplied
<1>2. /\ ~draft.applied /\ pkg \in Packages /\ snapshot = tree
      /\ snapshot \in Contents /\ todo \subseteq Packages
      /\ tree \in Contents /\ installed \subseteq Packages
      /\ results \subseteq Results
  BY <1>1 DEF IInv, TypeOK, Modes, Turn
<1>3. draft' = Applied("version") /\ phase' = "decide"
  BY Concluded, DraftFacts DEF PrimaryApplied
<1>4. /\ tree' \in Contents /\ tree'.fixed = tree.fixed \cup {pkg}
      /\ tree'.ledger = tree.ledger
  BY <1>1, <1>2 DEF Contents
<1>5. installed' \subseteq installed \cup tree'.fixed
  BY DEF PrimaryApplied, Installs
<1>6. installed' \subseteq Packages
  BY <1>2, <1>4, <1>5 DEF Contents
<1>7. draft' \in Drafts /\ draft'.applied /\ draft'.how = "version"
  BY <1>3, DraftFacts
<1>8. TypeOK'
  BY <1>1, <1>2, <1>3, <1>4, <1>6, <1>7, PipelineTypes DEF IInv
<1>9. Modes'
  BY <1>1, <1>2, <1>3, PipelineModes DEF IInv, Modes
<1>10. Turn'
  BY <1>1, <1>2, <1>3, <1>7 DEF Turn, Applied
<1>11. Before' = Before /\ Decided' = Decided /\ drifted \subseteq drifted'
  BY <1>1, <1>2, <1>7 DEF Before, Decided, FixesIn, Pipeline
<1> QED
  BY <1>1, <1>4, <1>5, <1>8, <1>9, <1>10, <1>11, QuietStep DEF IInv

\* The patch was applied, and node_modules has the vulnerable version again
\* unless the manifest fixes it.
LEMMA AppliedPatchStep ==
  ASSUME IInv, Pipeline, FallbackApplied
  PROVE  IInv'
<1> USE DEF Phases
<1>1. /\ phase = "fallback" /\ phase' = "decide" /\ draft' = Applied("patch")
      /\ tree' = [tree EXCEPT !.patchOf[pkg] = cve]
      /\ UNCHANGED <<project, branches, head, cve, todo, pkg, snapshot, results,
                     containment>>
  BY DEF FallbackApplied
<1>2. /\ ~draft.applied /\ pkg \in Packages /\ snapshot = tree
      /\ snapshot \in Contents /\ todo \subseteq Packages
      /\ tree \in Contents /\ installed \subseteq Packages
      /\ results \subseteq Results /\ mode = "remediate" /\ cve \in Cves
  BY <1>1 DEF IInv, TypeOK, Modes, Turn, Pipeline
<1>3. /\ tree' \in Contents /\ tree'.fixed = tree.fixed
      /\ tree'.ledger = tree.ledger
  BY <1>1, <1>2 DEF Contents
<1>4. installed' \subseteq installed \cup tree.fixed
  BY DEF FallbackApplied, Installs
<1>5. installed' \subseteq Packages
  BY <1>2, <1>4 DEF Contents
<1>6. draft' \in Drafts /\ draft'.applied /\ draft'.how = "patch"
  BY <1>1, DraftFacts
<1>7. TypeOK'
  BY <1>1, <1>2, <1>3, <1>5, <1>6, PipelineTypes DEF IInv
<1>8. Modes'
  BY <1>1, <1>2, PipelineModes DEF IInv, Modes
<1>9. Turn'
  BY <1>1, <1>2, <1>6 DEF Turn, Applied
<1>10. Before' = Before /\ Decided' = Decided /\ drifted \subseteq drifted'
  BY <1>1, <1>2, <1>6 DEF Before, Decided, FixesIn, Pipeline
<1> QED
  BY <1>1, <1>3, <1>4, <1>7, <1>8, <1>9, <1>10, QuietStep DEF IInv

\* What stays when a patch file is removed, or the files go back to what they
\* were before the draft: what is decided on or was on a branch explains them.
LEMMA SettledStep ==
  ASSUME IInv, Pipeline, UNCHANGED <<branches, head, containment, cve>>,
         NEW fixes, Decided' = Decided \cup fixes,
         fixes \subseteq Fixes,
         \A fix \in fixes : fix.how = "version" => fix.pkg \in Before'.fixed,
         containment => \A fix \in fixes : fix.cve \notin Escalating,
         Before.fixed \subseteq Before'.fixed,
         \A p \in Before'.fixed \ Before.fixed :
            \E fix \in fixes : fix.how = "version" /\ fix.pkg = p,
         \A p \in Packages :
            \/ Before'.patchOf[p] \in {Before.patchOf[p], NoCve}
            \/ [cve |-> Before'.patchOf[p], pkg |-> p, how |-> "patch"] \in fixes,
         tree'.ledger = tree.ledger,
         \A p \in installed' \ drifted' :
            \/ p \in tree'.fixed
            \/ \E b \in DOMAIN branches : p \in branches[b].fixed
  PROVE  Accounted' /\ Safe' /\ Contained' /\ Installed' /\ Indexed' /\ Cut' /\ Apart'
<1>1. /\ UNCHANGED <<step, groups, group, base, requests, mishaps, mode, claims,
                     changeRequest, stored, cutOff, abandoned>>
      /\ mode = "remediate"
  BY DEF Pipeline, requestVars
<1>2. Reported' = Reported \cup fixes
  BY <1>1 DEF Reported
<1>3. Accounted'
  <2>1. Claimed(Before', Reported')
    BY <1>2 DEF IInv, Accounted, Claimed
  <2>2. \A b \in DOMAIN branches : Claimed(branches[b], Reported')
    BY <1>2, MoreFixes DEF IInv, Accounted
  <2> QED
    BY <2>1, <2>2 DEF Accounted
<1>4. Safe' /\ Contained'
  BY <1>1 DEF IInv, Safe, Contained
<1>5. Installed' /\ Indexed' /\ Cut'
  BY <1>1 DEF IInv, Installed, Indexed, Cut
<1>6. Apart'
  <2>1. step = "off"
    BY <1>1 DEF IInv, Modes
  <2>2. Own = Decided /\ Own' = Own \cup fixes
    BY <1>1 DEF Own
  <2>3. \A cs : FixesOf(cs)' = FixesOf(cs)
    BY <1>1 DEF FixesOf
  <2>4. Explained(Before, branches[head], Own)
          => Explained(Before', branches[head], Own')
    BY <2>2 DEF Explained
  <2> QED
    BY <1>1, <2>1, <2>3, <2>4 DEF IInv, Apart
<1> QED
  BY <1>3, <1>4, <1>5, <1>6

\* The patch failed and its file is gone, whoever wrote it.
LEMMA FailedPatchStep ==
  ASSUME IInv, Pipeline, FallbackFailed
  PROVE  IInv'
<1> USE DEF Phases
<1>1. /\ phase = "fallback" /\ phase' = "decide"
      /\ tree' = [tree EXCEPT !.patchOf[pkg] = NoCve]
      /\ UNCHANGED <<project, branches, head, cve, todo, pkg, snapshot, results,
                     containment>>
  BY DEF FallbackFailed
<1>2. /\ ~draft.applied /\ pkg \in Packages /\ snapshot \in Contents
      /\ todo \subseteq Packages /\ tree \in Contents
      /\ installed \subseteq Packages /\ results \subseteq Results
  BY <1>1 DEF IInv, TypeOK, Modes
<1>3. /\ tree' \in Contents /\ tree'.fixed = tree.fixed
      /\ tree'.patchOf = [tree.patchOf EXCEPT ![pkg] = NoCve]
      /\ tree'.ledger = tree.ledger
  BY <1>1, <1>2 DEF Contents
<1>4. installed' \subseteq installed \cup tree.fixed
  BY DEF FallbackFailed, Installs
<1>5. installed' \subseteq Packages
  BY <1>2, <1>4 DEF Contents
<1>6. draft' \in Drafts /\ ~draft'.applied
  BY DEF FallbackFailed, Drafts, Reasons
<1>7. TypeOK'
  BY <1>1, <1>2, <1>3, <1>5, <1>6, PipelineTypes DEF IInv
<1>8. Modes'
  BY <1>1, <1>2, <1>6, PipelineModes DEF IInv, Modes
<1>9. Turn'
  BY <1>1, <1>6 DEF Turn, Applied
<1>10. Before = tree /\ Before' = tree' /\ Decided' = Decided
       /\ drifted \subseteq drifted'
  BY <1>1, <1>2, <1>6 DEF Before, Decided, FixesIn, Pipeline
<1>11. tree.patchOf \in [Packages -> Cves \cup {NoCve}]
  BY <1>2 DEF Contents
<1>12. Accounted' /\ Safe' /\ Contained' /\ Installed' /\ Indexed' /\ Cut' /\ Apart'
  <2>1. \A p \in installed' \ drifted' :
           \/ p \in tree'.fixed
           \/ \E b \in DOMAIN branches : p \in branches[b].fixed
    BY <1>3, <1>4, <1>10 DEF IInv, Installed
  <2>2. \A p \in Packages : Before'.patchOf[p] \in {Before.patchOf[p], NoCve}
    BY <1>3, <1>10, <1>11
  <2>3. PICK fixes \in SUBSET Fixes : fixes = {}
    OBVIOUS
  <2>4. /\ Decided' = Decided \cup fixes /\ Before'.fixed = Before.fixed
        /\ tree'.ledger = tree.ledger
        /\ UNCHANGED <<branches, head, containment, cve>>
    BY <1>1, <1>3, <1>10, <2>3
  <2> QED
    BY <2>1, <2>2, <2>3, <2>4, SettledStep
<1> QED
  BY <1>7, <1>8, <1>9, <1>12 DEF IInv

\* An applied draft of a CVE that escalates is rolled back in containment mode,
\* exactly to the snapshot; any other result is what the files hold.
LEMMA Decision ==
  ASSUME IInv, Pipeline, Decide
  PROVE  \E fixes \in SUBSET Fixes :
           /\ Decided' = Decided \cup fixes
           /\ results' \subseteq Results
           /\ \A r \in results' : /\ r.cve = cve
                                  /\ r.applied => r.how \in {"version", "patch"}
           /\ containment => \A fix \in fixes : fix.cve \notin Escalating
           /\ \/ ~draft.applied /\ tree' = tree /\ fixes = {}
              \/ /\ draft.applied /\ tree' = snapshot /\ fixes = {}
                 /\ containment /\ cve \in Escalating
              \/ /\ draft.applied /\ tree' = tree
                 /\ fixes = {[cve |-> cve, pkg |-> pkg, how |-> draft.how]}
<1>1. PICK disposition \in Dispositions(cve, pkg, draft) :
        LET contained == containment /\ draft.applied /\ disposition = "escalate"
        IN  /\ results' = results \cup
                 {[cve |-> cve, pkg |-> pkg, how |-> draft.how,
                   applied |-> draft.applied /\ ~contained,
                   disposition |-> disposition]}
            /\ tree' = IF contained THEN Restored ELSE tree
  BY DEF Decide
<1> DEFINE contained == containment /\ draft.applied /\ disposition = "escalate"
           r == [cve |-> cve, pkg |-> pkg, how |-> draft.how,
                 applied |-> draft.applied /\ ~contained,
                 disposition |-> disposition]
           fix == [cve |-> cve, pkg |-> pkg, how |-> draft.how]
<1>2. /\ results' = results \cup {r}
      /\ tree' = IF contained THEN Restored ELSE tree
  BY <1>1
<1>3. /\ phase = "decide" /\ mode = "remediate" /\ cve \in Cves
      /\ pkg \in Packages /\ draft \in Drafts
      /\ results \subseteq Results /\ snapshot \in Contents /\ tree \in Contents
  BY DEF IInv, TypeOK, Modes, Decide, Pipeline
<1>4. draft.applied => /\ draft.how \in {"version", "patch"}
                       /\ draft.reason = "none"
  BY DraftFacts DEF IInv, Modes
<1>5. disposition \in {"escalate", "hold-for-approval", "simulate-only",
                       "auto-apply"}
  BY DEF Dispositions
<1>6. /\ r.applied <=> draft.applied /\ ~contained
      /\ r.cve = cve /\ r.pkg = pkg /\ r.how = draft.how
  OBVIOUS
<1>7. r \in Results
  <2>1. draft.how \in {"none", "version", "patch"} /\ draft.applied \in BOOLEAN
    BY <1>3 DEF Drafts
  <2>2. r.applied \in BOOLEAN
    OBVIOUS
  <2> QED
    BY <1>3, <1>5, <2>1, <2>2 DEF Results
<1>8. /\ r.applied => Decided' = Decided \cup {fix}
      /\ ~r.applied => Decided' = Decided
  <2>1. Decided' = FixesIn(results \cup {r})
    BY <1>2 DEF Decided, FixesIn
  <2> HIDE DEF r
  <2> QED
    BY <1>6, <2>1, FixesOfResults DEF Decided
<1> HIDE DEF r
<1>9. /\ results' \subseteq Results
      /\ \A x \in results' : /\ x.cve = cve
                             /\ x.applied => x.how \in {"version", "patch"}
  BY <1>2, <1>3, <1>4, <1>6, <1>7 DEF IInv, Modes
<1>10. contained => tree' = snapshot
  <2>1. contained => /\ tree' = Restored
                     /\ draft \in {Applied("version"), Applied("patch")}
    BY <1>2 DEF IInv, Modes
  <2>2. CASE draft = Applied("version")
    <3>1. tree = [snapshot EXCEPT !.fixed = @ \cup {pkg}]
      BY <2>2 DEF IInv, Turn
    <3> QED
      BY <1>3, <2>1, <3>1 DEF Restored, Contents
  <2>3. CASE draft = Applied("patch")
    <3>1. tree = [snapshot EXCEPT !.patchOf[pkg] = cve]
      BY <2>3 DEF IInv, Turn
    <3> QED
      BY <1>3, <2>1, <3>1 DEF Restored, Contents
  <2> QED
    BY <2>1, <2>2, <2>3
<1>11. /\ containment /\ draft.applied /\ cve \in Escalating => contained
       /\ contained => cve \in Escalating
  BY <1>1, <1>4 DEF Dispositions
<1>12. CASE ~draft.applied
  BY <1>2, <1>6, <1>8, <1>9, <1>12
<1>13. CASE contained
  BY <1>6, <1>8, <1>9, <1>10, <1>11, <1>13
<1>14. CASE draft.applied /\ ~contained
  <2>1. fix \in Fixes
    BY <1>3, <1>4, <1>14 DEF Fixes
  <2>2. containment => cve \notin Escalating
    BY <1>11, <1>14
  <2>3. tree' = tree /\ Decided' = Decided \cup {fix}
    BY <1>2, <1>6, <1>8, <1>14
  <2>4. {fix} \in SUBSET Fixes
    BY <2>1
  <2>5. containment => \A x \in {fix} : x.cve \notin Escalating
    BY <2>2
  <2> WITNESS {fix} \in SUBSET Fixes
  <2> QED
    BY <1>9, <1>14, <2>3, <2>5
<1> QED
  BY <1>12, <1>13, <1>14

\* The decision keeps the invariant.
LEMMA DecideStep ==
  ASSUME IInv, Pipeline, Decide
  PROVE  IInv'
<1> USE DEF Phases
<1>1. PICK fixes \in SUBSET Fixes :
           /\ Decided' = Decided \cup fixes
           /\ results' \subseteq Results
           /\ \A r \in results' : /\ r.cve = cve
                                  /\ r.applied => r.how \in {"version", "patch"}
           /\ containment => \A fix \in fixes : fix.cve \notin Escalating
           /\ \/ ~draft.applied /\ tree' = tree /\ fixes = {}
              \/ /\ draft.applied /\ tree' = snapshot /\ fixes = {}
                 /\ containment /\ cve \in Escalating
              \/ /\ draft.applied /\ tree' = tree
                 /\ fixes = {[cve |-> cve, pkg |-> pkg, how |-> draft.how]}
  BY Decision
<1>2. /\ phase = "decide" /\ phase' = "select" /\ pkg' = NoPackage
      /\ draft' = Unresolved("none") /\ snapshot' = Untouched
      /\ UNCHANGED <<project, installed, branches, head, cve, todo, containment>>
  BY DEF Decide
<1>3. /\ pkg \in Packages /\ snapshot \in Contents /\ tree \in Contents
      /\ todo \subseteq Packages /\ installed \subseteq Packages
      /\ project \in Projects /\ cve \in Cves
  BY <1>2 DEF IInv, TypeOK, Modes, Pipeline
<1>4. draft' \in Drafts /\ ~draft'.applied
  BY <1>2, DraftFacts DEF Reasons
<1>5. TypeOK'
  <2>1. tree' \in Contents /\ snapshot' \in Contents
    BY <1>1, <1>2, <1>3, ContentFacts
  <2> QED
    BY <1>1, <1>2, <1>3, <1>4, <2>1, PipelineTypes DEF IInv
<1>6. Modes'
  BY <1>1, <1>2, <1>4, PipelineModes
<1>7. Turn'
  BY <1>2, <1>4 DEF Turn, Applied
<1>8. Before' = tree' /\ (draft.applied => Before = snapshot)
      /\ (~draft.applied => Before = tree)
  BY <1>4 DEF Before
<1>9. CASE draft.applied
  <2>1. CASE draft = Applied("version")
    <3>1. /\ tree.fixed = snapshot.fixed \cup {pkg}
          /\ tree.patchOf = snapshot.patchOf /\ tree.ledger = snapshot.ledger
          /\ draft.how = "version"
      <4>1. tree = [snapshot EXCEPT !.fixed = @ \cup {pkg}]
        BY <2>1 DEF IInv, Turn
      <4> QED
        BY <1>3, <2>1, <4>1 DEF Contents, Applied
    <3>2. tree' # tree => drifted' = drifted \cup {pkg}
      BY <1>2, <1>9 DEF Pipeline
    <3>3. drifted \subseteq drifted'
      BY DEF Pipeline
    <3>4. \A p \in installed' \ drifted' :
             \/ p \in tree'.fixed
             \/ \E b \in DOMAIN branches : p \in branches[b].fixed
      BY <1>1, <1>2, <3>1, <3>2, <3>3 DEF IInv, Installed
    <3>5. /\ \A fix \in fixes : fix.how = "version" => fix.pkg \in Before'.fixed
          /\ Before.fixed \subseteq Before'.fixed
          /\ \A p \in Before'.fixed \ Before.fixed :
                \E fix \in fixes : fix.how = "version" /\ fix.pkg = p
      <4>1. CASE tree' = snapshot /\ fixes = {}
        BY <1>8, <1>9, <4>1
      <4>2. CASE tree' = tree
        <5>1. /\ Before'.fixed = Before.fixed \cup {pkg}
              /\ fixes = {} \/ \E fix \in fixes : /\ fix.how = "version"
                                                /\ fix.pkg = pkg
              /\ \A fix \in fixes : fix.pkg = pkg
          BY <1>1, <1>8, <1>9, <3>1, <4>2
        <5>2. fixes = {} => Before'.fixed = Before.fixed
          BY <1>1, <1>8, <1>9, <4>2
        <5> QED
          BY <5>1, <5>2
      <4> QED
        BY <1>1, <1>9, <4>1, <4>2
    <3>6. /\ \A p \in Packages : Before'.patchOf[p] = Before.patchOf[p]
          /\ tree'.ledger = tree.ledger
      BY <1>1, <1>8, <1>9, <3>1
    <3>7. Accounted' /\ Safe' /\ Contained' /\ Installed' /\ Indexed' /\ Cut' /\ Apart'
      BY <1>1, <1>2, <3>4, <3>5, <3>6, SettledStep
    <3> QED
      BY <1>5, <1>6, <1>7, <3>7 DEF IInv
  <2>2. CASE draft = Applied("patch")
    <3>1. /\ tree.fixed = snapshot.fixed /\ tree.ledger = snapshot.ledger
          /\ tree.patchOf = [snapshot.patchOf EXCEPT ![pkg] = cve]
          /\ draft.how = "patch"
      <4>1. tree = [snapshot EXCEPT !.patchOf[pkg] = cve]
        BY <2>2 DEF IInv, Turn
      <4> QED
        BY <1>3, <2>2, <4>1 DEF Contents, Applied
    <3>2. snapshot.patchOf \in [Packages -> Cves \cup {NoCve}]
      BY <1>3 DEF Contents
    <3>3. drifted \subseteq drifted'
      BY DEF Pipeline
    <3>4. \A p \in installed' \ drifted' :
             \/ p \in tree'.fixed
             \/ \E b \in DOMAIN branches : p \in branches[b].fixed
      BY <1>1, <1>2, <3>1, <3>3 DEF IInv, Installed
    <3>5. /\ \A fix \in fixes : fix.how = "version" => fix.pkg \in Before'.fixed
          /\ Before'.fixed = Before.fixed
          /\ tree'.ledger = tree.ledger
      BY <1>1, <1>8, <1>9, <3>1
    <3>6. \A p \in Packages :
            \/ Before'.patchOf[p] = Before.patchOf[p]
            \/ [cve |-> Before'.patchOf[p], pkg |-> p, how |-> "patch"] \in fixes
      BY <1>1, <1>8, <1>9, <3>1, <3>2
    <3>7. Accounted' /\ Safe' /\ Contained' /\ Installed' /\ Indexed' /\ Cut' /\ Apart'
      BY <1>1, <1>2, <3>4, <3>5, <3>6, SettledStep
    <3> QED
      BY <1>5, <1>6, <1>7, <3>7 DEF IInv
  <2> QED
    BY <1>9, <2>1, <2>2 DEF IInv, Modes
<1>10. CASE ~draft.applied
  <2>1. tree' = tree /\ Before' = Before /\ Decided' = Decided
        /\ drifted \subseteq drifted'
    BY <1>1, <1>8, <1>10 DEF Pipeline
  <2>2. Accounted' /\ Safe' /\ Contained' /\ Installed' /\ Indexed' /\ Cut' /\ Apart'
    BY <1>2, <2>1, QuietStep
  <2> QED
    BY <1>5, <1>6, <1>7, <2>2 DEF IInv
<1> QED
  BY <1>9, <1>10

\* Each step of the pipeline keeps the invariant.
LEMMA PipelineInv == IInv /\ Pipeline => IInv'
BY LoopStep, RefusedStep, AppliedVersionStep, AppliedPatchStep, FailedPatchStep,
   DecideStep
DEF Pipeline, PipelineStep

-----------------------------------------------------------------------------
(* The steps of the change requests *)

Steps == {"off", "next", "commit", "push", "open", "return"}

\* While requests are made nothing is in hand.
LEMMA RequestFacts ==
  ASSUME IInv, mode \in {"request", "final"}
  PROVE  /\ phase = "off" /\ step # "off" /\ changeRequest
         /\ ~draft.applied /\ results = {}
         /\ Before = tree /\ Decided = {}
BY FixesOfResults DEF IInv, Modes, Before, Decided

\* The types after a step of a request.
LEMMA RequestTypes ==
  ASSUME TypeOK, Request, project' = project, installed' = installed,
         tree' \in Contents, branches' \in Seq(Contents),
         head' \in DOMAIN branches', step' \in Steps, group' \subseteq Cves,
         base' = base, DOMAIN branches \subseteq DOMAIN branches',
         requests' \subseteq [branch: DOMAIN branches', base: DOMAIN branches',
                              cves: SUBSET Cves],
         mishaps' \in 0..MaxMishaps
  PROVE  TypeOK'
<1>1. UNCHANGED <<phase, cve, todo, pkg, snapshot, draft, results, containment,
                  mode, scan, waiting, reports, pkgsOf, memory, changeRequest,
                  stored, cutOff, claims, abandoned, drifted>>
  BY DEF Request, pipelineVars, scanVars
<1>2. Contents' = Contents
  BY DEF Contents
<1>3. base' \in {Detached} \cup DOMAIN branches'
  BY DEF TypeOK
<1> QED
  BY <1>1, <1>2, <1>3 DEF TypeOK, Steps

\* What stays when files and branches exchange their contents, and none is lost.
LEMMA ExchangeStep ==
  ASSUME IInv, Request, installed' = installed, step' # "off",
         \A b \in DOMAIN branches' :
            \/ branches'[b] = tree
            \/ \E c \in DOMAIN branches : branches'[b] = branches[c],
         \/ tree' = tree
         \/ /\ \E c \in DOMAIN branches : tree' = branches[c]
            /\ \E c \in DOMAIN branches' : branches'[c] = tree,
         \A b \in DOMAIN branches :
            \E c \in DOMAIN branches' : branches'[c] = branches[b],
         \A k \in DOMAIN groups' : groups'[k] \subseteq Cves
  PROVE  Modes' /\ Turn' /\ Accounted' /\ Safe' /\ Contained' /\ Installed' /\ Indexed'
<1>1. /\ UNCHANGED <<phase, cve, todo, pkg, snapshot, draft, results, containment,
                  mode, scan, waiting, reports, pkgsOf, memory, changeRequest,
                  stored, cutOff, claims, abandoned, drifted>>
      /\ mode \in {"request", "final"}
  BY DEF Request, pipelineVars, scanVars
<1>2. /\ phase = "off" /\ changeRequest /\ ~draft.applied /\ results = {}
      /\ Before = tree /\ Decided = {}
  BY <1>1, RequestFacts
<1>3. /\ Before' = tree' /\ Decided' = {}
  BY <1>1, <1>2, FixesOfResults DEF Before, Decided
<1>4. Modes'
  BY <1>1, <1>2 DEF IInv, Modes, Applied
<1>5. Turn'
  BY <1>1, <1>2 DEF Turn, Applied
<1>6. Reported' = Reported
  BY <1>1, <1>2, <1>3 DEF Reported
<1>7. Accounted'
  BY <1>2, <1>3, <1>6 DEF IInv, Accounted
<1>8. Safe'
  BY <1>1, <1>2, <1>3 DEF IInv, Safe
<1>9. Contained' /\ Installed' /\ Indexed'
  BY <1>1, <1>2, <1>3 DEF IInv, Contained, Installed, Indexed
<1> QED
  BY <1>4, <1>5, <1>7, <1>8, <1>9

\* What the steps of a request find.
LEMMA RequestTyped ==
  ASSUME IInv, Request
  PROVE  /\ mode \in {"request", "final"} /\ mode' = mode /\ cve' = cve
         /\ claims' = claims /\ abandoned' = abandoned
         /\ changeRequest' = changeRequest
         /\ UNCHANGED <<pipelineVars, scanVars>>
         /\ project' = project /\ installed' = installed
         /\ base' = base
         /\ Before = tree /\ Before' = tree' /\ Decided = {} /\ Decided' = {}
         /\ tree \in Contents /\ branches \in Seq(Contents)
         /\ head \in DOMAIN branches /\ group \subseteq Cves
         /\ base \in {Detached} \cup DOMAIN branches /\ Detached \notin DOMAIN branches
         /\ \A r \in requests : r.branch \in DOMAIN branches
                                /\ r.base \in DOMAIN branches
         /\ mishaps \in 0..MaxMishaps
         /\ Mishap => mishaps' \in 0..MaxMishaps /\ mishaps' # 0
<1>1. mode \in {"request", "final"} /\ UNCHANGED <<pipelineVars, scanVars>>
  BY DEF Request
<1>2. mode' = mode /\ cve' = cve /\ claims' = claims /\ abandoned' = abandoned
      /\ changeRequest' = changeRequest
      /\ draft' = draft /\ results' = results
  BY <1>1 DEF pipelineVars, scanVars
<1>3. project' = project /\ installed' = installed /\ base' = base
  BY DEF Request, NothingToRequest, CutBranch, CutFails, Commit, Push, Open, Return
<1>4. /\ Before = tree /\ Decided = {} /\ ~draft.applied /\ results = {}
  BY <1>1, RequestFacts
<1>5. Before' = tree' /\ Decided' = {}
  BY <1>2, <1>4, FixesOfResults DEF Before, Decided
<1>6. /\ tree \in Contents /\ branches \in Seq(Contents)
      /\ head \in DOMAIN branches /\ group \subseteq Cves
      /\ base \in {Detached} \cup DOMAIN branches
      /\ \A r \in requests : r.branch \in DOMAIN branches
                             /\ r.base \in DOMAIN branches
      /\ mishaps \in 0..MaxMishaps
  BY DEF IInv, TypeOK
<1>7. Detached \notin DOMAIN branches
  BY <1>6 DEF Detached
<1>8. Mishap => mishaps' \in 0..MaxMishaps /\ mishaps' # 0
  BY <1>6, RequestAssumption DEF Mishap
<1> QED
  BY <1>1, <1>2, <1>3, <1>4, <1>5, <1>6, <1>7, <1>8

\* There is nothing to request for a group, or its branch cannot be cut.
LEMMA SkipGroupStep ==
  ASSUME IInv, Request, NothingToRequest \/ CutFails
  PROVE  IInv'
<1> USE RequestTyped
<1>1. PICK k \in DOMAIN groups : groups' = [j \in DOMAIN groups \ {k} |-> groups[j]]
  BY DEF NothingToRequest, CutFails
<1>2. /\ step = "next" /\ UNCHANGED <<tree, branches, head, step, group, requests>>
      /\ \/ ~Dirty /\ mishaps' = mishaps
         \/ Mishap
  BY DEF NothingToRequest, CutFails
<1>3. /\ DOMAIN groups' \subseteq DOMAIN groups
      /\ \A j \in DOMAIN groups' : groups'[j] = groups[j]
  BY <1>1
<1>4. TypeOK'
  BY <1>2, RequestTypes DEF IInv, Steps, TypeOK
<1>5. \A j \in DOMAIN groups' : groups'[j] \subseteq Cves
  BY <1>3 DEF IInv, Modes
<1>6. Modes' /\ Turn' /\ Accounted' /\ Safe' /\ Contained' /\ Installed' /\ Indexed'
  BY <1>2, <1>5, ExchangeStep
<1>7. Cut'
  BY <1>2 DEF Cut
<1>8. Apart'
  <2>1. SUFFICES ASSUME changeRequest', mishaps' = 0, abandoned' = {}
                 PROVE  Apart'
    BY DEF Apart
  <2>2. /\ mishaps = 0 /\ changeRequest /\ abandoned = {}
        /\ tree = branches[head]
    BY <1>2, <2>1 DEF Dirty
  <2>3. Explained(Before', branches'[head'], Own')
    BY <1>2, <2>2, MoreFixes
  <2>4. \A cs : FixesOf(cs)' = FixesOf(cs)
    BY DEF FixesOf
  <2>5. /\ base \in {head, Detached}
        /\ mode = "request" => \A j \in DOMAIN groups' : groups'[j] = {cve}
        /\ \A r \in requests :
              Explained(branches[r.branch], branches[r.base], FixesOf(r.cves))
    BY <1>2, <1>3, <2>2 DEF IInv, Apart
  <2> QED
    BY <1>2, <2>3, <2>4, <2>5 DEF Apart
<1> QED
  BY <1>4, <1>6, <1>7, <1>8 DEF IInv

\* The new branch is a copy of the one that was checked out.
LEMMA CutBranchStep ==
  ASSUME IInv, Request, CutBranch
  PROVE  IInv'
<1> USE RequestTyped
<1>1. PICK k \in DOMAIN groups :
        /\ group' = groups[k]
        /\ groups' = [j \in DOMAIN groups \ {k} |-> groups[j]]
  BY DEF CutBranch
<1>2. /\ step = "next" /\ step' = "commit" /\ head' = Len(branches')
      /\ branches' = Append(branches, branches[head])
      /\ UNCHANGED <<tree, requests, mishaps>>
  BY DEF CutBranch
<1>3. /\ DOMAIN groups' \subseteq DOMAIN groups
      /\ \A j \in DOMAIN groups' : groups'[j] = groups[j]
  BY <1>1
<1>4. /\ branches' \in Seq(Contents) /\ head' \in DOMAIN branches'
      /\ DOMAIN branches' = DOMAIN branches \cup {head'}
      /\ head' \notin DOMAIN branches /\ head' # Detached
      /\ branches'[head'] = branches[head]
      /\ \A b \in DOMAIN branches : branches'[b] = branches[b]
  <2>1. branches[head] \in Contents
    BY ElementOfSeq
  <2>2. /\ branches' \in Seq(Contents) /\ Len(branches') = Len(branches) + 1
        /\ \A b \in 1..Len(branches) : branches'[b] = branches[b]
        /\ branches'[Len(branches) + 1] = branches[head]
    BY <1>2, <2>1, AppendProperties
  <2> QED
    BY <1>2, <2>2 DEF Detached
<1>5. group' \subseteq Cves
  BY <1>1 DEF IInv, Modes
<1>6. TypeOK'
  <2>1. requests' \subseteq [branch: DOMAIN branches', base: DOMAIN branches',
                             cves: SUBSET Cves]
    BY <1>2, <1>4 DEF IInv, TypeOK
  <2> QED
    BY <1>2, <1>4, <1>5, <2>1, RequestTypes DEF IInv, Steps
<1>7. \A j \in DOMAIN groups' : groups'[j] \subseteq Cves
  BY <1>3 DEF IInv, Modes
<1>8. Modes' /\ Turn' /\ Accounted' /\ Safe' /\ Contained' /\ Installed' /\ Indexed'
  <2>1. \A b \in DOMAIN branches' :
           \E c \in DOMAIN branches : branches'[b] = branches[c]
    BY <1>4
  <2>2. \A b \in DOMAIN branches :
           \E c \in DOMAIN branches' : branches'[c] = branches[b]
    BY <1>4
  <2> QED
    BY <1>2, <1>7, <2>1, <2>2, ExchangeStep
<1>9. Cut'
  BY <1>2, <1>4 DEF Cut
<1>10. Apart'
  <2>1. SUFFICES ASSUME changeRequest', mishaps' = 0, abandoned' = {}
                 PROVE  Apart'
    BY DEF Apart
  <2>2. /\ mishaps = 0 /\ changeRequest /\ abandoned = {}
        /\ Explained(tree, branches[head], Own)
        /\ base \in {head, Detached}
        /\ mode = "request" => \A j \in DOMAIN groups : groups[j] = {cve}
        /\ \A r \in requests :
              Explained(branches[r.branch], branches[r.base], FixesOf(r.cves))
    BY <1>2, <2>1 DEF IInv, Apart
  <2>3. Own \subseteq FixesOf(group)'
    BY <1>1, <2>2 DEF Own, FixesOf
  <2>4. Explained(tree', branches'[head'], FixesOf(group)')
    BY <1>2, <1>4, <2>2, <2>3, MoreFixes
  <2>5. base' # Detached => branches'[base'] = branches'[head']
    BY <1>4, <2>2
  <2>6. \A r \in requests' : Explained(branches'[r.branch], branches'[r.base],
                                       FixesOf(r.cves)')
    BY <1>2, <1>4, <2>2 DEF FixesOf
  <2>7. mode' = "request" => \A j \in DOMAIN groups' : groups'[j] = {cve'}
    BY <1>3, <2>2
  <2> QED
    BY <1>2, <2>4, <2>5, <2>6, <2>7 DEF Apart
<1> QED
  BY <1>6, <1>8, <1>9, <1>10 DEF IInv

\* The commit puts the files on the branch, whose old content another one has.
LEMMA CommitStep ==
  ASSUME IInv, Request, Commit, step' = "push"
  PROVE  IInv'
<1> USE RequestTyped
<1>1. /\ step = "commit" /\ branches' = [branches EXCEPT ![head] = tree]
      /\ UNCHANGED <<tree, head, groups, group, requests, mishaps>>
  BY DEF Commit, Committed, Failed
<1>2. /\ base # head
      /\ \E b \in DOMAIN branches \ {head} : branches[b] = branches[head]
      /\ \A r \in requests : r.branch # head /\ r.base # head
  BY <1>1 DEF IInv, Cut
<1>3. /\ branches' \in Seq(Contents) /\ DOMAIN branches' = DOMAIN branches
      /\ branches'[head] = tree
      /\ \A b \in DOMAIN branches \ {head} : branches'[b] = branches[b]
  <2>1. branches' \in Seq(Contents)
    BY <1>1, ExceptSeq
  <2> QED
    BY <1>1, <2>1
<1>4. TypeOK'
  BY <1>1, <1>3, RequestTypes DEF IInv, Steps, TypeOK
<1>5. Modes' /\ Turn' /\ Accounted' /\ Safe' /\ Contained' /\ Installed' /\ Indexed'
  <2>1. \A b \in DOMAIN branches :
           \E c \in DOMAIN branches' : branches'[c] = branches[b]
    BY <1>2, <1>3
  <2>2. \A j \in DOMAIN groups' : groups'[j] \subseteq Cves
    BY <1>1 DEF IInv, Modes
  <2>3. \A b \in DOMAIN branches' :
            \/ branches'[b] = tree
            \/ \E c \in DOMAIN branches : branches'[b] = branches[c]
    BY <1>3
  <2> QED
    BY <1>1, <2>1, <2>2, <2>3, ExchangeStep
<1>6. Cut'
  BY DEF Cut
<1>7. Apart'
  <2>1. SUFFICES ASSUME changeRequest', mishaps' = 0, abandoned' = {}
                 PROVE  Apart'
    BY DEF Apart
  <2>2. /\ mishaps = 0 /\ changeRequest /\ abandoned = {}
        /\ Explained(tree, branches[head], FixesOf(group))
        /\ base # Detached => branches[base] = branches[head]
        /\ mode = "request" => \A j \in DOMAIN groups : groups[j] = {cve}
        /\ \A r \in requests :
              Explained(branches[r.branch], branches[r.base], FixesOf(r.cves))
    BY <1>1, <2>1 DEF IInv, Apart
  <2>3. base' # Detached =>
          Explained(branches'[head'], branches'[base'], FixesOf(group)')
    BY <1>1, <1>2, <1>3, <2>2 DEF FixesOf
  <2>4. \A r \in requests' : Explained(branches'[r.branch], branches'[r.base],
                                       FixesOf(r.cves)')
    BY <1>1, <1>2, <1>3, <2>2 DEF FixesOf
  <2> QED
    BY <1>1, <1>3, <2>2, <2>3, <2>4 DEF Apart
<1> QED
  BY <1>4, <1>5, <1>6, <1>7 DEF IInv

\* A command of the group fails, or the branch is pushed.
LEMMA PushStep ==
  ASSUME IInv, Request, Push \/ (Commit /\ step' # "push")
  PROVE  IInv'
<1> USE RequestTyped
<1>1. /\ UNCHANGED <<tree, branches, head, groups, group, requests>>
      /\ \/ step = "push" /\ step' = "open" /\ mishaps' = mishaps
         \/ step' = "return" /\ Mishap
  BY DEF Push, Commit, Failed
<1>2. TypeOK'
  BY <1>1, RequestTypes DEF IInv, Steps, TypeOK
<1>3. Modes' /\ Turn' /\ Accounted' /\ Safe' /\ Contained' /\ Installed' /\ Indexed'
  <2>1. \A j \in DOMAIN groups' : groups'[j] \subseteq Cves
    BY <1>1 DEF IInv, Modes
  <2> QED
    BY <1>1, <2>1, ExchangeStep
<1>4. Cut'
  BY <1>1 DEF Cut
<1>5. Apart'
  <2>1. \A cs : FixesOf(cs)' = FixesOf(cs)
    BY DEF FixesOf
  <2> QED
    BY <1>1, <2>1 DEF IInv, Apart
<1> QED
  BY <1>2, <1>3, <1>4, <1>5 DEF IInv

\* A request is opened for what the branch has and its base has not.
LEMMA OpenStep ==
  ASSUME IInv, Request, Open
  PROVE  IInv'
<1> USE RequestTyped
<1>1. /\ step = "open" /\ step' = "return"
      /\ UNCHANGED <<tree, branches, head, groups, group>>
      /\ \/ /\ base # Detached
            /\ requests' = requests \cup
                 {[branch |-> head, base |-> base, cves |-> group]}
            /\ mishaps' = mishaps
         \/ requests' = requests /\ (mishaps' = mishaps \/ Mishap)
  BY DEF Open, HasBase
<1>2. requests' \subseteq [branch: DOMAIN branches', base: DOMAIN branches',
                           cves: SUBSET Cves]
  BY <1>1 DEF IInv, TypeOK
<1>3. TypeOK'
  BY <1>1, <1>2, RequestTypes DEF IInv, Steps
<1>4. Modes' /\ Turn' /\ Accounted' /\ Safe' /\ Contained' /\ Installed' /\ Indexed'
  <2>1. \A j \in DOMAIN groups' : groups'[j] \subseteq Cves
    BY <1>1 DEF IInv, Modes
  <2> QED
    BY <1>1, <2>1, ExchangeStep
<1>5. Cut'
  BY <1>1 DEF Cut
<1>6. Apart'
  <2>1. SUFFICES ASSUME changeRequest', mishaps' = 0, abandoned' = {}
                 PROVE  Apart'
    BY DEF Apart
  <2>2. /\ mishaps = 0 /\ changeRequest /\ abandoned = {}
        /\ tree = branches[head]
        /\ base # Detached =>
             Explained(branches[head], branches[base], FixesOf(group))
        /\ mode = "request" => \A j \in DOMAIN groups : groups[j] = {cve}
        /\ \A r \in requests :
              Explained(branches[r.branch], branches[r.base], FixesOf(r.cves))
    BY <1>1, <2>1 DEF IInv, Apart
  <2>3. \A cs : FixesOf(cs)' = FixesOf(cs)
    BY DEF FixesOf
  <2>4. \A r \in requests' :
            Explained(branches[r.branch], branches[r.base], FixesOf(r.cves))
    <3>1. ASSUME NEW r, r = [branch |-> head, base |-> base, cves |-> group],
                 base # Detached
          PROVE  Explained(branches[r.branch], branches[r.base], FixesOf(r.cves))
      BY <2>2, <3>1
    <3> QED
      BY <1>1, <2>2, <3>1
  <2> QED
    BY <1>1, <2>2, <2>3, <2>4 DEF Apart
<1> QED
  BY <1>3, <1>4, <1>5, <1>6 DEF IInv

\* The base is checked out again, without a loss.
LEMMA ReturnStep ==
  ASSUME IInv, Request, Return
  PROVE  IInv'
<1> USE RequestTyped
<1>1. /\ step = "return" /\ step' = "next"
      /\ UNCHANGED <<branches, groups, group, requests>>
      /\ \/ /\ base # Detached /\ head' = base /\ mishaps' = mishaps
            /\ tree' = CheckedOut
         \/ /\ UNCHANGED <<head, tree>>
            /\ base = Detached /\ mishaps' = mishaps
         \/ /\ UNCHANGED <<head, tree>>
            /\ \/ Mishap
               \/ tree # branches[head] /\ mishaps' = mishaps
  BY DEF Return, Refused, Dirty
<1>2. /\ tree' \in Contents /\ head' \in DOMAIN branches
      /\ \/ tree' = tree
         \/ /\ \E c \in DOMAIN branches : tree' = branches[c]
            /\ \E c \in DOMAIN branches' : branches'[c] = tree
  <2>1. CASE base # Detached /\ head' = base /\ tree' = CheckedOut
    <3>1. branches[base] \in Contents /\ base \in DOMAIN branches
      BY <2>1, ElementOfSeq
    <3> QED
      BY <1>1, <2>1, <3>1 DEF CheckedOut, Dirty
  <2> QED
    BY <1>1, <2>1
<1>3. mishaps' \in 0..MaxMishaps
  BY <1>1
<1>4. TypeOK'
  BY <1>1, <1>2, <1>3, RequestTypes DEF IInv, Steps, TypeOK
<1>5. Modes' /\ Turn' /\ Accounted' /\ Safe' /\ Contained' /\ Installed' /\ Indexed'
  <2>1. \A j \in DOMAIN groups' : groups'[j] \subseteq Cves
    BY <1>1 DEF IInv, Modes
  <2> QED
    BY <1>1, <1>2, <2>1, ExchangeStep
<1>6. Cut'
  BY <1>1 DEF Cut
<1>7. Apart'
  <2>1. SUFFICES ASSUME changeRequest', mishaps' = 0, abandoned' = {}
                 PROVE  Apart'
    BY DEF Apart
  <2>2. /\ mishaps = 0 /\ changeRequest /\ abandoned = {}
        /\ tree = branches[head]
        /\ mode = "request" => \A j \in DOMAIN groups : groups[j] = {cve}
        /\ \A r \in requests :
              Explained(branches[r.branch], branches[r.base], FixesOf(r.cves))
    BY <1>1, <2>1 DEF IInv, Apart
  <2>3. tree' = branches[head'] /\ base \in {head', Detached}
    BY <1>1, <2>1, <2>2 DEF CheckedOut, Dirty
  <2>4. Explained(Before', branches'[head'], Own')
    BY <1>1, <2>3, MoreFixes
  <2>5. \A cs : FixesOf(cs)' = FixesOf(cs)
    BY DEF FixesOf
  <2> QED
    BY <1>1, <2>2, <2>3, <2>4, <2>5 DEF Apart
<1> QED
  BY <1>4, <1>5, <1>6, <1>7 DEF IInv

\* Each step of the requests keeps the invariant.
LEMMA RequestInv == IInv /\ Request => IInv'
BY SkipGroupStep, CutBranchStep, CommitStep, PushStep, OpenStep, ReturnStep
DEF Request

-----------------------------------------------------------------------------
(* The steps of the scan *)

\* The types after a step of the scan.
LEMMA ScanTypes ==
  ASSUME TypeOK,
         UNCHANGED <<project, installed, branches, head, group, requests, drifted,
                     containment>>,
         tree' \in Contents, phase' \in Phases, cve' \in Cves \cup {NoCve},
         todo' \subseteq Packages, pkg' \in Packages \cup {NoPackage},
         snapshot' \in Contents, draft' \in Drafts, results' \subseteq Results,
         step' \in Steps, base' \in {Detached} \cup DOMAIN branches,
         mishaps' \in 0..MaxMishaps,
         mode' \in {"idle", "cves", "remediate", "request", "store", "final"},
         scan' \in 0..project.scans,
         waiting' \cup reports' \cup memory' \cup stored' \cup cutOff' \subseteq Cves,
         pkgsOf' \in [Cves -> SUBSET Packages],
         claims' \cup abandoned' \subseteq Fixes
  PROVE  TypeOK'
<1>1. Contents' = Contents
  BY DEF Contents
<1> QED
  BY <1>1 DEF TypeOK, Phases, Steps

\* What stays when the results in hand are claimed or lost.
LEMMA HandOver ==
  ASSUME IInv, UNCHANGED <<installed, branches, containment, drifted>>,
         tree'.fixed = tree.fixed, tree'.patchOf = tree.patchOf,
         ~draft'.applied, results' = {},
         claims \cup abandoned \cup InFlight \subseteq claims' \cup abandoned',
         claims' \subseteq claims \cup Decided,
         phase' \notin {"primary", "fallback"}
  PROVE  Turn' /\ Accounted' /\ Safe' /\ Contained' /\ Installed'
<1>1. Before' = tree' /\ Decided' = {}
  BY FixesOfResults DEF Before, Decided
<1>2. Reported \cup InFlight \subseteq Reported'
  BY InFlightIs, <1>1 DEF Reported
<1>3. Accounted'
  <2>1. Claimed(tree', Reported')
    BY <1>2, TreeFacts, SameChanges, MoreFixes
  <2>2. \A b \in DOMAIN branches : Claimed(branches[b], Reported')
    BY <1>2, MoreFixes DEF IInv, Accounted
  <2> QED
    BY <1>1, <2>1, <2>2 DEF Accounted
<1>4. Safe'
  BY <1>1, TreeFacts DEF IInv, Safe
<1>5. Contained' /\ Installed'
  BY <1>1 DEF IInv, Contained, Installed
<1> QED
  BY <1>3, <1>4, <1>5 DEF Turn, Applied

\* What stays of the requests when the scan goes on: what the files have and
\* the branch has not is explained by the fixes the next step may propose.
LEMMA ApartStays ==
  ASSUME IInv, UNCHANGED <<branches, head, requests, changeRequest>>,
         ~draft'.applied, tree'.fixed = tree.fixed, tree'.patchOf = tree.patchOf,
         claims \subseteq claims', step' \in {"off", "next"},
         changeRequest /\ mishaps' = 0 /\ abandoned' = {} =>
           /\ mishaps = 0 /\ abandoned = {}
           /\ Explained(tree, branches[head], Own'),
         step' = "next" => base' \in {head, Detached},
         mode' = "request" => \A k \in DOMAIN groups' : groups'[k] = {cve'}
  PROVE  Cut' /\ Apart'
<1>1. Cut'
  BY DEF Cut
<1>2. SUFFICES ASSUME changeRequest', mishaps' = 0, abandoned' = {}
               PROVE  Apart'
  BY <1>1 DEF Apart
<1>3. /\ Explained(tree, branches[head], Own')
      /\ \A r \in requests :
            Explained(branches[r.branch], branches[r.base], FixesOf(r.cves))
  BY <1>2 DEF IInv, Apart
<1>4. Explained(Before', branches'[head'], Own')
  <2>1. Before' = tree'
    BY DEF Before
  <2> QED
    BY <1>3, <2>1, SameChanges
<1>5. \A r \in requests' : Explained(branches'[r.branch], branches'[r.base],
                                     FixesOf(r.cves)')
  <2>1. \A cs : FixesOf(cs) \subseteq FixesOf(cs)'
    BY DEF FixesOf
  <2> QED
    BY <1>3, <2>1, MoreFixes
<1> QED
  BY <1>4, <1>5 DEF Apart

\* What the types say of the variables one by one.
LEMMA Typed ==
  ASSUME IInv
  PROVE  /\ project \in Projects /\ tree \in Contents /\ snapshot \in Contents
         /\ phase \in Phases /\ cve \in Cves \cup {NoCve} /\ todo \subseteq Packages
         /\ pkg \in Packages \cup {NoPackage} /\ draft \in Drafts
         /\ results \subseteq Results /\ step \in Steps
         /\ base \in {Detached} \cup DOMAIN branches /\ mishaps \in 0..MaxMishaps
         /\ mode \in {"idle", "cves", "remediate", "request", "store", "final"}
         /\ scan \in 0..project.scans
         /\ waiting \subseteq Cves /\ reports \subseteq Cves /\ memory \subseteq Cves
         /\ stored \subseteq Cves /\ cutOff \subseteq Cves
         /\ pkgsOf \in [Cves -> SUBSET Packages]
         /\ claims \subseteq Fixes /\ abandoned \subseteq Fixes
         /\ InFlight \subseteq Fixes
         /\ head \in DOMAIN branches
<1>1. InFlight \subseteq Fixes
  <2>1. Decided \subseteq Fixes
    BY FixesTyped DEF IInv, Modes, TypeOK, Decided
  <2>2. draft.applied =>
          [cve |-> cve, pkg |-> pkg, how |-> draft.how] \in Fixes
    <3>1. draft.applied => /\ phase = "decide" /\ cve \in Cves
                           /\ draft.how \in {"version", "patch"}
      BY DraftFacts DEF IInv, Modes
    <3> QED
      BY <3>1 DEF IInv, Modes, Fixes
  <2> QED
    BY <2>1, <2>2, InFlightIs
<1> QED
  BY <1>1 DEF IInv, TypeOK, Phases, Steps

\* Between the CVEs, and while there is no scan, nothing is in hand.
LEMMA NothingInHand ==
  ASSUME IInv, mode # "remediate"
  PROVE  /\ phase = "off" /\ results = {} /\ ~draft.applied
         /\ Before = tree /\ Decided = {} /\ InFlight = {}
BY FixesOfResults, InFlightIs DEF IInv, Modes, Before, Decided

\* A scan starts, or takes a report over from the index.
LEMMA StartStep ==
  ASSUME IInv, StartScan \/ \E c \in Cves : ResumeCve(c)
  PROVE  IInv'
<1>1. /\ mode \in {"idle", "cves"} /\ mode' = "cves"
      /\ UNCHANGED <<project, tree, installed, branches, head, pipelineVars,
                     requestVars, pkgsOf, changeRequest, stored, cutOff, claims,
                     abandoned, drifted>>
      /\ waiting' \subseteq waiting \cup Cves /\ reports' \subseteq reports \cup Cves
      /\ memory' \in {memory, {}}
      /\ \/ scan < project.scans /\ scan' = scan + 1
         \/ scan' = scan /\ mode = "cves"
  BY DEF StartScan, ResumeCve
<1>2. UNCHANGED <<phase, cve, todo, pkg, snapshot, draft, results, containment,
                  step, groups, group, base, requests, named, mishaps>>
  BY <1>1 DEF pipelineVars, requestVars
<1>3. /\ phase = "off" /\ results = {} /\ ~draft.applied /\ Before = tree
      /\ Decided = {} /\ InFlight = {} /\ step = "off"
  BY <1>1, NothingInHand DEF IInv, Modes
<1>4. scan' \in 0..project.scans /\ scan' > 0
  <2>1. project.scans \in Nat
    BY Typed, WorkingCopyAssumption
  <2> QED
    BY <1>1, <2>1, Typed DEF IInv, Modes
<1>5. TypeOK'
  BY <1>1, <1>2, <1>4, Typed, ScanTypes DEF IInv
<1>6. Modes'
  BY <1>1, <1>2, <1>3, <1>4 DEF IInv, Modes
<1>7. Turn' /\ Accounted' /\ Safe' /\ Contained' /\ Installed'
  BY <1>1, <1>2, <1>3, HandOver
<1>8. Indexed'
  BY <1>1 DEF IInv, Indexed
<1>9. Own = {} /\ Own' = {}
  BY <1>1 DEF Own
<1>10. Cut' /\ Apart'
  BY <1>1, <1>2, <1>3, <1>9, ApartStays DEF IInv, Apart
<1> QED
  BY <1>5, <1>6, <1>7, <1>8, <1>10 DEF IInv

\* A CVE is handed to the pipeline.
LEMMA RemediateStep ==
  ASSUME IInv, NEW c \in Cves, RemediateCve(c)
  PROVE  IInv'
<1>1. /\ mode = "cves" /\ mode' = "remediate" /\ phase' = "lookup" /\ cve' = c
      /\ results' = {} /\ waiting' = waiting \ {c}
      /\ UNCHANGED <<project, tree, installed, branches, head, todo, pkg, snapshot,
                     draft, containment, step, groups, group, base, requests,
                     named, mishaps, scan, reports, pkgsOf, memory,
                     changeRequest, stored, cutOff, claims, abandoned, drifted>>
  BY DEF RemediateCve, Enter, requestVars
<1>2. /\ ~draft.applied /\ Before = tree
      /\ Decided = {} /\ InFlight = {} /\ step = "off"
  BY <1>1, NothingInHand DEF IInv, Modes
<1>3. TypeOK'
  BY <1>1, Typed, ScanTypes DEF IInv, Phases
<1>4. Modes'
  BY <1>1, <1>2 DEF IInv, Modes
<1>5. Turn' /\ Accounted' /\ Safe' /\ Contained' /\ Installed'
  BY <1>1, <1>2, HandOver
<1>6. Indexed'
  BY <1>1 DEF IInv, Indexed
<1>7. Own = {}
  BY <1>1 DEF Own
<1>8. Own' = {}
  BY <1>1, FixesOfResults DEF Own, Decided
<1>9. Cut' /\ Apart'
  BY <1>1, <1>2, <1>7, <1>8, ApartStays DEF IInv, Apart
<1> QED
  BY <1>3, <1>4, <1>5, <1>6, <1>9 DEF IInv

\* remediate throws: the results in hand are lost, and remembered as such.
LEMMA FailStep ==
  ASSUME IInv, CveFails
  PROVE  IInv'
<1>1. /\ mode = "remediate" /\ mode' = "cves" /\ phase' = "off" /\ cve' = NoCve
      /\ phase \in {"lookup", "primary", "fallback"}
      /\ abandoned' = abandoned \cup InFlight
      /\ results' = {} /\ todo' = {} /\ draft' = Unresolved("none")
      /\ snapshot' = Untouched /\ pkg' = NoPackage
      /\ UNCHANGED <<project, tree, installed, branches, head, containment, step,
                     groups, group, base, requests, named, mishaps, scan,
                     waiting, reports, pkgsOf, memory, changeRequest, stored, cutOff,
                     claims, drifted>>
  BY DEF CveFails, Throws, requestVars
<1>2. /\ ~draft.applied /\ Before = tree /\ Decided = InFlight /\ step = "off"
      /\ draft' \in Drafts /\ ~draft'.applied /\ snapshot' \in Contents
  BY <1>1, InFlightIs, DraftFacts, ContentFacts, Typed
  DEF IInv, Modes, Before, Reasons
<1>3. TypeOK'
  BY <1>1, <1>2, Typed, ScanTypes DEF IInv, Phases
<1>4. Modes'
  BY <1>1, <1>2 DEF IInv, Modes
<1>5. Turn' /\ Accounted' /\ Safe' /\ Contained' /\ Installed'
  BY <1>1, <1>2, HandOver
<1>6. Indexed'
  BY <1>1 DEF IInv, Indexed
<1>7. Own = Decided /\ Own' = {}
  BY <1>1 DEF Own
<1>8. abandoned' = {} => abandoned = {} /\ Own = {}
  BY <1>1, <1>2, <1>7
<1>9. Cut' /\ Apart'
  BY <1>1, <1>2, <1>7, <1>8, ApartStays DEF IInv, Apart
<1> QED
  BY <1>3, <1>4, <1>5, <1>6, <1>9 DEF IInv

\* The groups of some reports hold these reports only, and one report has groups.
LEMMA GroupFacts ==
  ASSUME NEW grouping, NEW cs, NEW pkgsBy
  PROVE  /\ \A k \in DOMAIN GroupReports(grouping, cs, pkgsBy) :
              GroupReports(grouping, cs, pkgsBy)[k] \subseteq cs
         /\ \A c : cs = {c} =>
              \A k \in DOMAIN GroupReports(grouping, cs, pkgsBy) :
                 GroupReports(grouping, cs, pkgsBy)[k] = cs
         /\ \A c \in cs :
              grouping \in {"all", "per-cve", "per-package", "by-severity"} =>
                DOMAIN GroupReports(grouping, cs, pkgsBy) # {}
<1> DEFINE Keys(c) == GroupKeys(grouping, c, pkgsBy[c])
           keys == UNION {Keys(c) : c \in cs}
<1>1. GroupReports(grouping, cs, pkgsBy)
        = [k \in keys |-> {c \in cs : k \in Keys(c)}]
  BY DEF GroupReports
<1>2. ASSUME NEW c, grouping \in {"all", "per-cve", "per-package", "by-severity"}
      PROVE  Keys(c) # {}
  BY <1>2 DEF GroupKeys
<1> HIDE DEF Keys
<1>3. \A k \in keys : [j \in keys |-> {c \in cs : j \in Keys(c)}][k]
                        = {c \in cs : k \in Keys(c)}
  OBVIOUS
<1>4. \A c \in cs : grouping \in {"all", "per-cve", "per-package", "by-severity"}
                      => keys # {}
  BY <1>2
<1>5. \A c : cs = {c} => \A k \in keys : {x \in cs : k \in Keys(x)} = cs
  OBVIOUS
<1> QED
  BY <1>1, <1>3, <1>4, <1>5

\* A report claims the fixes in hand, and its change requests begin.
LEMMA ReportStep ==
  ASSUME IInv, Report
  PROVE  IInv'
<1>1. /\ mode = "remediate" /\ phase = "done" /\ phase' = "off" /\ results' = {}
      /\ claims' = claims \cup Decided
      /\ pkgsOf' = [pkgsOf EXCEPT ![cve] = {r.pkg : r \in results}]
      /\ reports' = reports \cup {cve}
      /\ UNCHANGED <<project, tree, installed, branches, head, cve, todo, pkg,
                     snapshot, draft, containment, group, requests, named,
                     mishaps, scan, waiting, memory, changeRequest, stored, cutOff,
                     abandoned, drifted>>
  BY DEF Report, Decided
<1>2. /\ \/ /\ changeRequest /\ mode' = "request" /\ step' = "next"
            /\ groups' = GroupReports(project.grouping, {cve}, pkgsOf')
            /\ base' = CurrentBranch
         \/ /\ ~changeRequest /\ mode' = "store"
            /\ UNCHANGED <<groups, base, step>>
  BY DEF Report, Begin
<1>3. /\ ~draft.applied /\ Before = tree /\ Decided = InFlight /\ step = "off"
      /\ cve \in Cves
  BY <1>1, InFlightIs DEF IInv, Modes, Before
<1>4. project.grouping \in {"all", "per-cve", "per-package", "by-severity"}
  BY Typed, WorkingCopyAssumption
<1>5. mode' = "request" => /\ \A k \in DOMAIN groups' : groups'[k] = {cve}
                           /\ DOMAIN groups' # {}
  <2> DEFINE made == GroupReports(project.grouping, {cve}, pkgsOf')
  <2>1. \A k \in DOMAIN made : made[k] = {cve}
    BY GroupFacts
  <2>2. cve \in {cve}
    OBVIOUS
  <2>3. DOMAIN made # {}
    BY <1>4, <2>2, GroupFacts
  <2> QED
    BY <1>2, <2>1, <2>3
<1>6. base' \in {Detached} \cup DOMAIN branches
      /\ (step' = "next" => base' \in {head, Detached})
  BY <1>2, <1>3, Typed DEF CurrentBranch
<1>7. TypeOK'
  <2>1. {r.pkg : r \in results} \subseteq Packages
    BY Typed DEF Results
  <2>2. pkgsOf' \in [Cves -> SUBSET Packages]
    BY <1>1, <1>3, <2>1, Typed
  <2>3. claims' \subseteq Fixes
    BY <1>1, <1>3, Typed
  <2> QED
    BY <1>1, <1>2, <1>3, <1>6, <2>2, <2>3, Typed, ScanTypes DEF IInv, Phases, Steps
<1>8. Modes'
  <2>1. \A k \in DOMAIN groups' : groups'[k] \subseteq Cves
    BY <1>2, <1>3, <1>5 DEF IInv, Modes
  <2> QED
    BY <1>1, <1>2, <1>3, <2>1 DEF IInv, Modes
<1>9. Turn' /\ Accounted' /\ Safe' /\ Contained' /\ Installed'
  BY <1>1, <1>3, HandOver
<1>10. Indexed'
  BY <1>1 DEF IInv, Indexed
<1>11. changeRequest => Own \subseteq Own'
  <2>1. Own = Decided
    BY <1>1 DEF Own
  <2>2. changeRequest => Own' = FixesOf({cve})'
    BY <1>1, <1>2, <1>5 DEF Own
  <2>3. \A fix \in Decided : fix.cve = cve
    BY DEF Decided, FixesIn, IInv, Modes
  <2> QED
    BY <1>1, <2>1, <2>2, <2>3 DEF FixesOf
<1>12. changeRequest /\ mishaps = 0 /\ abandoned = {} =>
         Explained(tree, branches[head], Own)
  BY <1>3 DEF IInv, Apart
<1>13. Cut' /\ Apart'
  BY <1>1, <1>2, <1>3, <1>5, <1>6, <1>11, <1>12, ApartStays, MoreFixes
<1> QED
  BY <1>7, <1>8, <1>9, <1>10, <1>13 DEF IInv

\* The report is stored in the index, which keeps what it had.
LEMMA StoreStep ==
  ASSUME IInv, Store
  PROVE  IInv'
<1>1. /\ mode = "store" /\ mode' = "cves" /\ cve' = NoCve
      /\ tree' = [tree EXCEPT !.ledger = Index \cup {cve}]
      /\ memory' = Extended
      /\ stored' = stored \cup {cve} /\ cutOff' = cutOff \ {cve}
      /\ UNCHANGED <<project, installed, branches, head, phase, todo, pkg, snapshot,
                     draft, results, containment, step, groups, group, base,
                     requests, named, mishaps, scan, waiting, reports, pkgsOf,
                     changeRequest, claims, abandoned, drifted>>
  BY DEF Store, requestVars
<1>2. /\ ~draft.applied /\ Before = tree /\ results = {} /\ phase = "off"
      /\ Decided = {} /\ InFlight = {} /\ step = "off" /\ cve \in Cves
  BY <1>1, NothingInHand DEF IInv, Modes
<1>3. Index \subseteq Cves
  <2>1. /\ tree.ledger \in SUBSET Cves \/ tree.ledger = Torn
        /\ memory \subseteq Cves
    BY Typed DEF Contents
  <2>2. Readable => tree.ledger # Torn
    BY DEF Readable
  <2> QED
    BY <2>1, <2>2 DEF Index
<1>4. /\ tree' \in Contents /\ tree'.fixed = tree.fixed
      /\ tree'.patchOf = tree.patchOf /\ tree'.ledger = Index \cup {cve}
  BY <1>1, <1>2, <1>3, Typed DEF Contents
<1>5. TypeOK'
  <2>1. memory' \subseteq Cves /\ stored' \subseteq Cves /\ cutOff' \subseteq Cves
    BY <1>1, <1>2, Typed DEF Extended
  <2> QED
    BY <1>1, <1>4, <2>1, Typed, ScanTypes DEF IInv
<1>6. Modes'
  BY <1>1, <1>2 DEF IInv, Modes
<1>7. Turn' /\ Accounted' /\ Safe' /\ Contained' /\ Installed'
  BY <1>1, <1>2, <1>4, HandOver
<1>8. Indexed'
  <2>1. tree.ledger = Torn => stored \cap tree.ledger = {}
    BY Typed, WorkingCopyAssumption DEF Torn
  <2>2. ~changeRequest => stored \ cutOff \subseteq Index
    BY <2>1 DEF IInv, Indexed, Index, Readable
  <2> QED
    BY <1>1, <1>4, <2>2 DEF Indexed
<1>9. Own = {} /\ Own' = {}
  BY <1>1 DEF Own
<1>10. Cut' /\ Apart'
  BY <1>1, <1>2, <1>4, <1>9, ApartStays DEF IInv, Apart
<1> QED
  BY <1>5, <1>6, <1>7, <1>8, <1>10 DEF IInv

\* A write that is cut off leaves a file that does not parse, and changes the
\* files in nothing else.
LEMMA CutOffFacts ==
  ASSUME IInv, CutOffWrite \/ UNCHANGED <<tree, cutOff>>, UNCHANGED changeRequest,
         UNCHANGED stored
  PROVE  /\ tree' \in Contents /\ tree'.fixed = tree.fixed
         /\ tree'.patchOf = tree.patchOf
         /\ cutOff' \subseteq Cves /\ Indexed'
<1>1. CASE CutOffWrite
  <2>1. tree' = [tree EXCEPT !.ledger = Torn] /\ cutOff' = stored
    BY <1>1 DEF CutOffWrite
  <2>2. tree' \in Contents
    <3> DEFINE Ledgers == (SUBSET Cves) \cup {Torn}
    <3>1. Torn \in Ledgers
      OBVIOUS
    <3>2. Contents = [fixed: SUBSET Packages,
                      patchOf: [Packages -> Cves \cup {NoCve}],
                      ledger: Ledgers, evidence: SUBSET (1..project.scans)]
      BY DEF Contents
    <3> HIDE DEF Ledgers
    <3> QED
      BY <2>1, <3>1, <3>2, Typed
  <2>3. tree'.fixed = tree.fixed /\ tree'.patchOf = tree.patchOf
    BY <2>1, Typed DEF Contents
  <2>4. stored' \ cutOff' = {}
    BY <2>1
  <2> QED
    BY <2>1, <2>2, <2>3, <2>4, Typed DEF Indexed
<1>2. CASE UNCHANGED <<tree, cutOff>>
  BY <1>2, Typed DEF IInv, Indexed
<1> QED
  BY <1>1, <1>2

\* The report cannot be stored: it is lost, the fixes that it claims are not.
LEMMA StoreFailsStep ==
  ASSUME IInv, StoreFails
  PROVE  IInv'
<1>1. /\ mode = "store" /\ mode' = "cves" /\ cve' = NoCve /\ Mishap
      /\ CutOffWrite \/ UNCHANGED <<tree, cutOff>>
      /\ memory' = Extended /\ reports' = reports \ {cve}
      /\ UNCHANGED <<project, installed, branches, head, phase, todo, pkg, snapshot,
                     draft, results, containment, step, groups, group, base,
                     requests, named, scan, waiting, pkgsOf, changeRequest,
                     stored, claims, abandoned, drifted>>
  BY DEF StoreFails
<1>2. /\ ~draft.applied /\ results = {} /\ phase = "off"
      /\ Decided = {} /\ InFlight = {} /\ step = "off" /\ cve \in Cves
  BY <1>1, NothingInHand DEF IInv, Modes
<1>3. mishaps' \in 0..MaxMishaps /\ mishaps' # 0
  BY <1>1, Typed, RequestAssumption DEF Mishap
<1>4. /\ tree' \in Contents /\ tree'.fixed = tree.fixed
      /\ tree'.patchOf = tree.patchOf /\ cutOff' \subseteq Cves /\ Indexed'
  BY <1>1, CutOffFacts
<1>5. TypeOK'
  <2>1. memory' \subseteq Cves /\ reports' \subseteq Cves
    BY <1>1, <1>2, Typed DEF Extended
  <2> QED
    BY <1>1, <1>3, <1>4, <2>1, Typed, ScanTypes DEF IInv
<1>6. Modes'
  BY <1>1, <1>2 DEF IInv, Modes
<1>7. Turn' /\ Accounted' /\ Safe' /\ Contained' /\ Installed'
  BY <1>1, <1>2, <1>4, HandOver
<1>8. Cut' /\ Apart'
  BY <1>1, <1>2, <1>3 DEF Cut, Apart
<1> QED
  BY <1>4, <1>5, <1>6, <1>7, <1>8 DEF IInv

\* All groups are done: what the files have is on the branch.
LEMMA RequestsDoneStep ==
  ASSUME IInv, RequestsDone
  PROVE  IInv'
<1>1. /\ mode \in {"request", "final"} /\ step = "next" /\ DOMAIN groups = {}
      /\ step' = "off" /\ mode' = IF mode = "request" THEN "store" ELSE "idle"
      /\ UNCHANGED <<project, tree, installed, branches, head, phase, cve, todo, pkg,
                     snapshot, draft, results, containment, groups, group, base,
                     requests, named, mishaps, scan, waiting, reports, pkgsOf,
                     memory, changeRequest, stored, cutOff, claims, abandoned, drifted>>
  BY DEF RequestsDone, Ended, pipelineVars
<1>2. /\ ~draft.applied /\ Before = tree /\ results = {} /\ phase = "off"
      /\ Decided = {} /\ InFlight = {}
  BY <1>1, NothingInHand
<1>3. TypeOK'
  BY <1>1, Typed, ScanTypes DEF IInv, Steps
<1>4. Modes'
  BY <1>1, <1>2 DEF IInv, Modes
<1>5. Turn' /\ Accounted' /\ Safe' /\ Contained' /\ Installed'
  BY <1>1, <1>2, HandOver
<1>6. Indexed'
  BY <1>1 DEF IInv, Indexed
<1>7. Own = {} /\ Own' = {}
  BY <1>1 DEF Own
<1>8. Cut' /\ Apart'
  BY <1>1, <1>2, <1>7, ApartStays DEF IInv, Apart
<1> QED
  BY <1>3, <1>4, <1>5, <1>6, <1>8 DEF IInv

\* The evidence of the scan is written, and its own requests begin.
LEMMA FinishStep ==
  ASSUME IInv, Finish
  PROVE  IInv'
<1>1. /\ mode = "cves" /\ tree' = [tree EXCEPT !.evidence = @ \cup {scan}]
      /\ UNCHANGED <<project, installed, branches, head, phase, cve, todo, pkg,
                     snapshot, draft, results, containment, group, requests,
                     named, mishaps, scan, waiting, reports, pkgsOf, memory,
                     changeRequest, stored, cutOff, claims, abandoned, drifted>>
  BY DEF Finish, pipelineVars
<1>2. \/ /\ changeRequest /\ mode' = "final" /\ step' = "next"
         /\ groups' = GroupReports(project.grouping, reports, pkgsOf)
         /\ base' = CurrentBranch
      \/ mode' = "idle" /\ UNCHANGED <<groups, base, step>>
  BY DEF Finish, Begin
<1>3. /\ ~draft.applied /\ Before = tree /\ results = {} /\ phase = "off"
      /\ Decided = {} /\ InFlight = {} /\ step = "off"
  BY <1>1, NothingInHand DEF IInv, Modes
<1>4. /\ tree' \in Contents /\ tree'.fixed = tree.fixed
      /\ tree'.patchOf = tree.patchOf /\ tree'.ledger = tree.ledger
  <2>1. scan \in 1..project.scans
    <3>1. project.scans \in Nat
      BY Typed, WorkingCopyAssumption
    <3> QED
      BY <1>1, <3>1, Typed DEF IInv, Modes
  <2> QED
    BY <1>1, <2>1, Typed DEF Contents
<1>5. /\ base' \in {Detached} \cup DOMAIN branches
      /\ step' = "next" => base' \in {head, Detached}
  BY <1>2, <1>3, Typed DEF CurrentBranch
<1>6. \A k \in DOMAIN groups' : groups'[k] \subseteq Cves
  BY <1>2, GroupFacts, Typed DEF IInv, Modes
<1>7. TypeOK'
  BY <1>1, <1>2, <1>3, <1>4, <1>5, Typed, ScanTypes DEF IInv, Steps
<1>8. Modes'
  BY <1>1, <1>2, <1>3, <1>6 DEF IInv, Modes
<1>9. Turn' /\ Accounted' /\ Safe' /\ Contained' /\ Installed'
  BY <1>1, <1>3, <1>4, HandOver
<1>10. Indexed'
  BY <1>1, <1>4 DEF IInv, Indexed
<1>11. Own = {} /\ Own' = {}
  BY <1>1, <1>2 DEF Own
<1>12. Cut' /\ Apart'
  BY <1>1, <1>2, <1>3, <1>4, <1>5, <1>11, ApartStays DEF IInv, Apart
<1> QED
  BY <1>7, <1>8, <1>9, <1>10, <1>12 DEF IInv

\* The process dies: the results in hand are lost, the files stay.
LEMMA CrashStep ==
  ASSUME IInv, Crash
  PROVE  IInv'
<1>1. /\ mode # "idle" /\ mode' = "idle" /\ phase' = "off" /\ step' = "off"
      /\ groups' = <<>> /\ memory' = {} /\ waiting' = {} /\ reports' = {}
      /\ abandoned' = abandoned \cup InFlight
      /\ results' = {} /\ todo' = {} /\ draft' = Unresolved("none")
      /\ snapshot' = Untouched /\ pkg' = NoPackage /\ cve' = NoCve /\ Mishap
      /\ CutOffWrite \/ UNCHANGED <<tree, cutOff>>
      /\ UNCHANGED <<project, installed, branches, head, containment, group,
                     base, requests, named, scan, pkgsOf, changeRequest, stored,
                     claims, drifted>>
  BY DEF Crash
<1>2. /\ tree' \in Contents /\ tree'.fixed = tree.fixed
      /\ tree'.patchOf = tree.patchOf /\ cutOff' \subseteq Cves /\ Indexed'
  BY <1>1, CutOffFacts
<1>3. draft' \in Drafts /\ ~draft'.applied /\ snapshot' \in Contents
  BY <1>1, DraftFacts, ContentFacts, Typed DEF Reasons
<1>4. mishaps' \in 0..MaxMishaps /\ mishaps' # 0
  BY <1>1, Typed, RequestAssumption DEF Mishap
<1>5. TypeOK'
  BY <1>1, <1>3, <1>4, <1>2, Typed, ScanTypes DEF IInv, Phases, Steps
<1>6. Modes'
  BY <1>1, <1>3 DEF IInv, Modes
<1>7. Turn' /\ Accounted' /\ Safe' /\ Contained' /\ Installed'
  BY <1>1, <1>3, <1>2, HandOver
<1>8. Cut' /\ Apart'
  BY <1>1, <1>4 DEF Cut, Apart
<1> QED
  BY <1>5, <1>6, <1>7, <1>8, <1>2 DEF IInv

-----------------------------------------------------------------------------
(* The invariance *)

\* In the first state nothing is fixed and nothing is in hand.
LEMMA InitInv == Init => IInv
<1> SUFFICES ASSUME Init PROVE IInv
  OBVIOUS
<1> USE DEF Init
<1>1. /\ project \in Projects /\ Untouched \in Contents
      /\ \A p \in Packages : Untouched.patchOf[p] = NoCve
      /\ Untouched.fixed = {}
  BY ContentFacts
<1>2. /\ draft \in Drafts /\ ~draft.applied /\ Before = tree /\ Decided = {}
      /\ InFlight = {}
  BY DraftFacts, FixesOfResults, InFlightIs DEF Before, Decided, Reasons
<1>3. /\ branches \in Seq(Contents) /\ DOMAIN branches = {1}
      /\ branches[1] = Untouched
  BY <1>1
<1>4. TypeOK
  <2>1. mishaps \in 0..MaxMishaps /\ scan \in 0..project.scans
    BY <1>1, RequestAssumption, WorkingCopyAssumption
  <2>2. pkgsOf \in [Cves -> SUBSET Packages]
    OBVIOUS
  <2> QED
    BY <1>1, <1>2, <1>3, <2>1, <2>2 DEF TypeOK
<1>5. Modes /\ Turn
  BY <1>2 DEF Modes, Turn, Applied
<1>6. Accounted /\ Safe /\ Contained /\ Installed
  BY <1>1, <1>2, <1>3 DEF Accounted, Claimed, Safe, Contained, Installed
<1>7. Indexed /\ Cut
  BY DEF Indexed, Cut
<1>8. Apart
  <2>1. Explained(Before, branches[head], Own)
    BY <1>2, <1>3, MoreFixes
  <2> QED
    BY <2>1 DEF Apart
<1> QED
  BY <1>4, <1>5, <1>6, <1>7, <1>8 DEF IInv

\* Each step keeps the invariant.
LEMMA NextInv == IInv /\ [Next]_vars => IInv'
<1>1. ASSUME IInv, UNCHANGED vars PROVE IInv'
  <2>1. UNCHANGED <<project, tree, installed, branches, head, phase, cve, todo, pkg,
                    snapshot, draft, results, containment, step, groups, group,
                    base, requests, named, mishaps, mode, scan, waiting,
                    reports, pkgsOf, memory, changeRequest, stored, cutOff, claims,
                    abandoned, drifted>>
    BY <1>1 DEF vars, pipelineVars, requestVars, scanVars
  <2>2. TypeOK' /\ Modes' /\ Turn'
    BY <1>1, <2>1 DEF IInv, TypeOK, Contents, Modes, Turn
  <2>3. Before' = Before /\ Decided' = Decided /\ Reported' = Reported
    BY <2>1 DEF Before, Decided, Reported, FixesIn
  <2>4. Accounted' /\ Safe' /\ Contained' /\ Installed' /\ Indexed' /\ Cut'
    BY <1>1, <2>1, <2>3
    DEF IInv, Accounted, Safe, Contained, Installed, Indexed, Cut
  <2>5. Own' = Own /\ \A cs : FixesOf(cs)' = FixesOf(cs)
    BY <2>1, <2>3 DEF Own, FixesOf
  <2>6. Apart'
    BY <1>1, <2>1, <2>3, <2>5 DEF IInv, Apart
  <2> QED
    BY <2>2, <2>4, <2>6 DEF IInv
<1> QED
  BY <1>1, PipelineInv, RequestInv, StartStep, RemediateStep, FailStep,
     ReportStep, StoreStep, StoreFailsStep, RequestsDoneStep, FinishStep, CrashStep
  DEF Next

\* The invariant holds of every reachable state.
LEMMA Invariance == Spec => []IInv
BY InitInv, NextInv, PTL DEF Spec

-----------------------------------------------------------------------------
(* The theorems *)

\* Every change in the files and on the branches is a fix that a report claims,
\* that is in flight, or whose result was lost.
THEOREM ClaimsCoverChanges == Spec => []ChangesAreClaimed
<1> DEFINE known == claims \cup abandoned \cup InFlight
<1>1. ASSUME IInv PROVE ChangesAreClaimed
  <2>1. Reported \cup InFlight \subseteq known
    BY InFlightIs DEF Reported
  <2>2. Claimed(tree, known)
    BY <1>1, <2>1, TreeFacts, MoreFixes
  <2>3. \A b \in DOMAIN branches : Claimed(branches[b], known)
    BY <1>1, <2>1, MoreFixes DEF IInv, Accounted
  <2> HIDE DEF known
  <2>4. \A content \in {tree} \cup {branches[b] : b \in DOMAIN branches} :
           Claimed(content, known)
    BY <2>2, <2>3
  <2> QED
    BY <1>1, <2>4 DEF IInv, ChangesAreClaimed, Claimed, known
<1> QED
  BY <1>1, Invariance, PTL

\* In a step of the pipeline a claimed fix stays, unless its patch file is
\* replaced or removed by another attempt to patch the package.
LEMMA PipelineKeeps ==
  ASSUME IInv, Pipeline, NEW fix \in claims, Kept(fix),
         ~(phase = "fallback" /\ pkg = fix.pkg /\ fix.how = "patch")
  PROVE  Kept(fix)'
<1>1. fix.how \in {"version", "patch"} /\ fix.pkg \in Packages
  BY Typed DEF Fixes
<1>2. branches' = branches
  BY DEF Pipeline, PipelineStep, NothingKnown, Inventory, Select, Complete,
         PrimaryRefused, PrimaryApplied, PrimaryFailed, FallbackRefused,
         FallbackApplied, FallbackFailed, Decide
<1>3. SUFFICES ASSUME Holds(tree, fix) PROVE Kept(fix)'
  BY <1>2 DEF Kept, Holds
<1>4. /\ tree \in Contents /\ snapshot \in Contents
      /\ tree.patchOf \in [Packages -> Cves \cup {NoCve}]
      /\ snapshot.patchOf \in [Packages -> Cves \cup {NoCve}]
  BY Typed DEF Contents
<1>5. CASE tree' = tree
  BY <1>3, <1>5 DEF Kept, Holds
<1>6. CASE PrimaryApplied
  <2>1. /\ tree'.fixed = tree.fixed \cup {pkg} /\ tree'.patchOf = tree.patchOf
    BY <1>4, <1>6 DEF PrimaryApplied, Contents
  <2> QED
    BY <1>3, <2>1 DEF Kept, Holds
<1>7. CASE FallbackApplied \/ FallbackFailed
  <2>1. /\ phase = "fallback" /\ tree'.fixed = tree.fixed
        /\ \E c \in {cve, NoCve} :
              tree'.patchOf = [tree.patchOf EXCEPT ![pkg] = c]
    BY <1>4, <1>7 DEF FallbackApplied, FallbackFailed, Contents
  <2>2. fix.how = "patch" => tree'.patchOf[fix.pkg] = tree.patchOf[fix.pkg]
    BY <1>1, <1>4, <2>1
  <2> QED
    BY <1>1, <1>3, <2>1, <2>2 DEF Kept, Holds
<1>8. CASE Decide /\ tree' # tree
  <2>1. /\ draft.applied /\ tree' = snapshot /\ containment /\ cve \in Escalating
    BY <1>8, Decision
  <2>2. CASE fix.how = "version"
    BY <1>2, <2>1, <2>2 DEF IInv, Safe, Before, Kept, Holds
  <2>3. CASE fix.how = "patch"
    <3>1. fix.cve # cve
      BY <2>1 DEF IInv, Contained
    <3>2. CASE draft = Applied("version")
      <4>1. tree.patchOf = snapshot.patchOf
        BY <1>4, <3>2 DEF IInv, Turn, Contents
      <4> QED
        BY <1>3, <2>1, <2>3, <4>1 DEF Kept, Holds
    <3>3. CASE draft = Applied("patch")
      <4>1. tree.patchOf = [snapshot.patchOf EXCEPT ![pkg] = cve]
        BY <1>4, <3>3 DEF IInv, Turn, Contents
      <4>2. tree.patchOf[fix.pkg] = fix.cve
        BY <1>3, <2>3 DEF Holds
      <4>3. snapshot.patchOf[fix.pkg] = fix.cve
        BY <1>1, <1>4, <3>1, <4>1, <4>2
      <4> QED
        BY <2>1, <2>3, <4>3 DEF Kept, Holds
    <3> QED
      BY <2>1, <3>2, <3>3 DEF IInv, Modes
  <2> QED
    BY <1>1, <2>2, <2>3
<1> QED
  BY <1>5, <1>6, <1>7, <1>8
  DEF Pipeline, PipelineStep, NothingKnown, Inventory, Select, Complete,
      PrimaryRefused, PrimaryFailed, FallbackRefused

\* The steps of a request lose no content of the files or of a branch.
LEMMA RequestKeeps ==
  ASSUME IInv, Request
  PROVE  /\ tree' = tree \/ \E c \in DOMAIN branches' : branches'[c] = tree
         /\ \A b \in DOMAIN branches :
               \E c \in DOMAIN branches' : branches'[c] = branches[b]
<1> USE RequestTyped
<1>1. CASE UNCHANGED <<tree, branches>>
  BY <1>1
<1>2. CASE CutBranch
  <2>1. branches[head] \in Contents
    BY ElementOfSeq
  <2>2. /\ branches' \in Seq(Contents) /\ Len(branches') = Len(branches) + 1
        /\ \A b \in 1..Len(branches) : branches'[b] = branches[b]
    BY <1>2, <2>1, AppendProperties DEF CutBranch
  <2> QED
    BY <1>2, <2>2 DEF CutBranch
<1>3. CASE Commit /\ branches' # branches
  <2>1. /\ step = "commit" /\ branches' = [branches EXCEPT ![head] = tree]
        /\ tree' = tree
    BY <1>3 DEF Commit, Committed, Failed
  <2>2. \E b \in DOMAIN branches \ {head} : branches[b] = branches[head]
    BY <2>1 DEF IInv, Cut
  <2>3. /\ DOMAIN branches' = DOMAIN branches
        /\ \A b \in DOMAIN branches \ {head} : branches'[b] = branches[b]
    BY <2>1
  <2> QED
    BY <2>1, <2>2, <2>3
<1>4. CASE Return /\ tree' # tree
  BY <1>4 DEF Return, CheckedOut, Dirty
<1> QED
  BY <1>1, <1>2, <1>3, <1>4
  DEF Request, NothingToRequest, CutFails, Commit, Failed, Push, Open, Return

\* A fix that a report claims stays in the files or on a branch, unless another
\* attempt to patch the same package replaces or removes its patch file.
THEOREM ClaimedFixesSurvive == Spec => FixesSurvive
<1>1. ASSUME IInv, [Next]_vars, NEW fix \in claims, Kept(fix),
             ~(phase = "fallback" /\ pkg = fix.pkg /\ fix.how = "patch")
      PROVE  Kept(fix)'
  <2>1. CASE Pipeline
    BY <1>1, <2>1, PipelineKeeps
  <2>2. CASE Request
    BY <1>1, <2>2, RequestKeeps DEF Kept
  <2>3. CASE tree' = tree /\ branches' = branches
    BY <1>1, <2>3 DEF Kept
  <2>4. CASE Store \/ StoreFails \/ Finish \/ Crash
    <3>1. /\ tree'.fixed = tree.fixed /\ tree'.patchOf = tree.patchOf
          /\ branches' = branches
      BY <1>1, <2>4, Typed
      DEF Store, StoreFails, Crash, CutOffWrite, Finish, Contents
    <3> QED
      BY <1>1, <3>1 DEF Kept, Holds
  <2> QED
    BY <1>1, <2>1, <2>2, <2>3, <2>4
    DEF Next, vars, StartScan, ResumeCve, RemediateCve, CveFails, Report,
        RequestsDone
<1>2. IInv /\ [Next]_vars =>
        [\A fix \in claims :
           Kept(fix) => \/ Kept(fix)'
                        \/ phase = "fallback" /\ pkg = fix.pkg
                           /\ fix.how = "patch"]_vars
  BY <1>1
<1> QED
  BY <1>2, Invariance, PTL DEF Spec, FixesSurvive

\* An affected direct dependency is passed over only when its fix is kept, or a
\* failed tool or a roll back left the fixed version in node_modules.
THEOREM MissesAreExplained == Spec => NoSilentMiss
<1>1. ASSUME IInv, [Next]_vars, phase = "lookup", phase' = "select",
             NEW p \in (project.affects[cve] \cap Direct) \ todo'
      PROVE  \/ Kept([cve |-> cve, pkg |-> p, how |-> "version"])
             \/ p \in drifted
  <2>1. mode = "remediate"
    BY <1>1 DEF IInv, Modes
  <2>2. Inventory
    <3>1. /\ ~StartScan /\ ~Request /\ ~RequestsDone /\ ~Store /\ ~StoreFails
          /\ ~Finish
          /\ \A c \in Cves : ~ResumeCve(c) /\ ~RemediateCve(c)
      BY <2>1
      DEF StartScan, ResumeCve, RemediateCve, Request, RequestsDone, Store,
          StoreFails, Finish
    <3>2. ~CveFails /\ ~Report /\ ~Crash /\ ~UNCHANGED vars
      BY <1>1 DEF CveFails, Throws, Report, Crash, vars, pipelineVars
    <3>3. Pipeline
      BY <1>1, <3>1, <3>2 DEF Next
    <3> QED
      BY <1>1, <3>3
      DEF Pipeline, PipelineStep, NothingKnown, Select, Complete,
          PrimaryRefused, PrimaryApplied, PrimaryFailed, FallbackRefused,
          FallbackApplied, FallbackFailed, Decide
  <2>3. p \in installed \/ p \in tree.fixed
    BY <1>1, <2>2 DEF Inventory, Vulnerable
  <2> QED
    BY <1>1, <2>3 DEF IInv, Installed, Kept, Holds
<1>2. IInv /\ [Next]_vars =>
        [phase = "lookup" /\ phase' = "select" =>
           \A p \in (project.affects[cve] \cap Direct) \ todo' :
              \/ Kept([cve |-> cve, pkg |-> p, how |-> "version"])
              \/ p \in drifted]_vars
  BY <1>1
<1> QED
  BY <1>2, Invariance, PTL DEF Spec, NoSilentMiss

\* Without a failed command, a death or a lost result, a change request proposes
\* the fixes of its own CVEs, and no others.
THEOREM RequestsKeepApart == Spec => []RequestsStandAlone
<1>1. ASSUME IInv, mishaps = 0, abandoned = {}, NEW r \in requests
      PROVE  LET new == branches[r.branch]
                 old == branches[r.base]
             IN  /\ \A p \in new.fixed \ old.fixed :
                      \E c \in r.cves :
                         [cve |-> c, pkg |-> p, how |-> "version"] \in claims
                 /\ \A p \in Packages :
                      new.patchOf[p] \in {old.patchOf[p], NoCve} \cup r.cves
  <2>1. changeRequest
    BY <1>1 DEF IInv, Modes
  <2>2. Explained(branches[r.branch], branches[r.base], FixesOf(r.cves))
    BY <1>1, <2>1 DEF IInv, Apart
  <2>3. ASSUME NEW fix \in FixesOf(r.cves)
        PROVE  /\ fix.cve \in r.cves /\ fix \in claims
               /\ fix = [cve |-> fix.cve, pkg |-> fix.pkg, how |-> fix.how]
    BY <1>1, <2>3, Typed DEF FixesOf, Fixes
  <2>4. ASSUME NEW p \in branches[r.branch].fixed \ branches[r.base].fixed
        PROVE  \E c \in r.cves :
                  [cve |-> c, pkg |-> p, how |-> "version"] \in claims
    BY <2>2, <2>3 DEF Explained
  <2>5. ASSUME NEW p \in Packages
        PROVE  branches[r.branch].patchOf[p]
                 \in {branches[r.base].patchOf[p], NoCve} \cup r.cves
    BY <2>2, <2>3 DEF Explained
  <2> QED
    BY <2>4, <2>5
<1>2. IInv => RequestsStandAlone
  BY <1>1 DEF RequestsStandAlone
<1> QED
  BY <1>2, Invariance, PTL

\* Without change requests, a CVE whose report was stored is run again only after
\* a cut-off write of the index erased that report.
THEOREM StoredIsResumed == Spec => ResumeRespected
<1>1. ASSUME IInv, NEW c \in stored, RemediateCve(c), c \notin cutOff
      PROVE  changeRequest
  <2>1. c \in Cves /\ c \notin Index
    BY <1>1, Typed DEF RemediateCve
  <2>2. c \in tree.ledger => Readable
    BY <2>1, WorkingCopyAssumption DEF Readable, Torn
  <2> QED
    BY <1>1, <2>1, <2>2 DEF IInv, Indexed, Index
<1>2. IInv /\ [Next]_vars =>
        [\A c \in stored :
            RemediateCve(c) => changeRequest \/ c \in cutOff]_vars
  BY <1>1
<1> QED
  BY <1>2, Invariance, PTL DEF Spec, ResumeRespected

=============================================================================
