--------------------------- MODULE ChangeRequests ---------------------------
(***************************************************************************)
(* api/change-request/index.ts: the pull or merge requests for a list of   *)
(* reports.  The reports are grouped; each group gets a branch with all    *)
(* the changes of the working copy, a push and a request, and the branch   *)
(* that was checked out before is checked out again.                       *)
(*                                                                         *)
(* Each git command is a step and may fail; a process that dies between    *)
(* two of them leaves the working copy as it is.                           *)
(***************************************************************************)
EXTENDS WorkingCopy

CONSTANTS
  Severity,   \* CVE -> its severity
  MaxMishaps  \* bound: commands that fail and processes that die

ASSUME RequestAssumption == MaxMishaps \in Nat

VARIABLES
  step,       \* the next command, or "off"
  groups,     \* the groups still to do
  group,      \* the group in hand: a set of CVEs
  base,       \* the base branch, or Detached
  requests,   \* the requests opened
  named,      \* the project was checked out on a branch, not on a commit
  mishaps     \* how many commands failed and processes died

requestVars == <<step, groups, group, base, requests, named, mishaps>>

Detached == 0

Mishap == mishaps < MaxMishaps /\ mishaps' = mishaps + 1

\* git rev-parse --abbrev-ref HEAD
CurrentBranch == IF head = 1 /\ ~named THEN Detached ELSE head

\* groupReports.  A report is the CVE and the packages of its results; the
\* groups are the values of a Map, so equal lists of different keys stay apart.
GroupKeys(grouping, cve, pkgs) ==
  CASE grouping = "all" -> {<<"all">>}
    [] grouping = "per-cve" -> {<<"cve", cve>>}
    [] grouping = "by-severity" -> {<<"severity", Severity[cve]>>}
    [] grouping = "per-package" ->
         IF pkgs = {} THEN {<<"misc">>} ELSE {<<"package", p>> : p \in pkgs}

GroupReports(grouping, cves, pkgsOf) ==
  LET keys == UNION {GroupKeys(grouping, c, pkgsOf[c]) : c \in cves}
  IN  [k \in keys |-> {c \in cves : k \in GroupKeys(grouping, c, pkgsOf[c])}]

\* createChangeRequestsForReports is called with these groups.
Begin(gs) ==
  /\ groups' = gs
  /\ base' = CurrentBranch
  /\ step' = "next"

\* The next group.  When the working copy is clean there is nothing to request.
NothingToRequest ==
  /\ step = "next"
  /\ \E k \in DOMAIN groups :
       groups' = [j \in DOMAIN groups \ {k} |-> groups[j]]
  /\ ~Dirty
  /\ UNCHANGED <<project, tree, installed, branches, head, step, group, base, requests,
                 named, mishaps>>

\* git checkout -b and git add -A.
CutBranch ==
  /\ step = "next"
  /\ Dirty
  /\ \E k \in DOMAIN groups :
       /\ group' = groups[k]
       /\ groups' = [j \in DOMAIN groups \ {k} |-> groups[j]]
  /\ branches' = Append(branches, branches[head])
  /\ head' = Len(branches')
  /\ step' = "commit"
  /\ UNCHANGED <<project, tree, installed, base, requests, named, mishaps>>

\* The branch could not be created: the group fails.
CutFails ==
  /\ step = "next"
  /\ Dirty
  /\ \E k \in DOMAIN groups :
       groups' = [j \in DOMAIN groups \ {k} |-> groups[j]]
  /\ Mishap
  /\ UNCHANGED <<project, tree, installed, branches, head, step, group, base, requests,
                 named>>

\* A command of the group fails: the error is recorded, and the finally block
\* returns to the base.
Failed ==
  /\ step' = "return"
  /\ Mishap
  /\ UNCHANGED <<branches, requests>>

Committed == tree

\* git commit: everything that is in the directory and not ignored.
Commit ==
  /\ step = "commit"
  /\ \/ /\ branches' = [branches EXCEPT ![head] = Committed]
        /\ step' = "push"
        /\ UNCHANGED <<requests, mishaps>>
     \/ Failed
  /\ UNCHANGED <<project, tree, installed, head, groups, group, base, named>>

Push ==
  /\ step = "push"
  /\ \/ step' = "open" /\ UNCHANGED <<branches, requests, mishaps>>
     \/ Failed
  /\ UNCHANGED <<project, tree, installed, head, groups, group, base, named>>

HasBase == base # Detached

\* The provider opens the request; it knows no branch HEAD.
Open ==
  /\ step = "open"
  /\ step' = "return"
  /\ \/ /\ HasBase
        /\ requests' = requests \cup {[branch |-> head, base |-> base, cves |-> group]}
        /\ UNCHANGED mishaps
     \/ UNCHANGED requests /\ IF HasBase THEN Mishap ELSE UNCHANGED mishaps
  /\ UNCHANGED <<project, tree, installed, branches, head, groups, group, base,
                 named>>

CheckoutForced == branches[base]  \* mutant
CarriedAlong == tree              \* mutant: the base is not checked out
\* The files after a checkout of the base: uncommitted changes move along.
CheckedOut == IF Dirty THEN tree ELSE branches[base]

\* git refuses to check out another commit over uncommitted changes.
Refused == Dirty /\ branches[head] # branches[base]

\* git checkout of the base.  Its failure is ignored; a base HEAD is where the
\* working copy already is.
Return ==
  /\ step = "return"
  /\ step' = "next"
  /\ \/ /\ base # Detached
        /\ ~Refused
        /\ head' = base
        /\ tree' = CheckedOut
        /\ UNCHANGED mishaps
     \/ /\ base = Detached
        /\ UNCHANGED <<head, tree, mishaps>>
     \/ /\ base # Detached
        /\ IF Refused THEN UNCHANGED mishaps ELSE Mishap
        /\ UNCHANGED <<head, tree>>
  /\ UNCHANGED <<project, installed, branches, groups, group, base, requests,
                 named>>

\* The groups are done.
Ended == step = "next" /\ DOMAIN groups = {}

=============================================================================
