------------------------------ MODULE ScanRun ------------------------------
(***************************************************************************)
(* remediateFromScan (api/remediate-from-scan, api/scan-execution,         *)
(* api/remediate): the CVEs of a scan are remediated one after the other   *)
(* by the local pipeline; each report gets its change request and is       *)
(* stored under the idempotency key, and at the end the evidence is        *)
(* written and the change requests of the whole scan are created.          *)
(*                                                                         *)
(* Scans of one project follow each other, in one process or in several; a *)
(* process may die between any two steps.  All scans use one idempotency   *)
(* key and ask to resume.                                                  *)
(***************************************************************************)
EXTENDS LocalPipeline, ChangeRequests

ASSUME ScanAssumption ==
  /\ NoPackage \notin Packages
  /\ Direct \subseteq Packages
  /\ Denied \subseteq Packages
  /\ Escalating \subseteq Cves

VARIABLES
  mode,          \* what the scan is at
  scan,          \* its number
  waiting,       \* CVEs still to do
  reports,       \* CVEs with a report
  pkgsOf,        \* CVE -> the packages in its last report
  memory,        \* DEFAULT_INDEX, the index of the process: the CVEs in it
  changeRequest, \* changeRequest.enabled
  stored,        \* history: CVEs whose report was ever stored
  cutOff,        \* history: those of them that a cut-off write erased since
  claims,        \* history: fixes that a report called applied
  abandoned,     \* history: changes whose result was lost
  drifted        \* history: packages with a failed tool or a contained change

scanVars == <<mode, scan, waiting, reports, pkgsOf, memory, changeRequest,
              stored, cutOff, claims, abandoned, drifted>>

vars == <<project, tree, installed, branches, head, pipelineVars, requestVars, scanVars>>

FixesIn(rs) == {[cve |-> r.cve, pkg |-> r.pkg, how |-> r.how] : r \in {x \in rs : x.applied}}

\* What the run in hand has changed and not yet reported.
InFlight ==
  FixesIn(results)
    \cup IF draft.applied
         THEN {[cve |-> cve, pkg |-> pkg, how |-> draft.how]} ELSE {}

-----------------------------------------------------------------------------

\* A scan starts, in the process of the last one or in a new one.
StartScan ==
  /\ mode = "idle"
  /\ scan < project.scans
  /\ scan' = scan + 1
  /\ memory' \in {memory, {}}
  /\ waiting' = Cves
  /\ reports' = {}
  /\ mode' = "cves"
  /\ UNCHANGED <<project, tree, installed, branches, head, pipelineVars, requestVars,
                 pkgsOf, changeRequest, stored, cutOff, claims, abandoned,
                 drifted>>

MemoryOnly == memory  \* mutant: the file is never read
\* loadIndex: without a file that parses, the object that the process shares.
Readable == tree.ledger \notin {{}, Torn}
Index == IF Readable THEN tree.ledger ELSE memory

\* remediate(c) returns the stored report.
ResumeCve(c) ==
  /\ mode = "cves"
  /\ c \in waiting
  /\ c \in Index
  /\ waiting' = waiting \ {c}
  /\ reports' = reports \cup {c}
  /\ UNCHANGED <<project, tree, installed, branches, head, pipelineVars, requestVars,
                 mode, scan, pkgsOf, memory, changeRequest, stored, cutOff,
                 claims, abandoned, drifted>>

\* remediate(c) runs the pipeline.
RemediateCve(c) ==
  /\ mode = "cves"
  /\ c \in waiting
  /\ c \notin Index
  /\ waiting' = waiting \ {c}
  /\ Enter(c)
  /\ mode' = "remediate"
  /\ UNCHANGED <<project, tree, installed, branches, head, todo, pkg, snapshot, draft,
                 containment, requestVars, scan, reports, pkgsOf, memory,
                 changeRequest, stored, cutOff, claims, abandoned, drifted>>

\* A step of the pipeline.
Pipeline ==
  /\ mode = "remediate"
  /\ PipelineStep
  /\ drifted' = IF \/ phase = "primary" /\ installed' # installed /\ tree' = tree
                   \/ phase = "decide" /\ draft.applied /\ tree' # tree
                THEN drifted \cup {pkg} ELSE drifted
  /\ UNCHANGED <<requestVars, mode, scan, waiting, reports, pkgsOf, memory,
                 changeRequest, stored, cutOff, claims, abandoned>>

\* remediate throws: the scan records the error and goes on.
CveFails ==
  /\ mode = "remediate"
  /\ Throws
  /\ mode' = "cves"
  /\ abandoned' = abandoned \cup InFlight
  /\ results' = {}
  /\ todo' = {}
  /\ draft' = Unresolved("none")
  /\ snapshot' = Untouched
  /\ pkg' = NoPackage
  /\ cve' = NoCve
  /\ UNCHANGED <<project, tree, installed, branches, head, containment, requestVars, scan,
                 waiting, reports, pkgsOf, memory,
                 changeRequest, stored, cutOff, claims, drifted>>

\* The pipeline returned: the report, and the change requests for it alone.
Report ==
  /\ mode = "remediate"
  /\ phase = "done"
  /\ phase' = "off"
  /\ results' = {}
  /\ claims' = claims \cup FixesIn(results)
  /\ pkgsOf' = [pkgsOf EXCEPT ![cve] = {r.pkg : r \in results}]
  /\ reports' = reports \cup {cve}
  /\ IF changeRequest
     THEN Begin(GroupReports(project.grouping, {cve}, pkgsOf')) /\ mode' = "request"
     ELSE mode' = "store" /\ UNCHANGED <<groups, base, step>>
  /\ UNCHANGED <<project, tree, installed, branches, head, cve, todo, pkg, snapshot, draft,
                 containment, group, requests, named, mishaps, scan, waiting,
                 memory, changeRequest, stored, cutOff, abandoned, drifted>>

\* A step of createChangeRequestsForReports.
Request ==
  /\ mode \in {"request", "final"}
  /\ \/ NothingToRequest \/ CutBranch \/ CutFails
     \/ Commit \/ Push \/ Open \/ Return
  /\ UNCHANGED <<pipelineVars, scanVars>>

\* storeIdempotentReport: the index is loaded again, extended and written.  The
\* process's own object is extended when no file could be read.
Extended == IF Readable THEN memory ELSE memory \cup {cve}

Store ==
  /\ mode = "store"
  /\ tree' = [tree EXCEPT !.ledger = Index \cup {cve}]
  /\ memory' = Extended
  /\ stored' = stored \cup {cve}
  /\ cutOff' = cutOff \ {cve}
  /\ cve' = NoCve
  /\ mode' = "cves"
  /\ UNCHANGED <<project, installed, branches, head, phase, todo, pkg, snapshot, draft,
                 results, containment, requestVars, scan, waiting, reports, pkgsOf, changeRequest, claims,
                 abandoned, drifted>>

\* saveIndex truncates the file before it writes: what it held is gone when the
\* write is cut off.
CutOffWrite ==
  /\ tree' = [tree EXCEPT !.ledger = Torn]
  /\ cutOff' = stored

\* The write fails before or after the truncation: remediate throws, and the
\* scan records the error instead of the report.
StoreFails ==
  /\ mode = "store"
  /\ Mishap
  /\ CutOffWrite \/ UNCHANGED <<tree, cutOff>>
  /\ memory' = Extended
  /\ reports' = reports \ {cve}
  /\ cve' = NoCve
  /\ mode' = "cves"
  /\ UNCHANGED <<project, installed, branches, head, phase, todo, pkg, snapshot, draft,
                 results, containment, groups, group, base, requests, named, step,
                 scan, waiting, pkgsOf, changeRequest, stored, claims, abandoned, drifted>>

\* The change requests of one report are done.
RequestsDone ==
  /\ mode \in {"request", "final"}
  /\ Ended
  /\ step' = "off"
  /\ mode' = IF mode = "request" THEN "store" ELSE "idle"
  /\ UNCHANGED <<project, tree, installed, branches, head, pipelineVars, groups, group,
                 base, requests, named, mishaps, scan, waiting, reports, pkgsOf,
                 memory, changeRequest, stored, cutOff, claims, abandoned,
                 drifted>>

\* All CVEs are done: the evidence is written, and the change requests for all
\* the reports follow.
Finish ==
  /\ mode = "cves"
  /\ waiting = {}
  /\ tree' = [tree EXCEPT !.evidence = @ \cup {scan}]
  /\ IF changeRequest
     THEN Begin(GroupReports(project.grouping, reports, pkgsOf)) /\ mode' = "final"
     ELSE mode' = "idle" /\ UNCHANGED <<groups, base, step>>
  /\ UNCHANGED <<project, installed, branches, head, pipelineVars, group, requests, named,
                 mishaps, scan, waiting, reports, pkgsOf, memory, changeRequest,
                 stored, cutOff, claims, abandoned, drifted>>

\* The process dies; files, node_modules and branches stay as they are, but for
\* the index when it dies in its writing.
Crash ==
  /\ mode # "idle"
  /\ \/ UNCHANGED <<tree, cutOff>>
     \/ mode = "store" /\ CutOffWrite
  /\ mode' = "idle"
  /\ phase' = "off"
  /\ step' = "off"
  /\ groups' = <<>>
  /\ memory' = {}
  /\ waiting' = {}
  /\ reports' = {}
  /\ abandoned' = abandoned \cup InFlight
  /\ results' = {}
  /\ todo' = {}
  /\ draft' = Unresolved("none")
  /\ snapshot' = Untouched
  /\ Mishap
  /\ pkg' = NoPackage
  /\ cve' = NoCve
  /\ UNCHANGED <<project, installed, branches, head, containment, group, base,
                 requests, named, scan, pkgsOf, changeRequest, stored, claims, drifted>>

Init ==
  /\ project \in Projects
  /\ tree = Untouched
  /\ installed = {}
  /\ branches = <<Untouched>>
  /\ head = 1
  /\ phase = "off"
  /\ cve = NoCve
  /\ todo = {}
  /\ pkg = NoPackage
  /\ snapshot = Untouched
  /\ draft = Unresolved("none")
  /\ results = {}
  /\ containment \in BOOLEAN
  /\ step = "off"
  /\ groups = <<>>
  /\ group = {}
  /\ base = 1
  /\ requests = {}
  /\ named \in BOOLEAN
  /\ mishaps = 0
  /\ mode = "idle"
  /\ scan = 0
  /\ waiting = {}
  /\ reports = {}
  /\ pkgsOf = [c \in Cves |-> {}]
  /\ memory = {}
  /\ changeRequest \in BOOLEAN
  /\ stored = {}
  /\ cutOff = {}
  /\ claims = {}
  /\ abandoned = {}
  /\ drifted = {}

Next ==
  \/ StartScan
  \/ \E c \in Cves : ResumeCve(c) \/ RemediateCve(c)
  \/ Pipeline
  \/ CveFails
  \/ Report
  \/ Request
  \/ RequestsDone
  \/ Store
  \/ StoreFails
  \/ Finish
  \/ Crash

Spec == Init /\ [][Next]_vars

-----------------------------------------------------------------------------
(* Properties *)

\* Type invariant of the project and the scan.
TypeOK ==
  /\ project \in Projects
  /\ tree \in Contents
  /\ installed \subseteq Packages
  /\ branches \in Seq(Contents)
  /\ head \in DOMAIN branches
  /\ phase \in {"off", "lookup", "select", "primary", "fallback", "decide", "done"}
  /\ cve \in Cves \cup {NoCve}
  /\ todo \subseteq Packages
  /\ pkg \in Packages \cup {NoPackage}
  /\ snapshot \in Contents
  /\ draft \in Drafts
  /\ results \subseteq Results
  /\ step \in {"off", "next", "commit", "push", "open", "return"}
  /\ group \subseteq Cves
  /\ base \in {Detached} \cup DOMAIN branches
  /\ requests \subseteq [branch: DOMAIN branches, base: DOMAIN branches, cves: SUBSET Cves]
  /\ mishaps \in 0..MaxMishaps
  /\ mode \in {"idle", "cves", "remediate", "request", "store", "final"}
  /\ scan \in 0..project.scans
  /\ waiting \cup reports \cup memory \cup stored \cup cutOff \subseteq Cves
  /\ pkgsOf \in [Cves -> SUBSET Packages]
  /\ claims \cup abandoned \subseteq Fixes
  /\ drifted \subseteq Packages

\* A fix that a report calls applied stays, in the files or on a branch, through
\* the later packages, roll backs, branches and scans.  Only another attempt to
\* patch the same package may remove its patch file.
FixesSurvive ==
  [][\A fix \in claims :
        Kept(fix) => \/ Kept(fix)'
                     \/ phase = "fallback" /\ pkg = fix.pkg /\ fix.how = "patch"]_vars

\* Every change in the files and on the branches was reported as applied, or is
\* about to be, or its result was lost with an error or a crash.  In containment
\* mode a fix that escalates is therefore on no branch.
ChangesAreClaimed ==
  LET known == claims \cup abandoned \cup InFlight
  IN  /\ TypeOK
      /\ \A content \in {tree} \cup {branches[b] : b \in DOMAIN branches} :
        /\ \A p \in content.fixed :
             \E fix \in known : fix.how = "version" /\ fix.pkg = p
        /\ \A p \in Packages :
             content.patchOf[p] # NoCve =>
               [cve |-> content.patchOf[p], pkg |-> p, how |-> "patch"] \in known

\* A direct dependency that a CVE affects is passed over as not vulnerable only
\* when its fix is in the files or on a branch, or when a failed tool or a
\* contained change left the fixed version in node_modules.
NoSilentMiss ==
  [][phase = "lookup" /\ phase' = "select" =>
       \A p \in (project.affects[cve] \cap Direct) \ todo' :
          \/ Kept([cve |-> cve, pkg |-> p, how |-> "version"])
          \/ p \in drifted]_vars

\* As long as no command fails, no process dies and no result is lost, a change
\* request proposes the fixes of its own CVEs only.
RequestsStandAlone ==
  mishaps = 0 /\ abandoned = {} =>
    \A r \in requests :
      LET new == branches[r.branch]
          old == branches[r.base]
      IN  /\ \A p \in new.fixed \ old.fixed :
               \E c \in r.cves : [cve |-> c, pkg |-> p, how |-> "version"] \in claims
          /\ \A p \in Packages :
               new.patchOf[p] \in {old.patchOf[p], NoCve} \cup r.cves

\* A scan that asks to resume runs no CVE whose report was stored before, in
\* whatever process, with two exceptions.  With change requests enabled their
\* branches take the index away from the directory; and a write of the index
\* that is cut off, by a kill or an error, erases every report that was stored
\* until then (idempotency.ts:39-48).
ResumeRespected ==
  [][\A c \in stored : RemediateCve(c) => changeRequest \/ c \in cutOff]_vars

\* --resume is documented to prevent duplicate remediation work in retried
\* pipelines: no stored CVE is run again.
ResumePreventsRework ==
  [][\A c \in stored : ~RemediateCve(c)]_vars

=============================================================================
