------------------------------ MODULE DeltaScan ------------------------------
(***************************************************************************)
(* The delta scan between two commits (scanner/delta-scan.ts and           *)
(* scanner/lockfile-diff.ts): which dependencies changed, which findings   *)
(* of theirs count as introduced or resolved, and the verdict.             *)
(*                                                                         *)
(* A side has package.json, section -> package -> the version its range    *)
(* starts at (0: none), and the entries of the lockfile, [name, version],  *)
(* in their order.  cves gives the findings of a package at a version, as  *)
(* evaluatePackage does.                                                   *)
(***************************************************************************)
EXTENDS Integers, Sequences, FiniteSets, SequencesExt

Sections == {"dependencies", "devDependencies"}

Change(p, kind, old, new) ==
  [package |-> p, kind |-> kind, old |-> old, new |-> new]
Direction(old, new) == IF new > old THEN "upgraded" ELSE "downgraded"

\* computeDependencyDiff: section by section, so a move is two changes.
SectionChange(p, old, new) ==
  Change(p, CASE old = 0 -> "added" [] new = 0 -> "removed"
              [] OTHER -> Direction(old, new), old, new)
ManifestChanges(old, new) ==
  UNION {{SectionChange(p, old[s][p], new[s][p]) :
            p \in {q \in DOMAIN old[s] : old[s][q] # new[s][q]}} : s \in Sections}

\* parseLockfileDependencies: a package's versions, each once, and the first.
At(lock, p) == {i \in 1..Len(lock) : lock[i].name = p}
Resolved(lock, p) == {lock[i].version : i \in At(lock, p)}
First(lock, p) == lock[CHOOSE i \in At(lock, p) : \A j \in At(lock, p) : i <= j].version
Several(lock, p) == \E v, w \in Resolved(lock, p) : v # w
Names(lock) == {lock[i].name : i \in 1..Len(lock)}

\* computeLockfileDiff: a new version is compared with the first old one; an
\* old version counts as removed only when the package has gone.
VersionChanges(p, old, new) ==
  LET was == Resolved(old, p)
      is == Resolved(new, p)
  IN {IF was = {} THEN Change(p, "added", 0, v)
      ELSE Change(p, Direction(First(old, p), v), First(old, p), v) : v \in is \ was}
     \cup {Change(p, "removed", v, 0) : v \in IF is = {} THEN was ELSE {}}
LockChanges(old, new) ==
  UNION {VersionChanges(p, old, new) : p \in Names(old) \cup Names(new)}

\* A package whose manifest entry changed is not looked up in the lockfile.
Direct(old, new) ==
  {c.package : c \in ManifestChanges(old.manifest, new.manifest)}
Changes(old, new) ==
  ManifestChanges(old.manifest, new.manifest) \cup
  {c \in LockChanges(old.lock, new.lock) : c.package \notin Direct(old, new)}

UpgradesOnly(c) == c.kind \in {"added", "upgraded"}  \* mutant: no downgrades
Evaluated(c) == c.kind \in {"added", "upgraded", "downgraded"}

IntroducedFindings(changes, cves) ==
  UNION {{<<c.package, f>> : f \in cves[c.package][c.new]}
           : c \in {d \in changes : Evaluated(d)}}

ResolvedFindings(changes, cves) ==
  UNION {{<<c.package, f>> : f \in cves[c.package][c.old]
            \ (IF c.new = 0 THEN {} ELSE cves[c.package][c.new])}
           : c \in {d \in changes : d.old # 0 /\ d.kind \in {"upgraded", "removed"}}}

Verdict(introduced, resolved) ==
  CASE introduced # {} -> "degraded"
    [] introduced = {} /\ resolved # {} -> "improved"
    [] OTHER -> "neutral"

ScanDelta(old, new, cves) ==
  LET changes == Changes(old, new)
      introduced == IntroducedFindings(changes, cves)
      resolved == ResolvedFindings(changes, cves)
  IN [introduced |-> introduced, resolved |-> resolved,
      verdict |-> Verdict(introduced, resolved)]

\* What the installed tree of a lockfile is exposed to.
Exposure(lock, cves) ==
  UNION {{<<lock[i].name, f>> : f \in cves[lock[i].name][lock[i].version]}
           : i \in 1..Len(lock)}
=============================================================================
