----------------------------- MODULE Advisories -----------------------------
(***************************************************************************)
(* From the advisories of a package to the version to install: the ranges  *)
(* of OSV (intelligence/sources/osv.ts), GitHub's added to them            *)
(* (github-advisory.ts, lookup-cve.ts), the match with what is installed   *)
(* (check-version-match.ts), the safe upgrade (registry.ts) and the        *)
(* evaluation of a package (evaluate-package.ts).                          *)
(*                                                                         *)
(* A version is <<major, minor, patch, release>>, release 0 for a          *)
(* prerelease and 1 otherwise, so that semver's order is the order of the  *)
(* tuples.  An entry of a package is the events of its SEMVER range.       *)
(***************************************************************************)
EXTENDS Integers, Sequences, FiniteSets, SequencesExt, FiniteSetsExt

Version == Nat \X Nat \X Nat \X {0, 1}
Before(v, w) ==
  \E i \in 1..4 : v[i] < w[i] /\ \A j \in 1..(i - 1) : v[j] = w[j]
AtMost(v, w) == v = w \/ Before(v, w)
Lowest(vs) == CHOOSE v \in vs : \A w \in vs : AtMost(v, w)
Highest(vs) == CHOOSE v \in vs : \A w \in vs : AtMost(w, v)
Prerelease(v) == v[4] = 0
NoVersion == <<>>
Zero == <<0, 0, 0, 1>>

-----------------------------------------------------------------------------
(* Ranges *)

Introduced(v) == [kind |-> "introduced", at |-> v]
Fixed(v) == [kind |-> "fixed", at |-> v]
LastAffected(v) == [kind |-> "last", at |-> v]

\* The events of a range with one interval.
Intervals(versions) ==
  {<<Introduced(v)>> : v \in versions}
  \cup {<<Introduced(v), end>> :
          v \in versions,
          end \in {Fixed(w) : w \in versions} \cup {LastAffected(w) : w \in versions}}

\* The versions that the events mean: from an introduction to the next end.
Affected(v, events) ==
  \E i \in 1..Len(events) :
    /\ events[i].kind = "introduced" /\ AtMost(events[i].at, v)
    /\ i < Len(events) => \/ Before(v, events[i + 1].at)
                          \/ events[i + 1] = LastAffected(v)

\* External: the comparators of a range must all hold; a prerelease only
\* satisfies a range that names a prerelease of its own triple.
Holds(v, event) ==
  CASE event.kind = "introduced" -> AtMost(event.at, v)
    [] event.kind = "fixed" -> Before(v, event.at)
    [] event.kind = "last" -> AtMost(v, event.at)
Satisfies(v, range) ==
  /\ \A i \in 1..Len(range) : Holds(v, range[i])
  /\ Prerelease(v) =>
       \E i \in 1..Len(range) :
         Prerelease(range[i].at) /\ \A k \in 1..3 : range[i].at[k] = v[k]

\* osvEventsToSemverRange: the comparators of all events, joined by spaces.
SemverRange(events) == IF events = <<>> THEN <<Introduced(Zero)>> ELSE events
NoRange == <<Fixed(Zero)>>

FirstPatched(events) ==
  LET k == SelectInSeq(events, LAMBDA e : e.kind = "fixed")
  IN IF k = 0 THEN NoVersion ELSE events[k].at

\* parseOsvVuln.
Parse(events) == [range |-> SemverRange(events), firstPatched |-> FirstPatched(events)]
ParseAll(entries) == [i \in 1..Len(entries) |-> Parse(entries[i])]

\* parseGhAdvisories keeps GitHub's text, which separates comparators by a comma.
\* semver takes that for no range: only one comparator ("< 1.2.3", from the
\* start) covers anything.
ParseGh(events) ==
  IF Len(events) > 1 /\ events[1] # Introduced(Zero)
  THEN [range |-> NoRange, firstPatched |-> FirstPatched(events)]
  ELSE Parse(events)
ParseAllGh(entries) == [i \in 1..Len(entries) |-> ParseGh(entries[i])]

\* mergeGhDataIntoCveDetails, for one package: GitHub's first entry when OSV
\* has none, else its first fix when OSV's first entry has none.
Merge(osv, gh) ==
  LET known == IF osv # <<>> \/ gh = <<>> THEN osv ELSE <<Head(gh)>>
      k == SelectInSeq(gh, LAMBDA p : p.firstPatched # NoVersion)
  IN IF known # <<>> /\ known[1].firstPatched = NoVersion /\ k # 0
     THEN [known EXCEPT ![1].firstPatched = gh[k].firstPatched]
     ELSE known
LookupCve(osv, gh) == Merge(ParseAll(osv), ParseAllGh(gh))

\* check-version-match: the first of the package's entries that covers the
\* installed version; 0 if it is not vulnerable.
Match(installed, affected) ==
  SelectInSeq(affected, LAMBDA p : Satisfies(installed, p.range))

-----------------------------------------------------------------------------
(* The safe upgrade *)

Levels == {"patch", "minor", "major"}
UpgradeLevel(installed, v) ==
  IF Before(v, installed) THEN "none"
  ELSE IF v[1] > installed[1] THEN "major"
  ELSE IF v[2] > installed[2] THEN "minor" ELSE "patch"

FromTheFix(published, floor, range) ==  \* mutant: the range is not excluded
  {v \in published : AtMost(floor, v)}
Candidates(published, floor, range) ==
  {v \in published : AtMost(floor, v) /\ ~Satisfies(v, range)}

\* The lowest candidate of each level; a patch before a minor before a major.
OfLevel(installed, candidates, level) ==
  LET vs == {v \in candidates : UpgradeLevel(installed, v) = level}
  IN IF vs = {} THEN NoVersion ELSE Lowest(vs)

Resolve(installed, published, floor, range) ==
  LET of == [level \in Levels |->
               OfLevel(installed, Candidates(published, floor, range), level)]
  IN IF of["patch"] # NoVersion THEN of["patch"]
     ELSE IF of["minor"] # NoVersion THEN of["minor"] ELSE of["major"]

\* find-fixed-version for the first entry that matches.
FindFixedVersion(installed, published, affected) ==
  LET k == Match(installed, affected)
  IN IF k = 0 \/ affected[k].firstPatched = NoVersion THEN NoVersion
     ELSE Resolve(installed, published, affected[k].firstPatched, affected[k].range)

-----------------------------------------------------------------------------
(* evaluatePackage: the advisories whose first entry covers the version,   *)
(* each with an upgrade of its own, looked up without the range.  No       *)
(* answer of OSV counts as no advisory.                                    *)

SafeFor(version, published, parsed) ==
  LET safe == Resolve(version, published, parsed.firstPatched, NoRange)
  IN IF parsed.firstPatched # NoVersion /\ safe # NoVersion THEN safe
     ELSE parsed.firstPatched

LowestUpgrade(upgrades) == Lowest(upgrades)  \* mutant: the sort's other end
Recommended(upgrades) == Highest(upgrades)

\* advisories: each the sequence of its entries for the package.
Evaluate(version, published, advisories) ==
  LET found == {p \in {Parse(entries[1]) : entries \in advisories} :
                  Satisfies(version, p.range)}
      upgrades == {SafeFor(version, published, p) : p \in found} \ {NoVersion}
  IN [vulnerable |-> found # {},
      recommended |->
        IF found = {} THEN version
        ELSE IF upgrades # {} THEN Recommended(upgrades)
        ELSE IF published # {} THEN Highest(published) ELSE NoVersion]
=============================================================================
