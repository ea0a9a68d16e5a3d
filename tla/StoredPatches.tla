---------------------------- MODULE StoredPatches ----------------------------
(***************************************************************************)
(* What the project has installed, and the patches it has stored: the      *)
(* inventory (tools/check-inventory.ts, package-manager/list-parser.ts),   *)
(* the check of a stored patch against it (api/patches/validation.ts), and *)
(* the retirement of a patch for which an upgrade has appeared             *)
(* (api/patches/reconcile.ts).                                             *)
(*                                                                         *)
(* A listing is what the package manager lists, [name, version] in the     *)
(* order in which the parser meets them, one for each copy in the tree.    *)
(***************************************************************************)
EXTENDS Advisories

\* Without a listing, the lowest versions that package.json admits.
Listed(listing, declared) == IF listing = <<>> THEN declared ELSE listing

\* A map from names to versions: a later copy replaces an earlier one.
Kept(entries, package) == SelectLastInSeq(entries, LAMBDA e : e.name = package)

InstalledVersion(listing, declared, package) ==
  LET entries == Listed(listing, declared)
      k == Kept(entries, package)
  IN IF k = 0 THEN NoVersion ELSE entries[k].version

\* check-version-match on the whole inventory, for an advisory of the package.
Matched(listing, declared, package, affected) ==
  LET version == InstalledVersion(listing, declared, package)
  IN version # NoVersion /\ Match(version, affected) # 0

\* validatePatchArtifact: the manifest of a patch of `package` at `version`.
Drifted(listing, declared, package, version) ==
  InstalledVersion(listing, declared, package) \notin {NoVersion, version}

-----------------------------------------------------------------------------
(* Reconciliation.  A repository is what it says of one package: its       *)
(* direct dependency and its override (NoVersion: none), whether pnpm      *)
(* lists it as patched, whether the patch file and its manifest exist.     *)

Repositories(versions) ==
  [direct : versions \cup {NoVersion}, override : versions \cup {NoVersion},
   patched : BOOLEAN, patch : {TRUE}, manifest : BOOLEAN]

\* evaluatePackage's findings are the advisories that cover the version, in
\* OSV's order; advisory i is the CVE i.  The upgrade is that of the patch's
\* CVE; the first there is, when there is no manifest (cve = 0).
SafeUpgrade(cve, version, published, advisories) ==
  LET safe(entries) == SafeFor(version, published, Parse(entries[1]))
      covers(entries) == Satisfies(version, Parse(entries[1]).range)
      k == IF cve = 0
           THEN SelectInSeq(advisories,
                  LAMBDA entries : covers(entries) /\ safe(entries) # NoVersion)
           ELSE IF covers(advisories[cve]) THEN cve ELSE 0
  IN IF k = 0 THEN NoVersion ELSE safe(advisories[k])

\* package.json with the upgrade: every section that has the package, and an
\* override when there is one or when nothing else names the package.
Upgraded(repo, v) ==
  [repo EXCEPT
     !.direct = IF @ = NoVersion THEN NoVersion ELSE v,
     !.override = IF @ # NoVersion \/ repo.direct = NoVersion THEN v ELSE @,
     !.patched = FALSE]

\* Install or tests fail: everything is written back.  A failing write or
\* removal ends the work where it is.
Reconcile(repo, safe, autoApply, runTests, failing) ==
  LET upgraded == Upgraded(repo, safe)
      retired == [upgraded EXCEPT !.patch = FALSE, !.manifest = FALSE]
      End(status, result) == [status |-> status, repo |-> result]
  IN IF safe = NoVersion THEN End("patch-retained", repo)
     ELSE IF ~autoApply THEN End("safe-version-available", repo)
     ELSE CASE failing = "write" -> End("error", repo)
            [] failing = "patch" -> End("error", upgraded)
            [] failing = "manifest" /\ repo.manifest ->
                 End("error", [upgraded EXCEPT !.patch = FALSE])
            [] failing = "install" \/ (failing = "tests" /\ runTests) ->
                 End("error", repo)
            [] OTHER -> End("upgraded", retired)
=============================================================================
