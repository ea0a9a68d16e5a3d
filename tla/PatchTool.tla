------------------------------ MODULE PatchTool ------------------------------
(***************************************************************************)
(* The tool apply-patch-file: a generated diff becomes a file under        *)
(* patches/, and patch-package or the package manager's own patch command  *)
(* puts it into node_modules, between the two phases of the proof of fix.  *)
(* Calls share the repository with each other, under the repository lock,  *)
(* and with a version bump, which reads package.json before the lock       *)
(* (RepoMutation).                                                         *)
(*                                                                         *)
(* External: the package managers and patch-package, as the tool uses      *)
(* them.  An install may keep the packages it finds or fetch them anew,    *)
(* prunes patch-package when package.json does not list it or leaves it,   *)
(* and runs the postinstall script, whose patch-package puts in every      *)
(* patch of patches/.  Outside CI patch-package exits with 0 whatever      *)
(* happened ("strict" is FALSE then).                                      *)
(***************************************************************************)
EXTENDS Integers, FiniteSets, ProofOfFix

CONSTANTS
  Calls,      \* calls of the tool
  Packages,   \* packages at their vulnerable version
  PackageOf,  \* call -> its package
  DiffsOf,    \* call -> what its diff may be: "fixes", "useless", "conflicts"
  ProofOf,    \* call -> "off", "script" (a new test) or "reuse" (true)
  Requiring,  \* calls with requireProofOfFix
  TestKinds,  \* kinds of tests that the scripts may be
  MaxFaults   \* bound: failed writes and removals

ASSUME PatchAssumption ==
  /\ PackageOf \in [Calls -> Packages]
  /\ DiffsOf \in [Calls -> SUBSET {"fixes", "useless", "conflicts"}]
  /\ ProofOf \in [Calls -> {"off", "script", "reuse"}]
  /\ Requiring \subseteq Calls
  /\ TestKinds \subseteq Kinds
  /\ MaxFaults \in Nat
  /\ Calls \cap {"none", "free", "bump"} = {}

VARIABLES
  native,    \* the package manager has a patch command: pnpm, yarn 2
  strict,    \* patch-package exits with 1 when a patch fails
  diffOf,    \* call -> what its diff is
  kindOf,    \* call -> the kind of the test it brings
  pkgJson,   \* package.json: [tool, post, bumped, committed]
  files,     \* package -> the call whose diff is its patch file, or "none"
  manifests, \* package -> the patch manifest [by, applied, proof]
  tests,     \* package -> the call whose script is its default test file
  hasTool,   \* patch-package is in node_modules
  tree,      \* package -> the call whose diff is in node_modules, or "none"
  lock, pc, result,
  snapshot,  \* call -> package.json under the lock
  view,      \* call, or "bump" -> package.json as it was read
  using,     \* call -> the call whose test it runs, or "none"
  proof,     \* call -> the phases of its proof that passed
  faults,
  before,    \* history: call -> package.json when the call got the lock
  kept,      \* history: call -> what its cleanup failed to take back
  stale      \* history: a bump wrote back a package.json read too early

vars == <<native, strict, diffOf, kindOf, pkgJson, files, manifests, tests,
          hasTool, tree, lock, pc, result, snapshot, view, using, proof, faults,
          before, kept, stale>>
chosen == <<native, strict, diffOf, kindOf>>
history == <<before, kept, stale>>

NoManifest == [by |-> "none", applied |-> FALSE, verified |-> FALSE]
Manifest(c, applied, verified) ==
  [by |-> c, applied |-> applied, verified |-> verified]
\* committed: package -> the call whose diff the package manager's own entry
\* (pnpm.patchedDependencies, resolutions) and patch file hold, or "none".
PackageJsons ==
  [tool : BOOLEAN, post : SUBSET {"own", "patch-package"}, bumped : BOOLEAN,
   committed : [Packages -> Calls \cup {"none"}]]
Artifacts == {"file", "manifest", "package.json"}
Ends == {"refused", "timeout", "threw", "failed", "applied"}

GoTo(c, step) == pc' = [pc EXCEPT ![c] = step]
Finish(c, how) ==
  /\ GoTo(c, "done")
  /\ result' = [result EXCEPT ![c] = how]
  /\ lock' = "free"
Continue(c, step) == GoTo(c, step) /\ UNCHANGED <<result, lock>>
Files == <<files, manifests, tests>>
Installed == <<hasTool, tree>>

Init ==
  /\ native \in BOOLEAN
  /\ strict \in BOOLEAN /\ (native => strict)  \* patch-package does not run then
  /\ diffOf \in {d \in [Calls -> UNION {DiffsOf[c] : c \in Calls}] :
                \A c \in Calls : d[c] \in DiffsOf[c]}
  /\ kindOf \in [{c \in Calls : ProofOf[c] = "script"} -> TestKinds]
  /\ pkgJson \in [tool : BOOLEAN, post : SUBSET {"own"}, bumped : {FALSE},
                  committed : {[p \in Packages |-> "none"]}]
  /\ files = [p \in Packages |-> "none"]
  /\ manifests = [p \in Packages |-> NoManifest]
  /\ tests = [p \in Packages |-> "none"]
  /\ hasTool = pkgJson.tool
  /\ tree = [p \in Packages |-> "none"]
  /\ lock = "free"
  /\ pc = [c \in Calls \cup {"bump"} |-> "start"]
  /\ result = [c \in Calls |-> "none"]
  /\ snapshot = [c \in Calls |-> pkgJson]
  /\ view = [c \in Calls \cup {"bump"} |-> pkgJson]
  /\ using = [c \in Calls |-> "none"]
  /\ proof = [c \in Calls |-> {}]
  /\ faults = 0
  /\ before = snapshot
  /\ kept = [c \in Calls |-> {}]
  /\ stale = FALSE

-----------------------------------------------------------------------------
(* Before the lock *)

\* A denied package, no diff, no valid diff, a dry run.
Refuse(c) ==
  /\ pc[c] = "start"
  /\ GoTo(c, "done")
  /\ result' = [result EXCEPT ![c] = "refused"]
  /\ UNCHANGED <<chosen, pkgJson, Files, Installed, lock, snapshot, view,
                 using, proof, faults, history>>

EarlySnapshot(c) == view[c]  \* mutant: the snapshot is taken before the lock
Snapshot(c) == pkgJson

Wait(c) ==
  /\ pc[c] = "start"
  /\ GoTo(c, "waiting")
  /\ view' = [view EXCEPT ![c] = pkgJson]
  /\ UNCHANGED <<chosen, pkgJson, Files, Installed, lock, result, snapshot,
                 using, proof, faults, history>>

\* withRepoLock gives up.  The tool returns its promise without awaiting it,
\* so this error, and those below, pass by the tool's own catch.
TimeOut(c) ==
  /\ pc[c] = "waiting" /\ lock # "free"
  /\ GoTo(c, "done")
  /\ result' = [result EXCEPT ![c] = "timeout"]
  /\ UNCHANGED <<chosen, pkgJson, Files, Installed, lock, snapshot, view,
                 using, proof, faults, history>>

Lock(c) ==
  /\ pc[c] = "waiting" /\ lock = "free"
  /\ lock' = c
  /\ GoTo(c, "write")
  /\ snapshot' = [snapshot EXCEPT ![c] = Snapshot(c)]
  /\ before' = [before EXCEPT ![c] = pkgJson]
  /\ UNCHANGED <<chosen, pkgJson, Files, Installed, result, view, using,
                 proof, faults, kept, stale>>

-----------------------------------------------------------------------------
(* Under the lock *)

\* The patch file, and the manifest that says it is not applied.
Write(c) ==
  LET p == PackageOf[c] IN
  /\ pc[c] = "write"
  /\ files' = [files EXCEPT ![p] = c]
  /\ \/ /\ manifests' = [manifests EXCEPT ![p] = Manifest(c, FALSE, FALSE)]
        /\ Continue(c, "test")
        /\ UNCHANGED faults
     \/ /\ faults < MaxFaults
        /\ faults' = faults + 1
        /\ Finish(c, "threw")
        /\ UNCHANGED manifests
  /\ UNCHANGED <<chosen, pkgJson, tests, Installed, snapshot, view, using,
                 proof, history>>

\* cleanupPatchArtifacts, except its install.  Each removal and write swallows
\* its error and leaves the file as it is, as does a snapshot that could not be
\* read; the native commands' package.json is not put back at all.
KeepPackageJson(c) == pkgJson  \* mutant: the snapshot is not written back
Restored(c) == IF native THEN pkgJson ELSE snapshot[c]
CleanUp(c, reinstall) ==
  LET p == PackageOf[c] IN
  /\ \E lost \in SUBSET Artifacts :
       /\ faults' = faults + Cardinality(lost)
       /\ faults' <= MaxFaults
       /\ kept' = [kept EXCEPT ![c] = lost]
       /\ files' = IF "file" \in lost THEN files
                   ELSE [files EXCEPT ![p] = "none"]
       /\ manifests' = IF "manifest" \in lost THEN manifests
                       ELSE [manifests EXCEPT ![p] = NoManifest]
       /\ pkgJson' = IF "package.json" \in lost THEN pkgJson ELSE Restored(c)
  /\ IF reinstall THEN Continue(c, "reinstall") ELSE Finish(c, "failed")
\* ... or the step succeeds and there is nothing to clean up.
NoCleanUp == UNCHANGED <<files, manifests, faults, kept>>

\* prepareReproductionTestFile: a new script replaces the default test file and
\* stays; "true" takes the file that an earlier call left.
TestOf(c) ==
  CASE ProofOf[c] = "script" -> c
    [] ProofOf[c] = "reuse" -> tests[PackageOf[c]]
    [] OTHER -> "none"

PrepareTest(c) ==
  LET test == TestOf(c) IN
  /\ pc[c] = "test"
  /\ using' = [using EXCEPT ![c] = test]
  /\ tests' = IF ProofOf[c] = "script" THEN [tests EXCEPT ![PackageOf[c]] = c]
              ELSE tests
  /\ IF test = "none" /\ c \in Requiring
     THEN CleanUp(c, FALSE)
     ELSE /\ Continue(c, IF test = "none" THEN "apply" ELSE "negative")
          /\ NoCleanUp /\ UNCHANGED pkgJson
  /\ UNCHANGED <<chosen, Installed, snapshot, view, proof, before, stale>>

Vulnerable(p) == tree[p] = "none" \/ diffOf[tree[p]] # "fixes"
TestRun(c) == Behaviour(kindOf[using[c]], Vulnerable(PackageOf[c]))

Negative(c) ==
  /\ pc[c] = "negative"
  /\ IF NegativePasses(TestRun(c))
     THEN /\ Continue(c, "apply")
          /\ proof' = [proof EXCEPT ![c] = {"negative"}]
          /\ NoCleanUp /\ UNCHANGED pkgJson
     ELSE CleanUp(c, FALSE) /\ UNCHANGED proof
  /\ UNCHANGED <<chosen, tests, Installed, snapshot, view, using, before,
                 stale>>

-----------------------------------------------------------------------------
(* The diff into node_modules *)

\* configurePatchPackagePostinstall reads package.json, if it can ...
ReadPackageJson(c) ==
  /\ pc[c] = "apply" /\ ~native
  /\ \/ /\ view' = [view EXCEPT ![c] = pkgJson]
        /\ Continue(c, IF pkgJson.tool THEN "configure" ELSE "add")
        /\ NoCleanUp /\ UNCHANGED pkgJson
     \/ CleanUp(c, TRUE) /\ UNCHANGED view
  /\ UNCHANGED <<chosen, tests, Installed, snapshot, using, proof, before,
                 stale>>

\* ... has the package manager add patch-package to it ...
AddTool(c) ==
  /\ pc[c] = "add"
  /\ \/ /\ pkgJson' = [pkgJson EXCEPT !.tool = TRUE]
        /\ hasTool' = TRUE
        /\ Continue(c, "configure")
        /\ NoCleanUp
     \/ CleanUp(c, TRUE) /\ UNCHANGED hasTool
  /\ UNCHANGED <<chosen, tests, tree, snapshot, view, using, proof, before,
                 stale>>

\* ... and writes what it read, with the script: the dependency just added
\* is not in it.
OnlyIfEmpty(post) == IF post = {} THEN {"patch-package"} ELSE post  \* mutant
WithPatchPackage(post) == post \cup {"patch-package"}
Configure(c) ==
  /\ pc[c] = "configure"
  /\ \/ /\ pkgJson' = [view[c] EXCEPT !.post = WithPatchPackage(@)]
        /\ Continue(c, "install")
        /\ UNCHANGED faults
     \/ /\ faults < MaxFaults
        /\ faults' = faults + 1
        /\ Finish(c, "threw")
        /\ UNCHANGED pkgJson
  /\ UNCHANGED <<chosen, Files, Installed, snapshot, view, using, proof,
                 history>>

\* pnpm patch, patch -p1, pnpm patch-commit (yarn likewise); any of the three
\* may fail, the last one after its entry is in package.json, before or after
\* its install.
Committed(json, c) == [json EXCEPT !.committed = [@ EXCEPT ![PackageOf[c]] = c]]
Native(c) ==
  /\ pc[c] = "apply" /\ native
  /\ \/ Continue(c, "aborted") /\ UNCHANGED <<pkgJson, tree>>
     \/ /\ diffOf[c] # "conflicts"
        /\ pkgJson' = Committed(pkgJson, c)
        /\ \/ Continue(c, "aborted") /\ UNCHANGED tree
           \/ /\ tree' = [tree EXCEPT ![PackageOf[c]] = c]
              /\ Continue(c, "aborted") \/ Continue(c, "validate")
  /\ UNCHANGED <<chosen, Files, hasTool, snapshot, view, using, proof, faults,
                 history>>

Abort(c) ==
  /\ pc[c] = "aborted"
  /\ CleanUp(c, FALSE)
  /\ UNCHANGED <<chosen, tests, Installed, snapshot, view, using, proof, before,
                 stale>>

\* External.  What the postinstall script leaves of the tree t.
Fits(t, p) ==
  \/ files[p] \in {"none", t[p]}
  \/ t[p] = "none" /\ diffOf[files[p]] # "conflicts"
Patched(t) ==
  [p \in Packages |-> IF files[p] # "none" /\ Fits(t, p) THEN files[p] ELSE t[p]]

\* External.  One install: fetched says whether it fetches the packages anew,
\* tool whether patch-package is there afterwards.
InstallAs(fetched, tool, ok) ==
  LET t == IF fetched THEN [p \in Packages |-> "none"] ELSE tree
      script == "patch-package" \in pkgJson.post IN
  /\ pkgJson.tool => tool
  /\ tool => pkgJson.tool \/ hasTool
  /\ hasTool' = tool
  /\ tree' = IF script /\ tool THEN Patched(t) ELSE t
  /\ ok <=> \/ ~script
            \/ tool /\ (strict => \A p \in Packages : Fits(t, p))

Install(c) ==
  /\ pc[c] = "install"
  /\ \E fetched, tool, ok \in BOOLEAN :
       /\ InstallAs(fetched, tool, ok)
       /\ IF ok
          THEN Continue(c, "validate") /\ NoCleanUp /\ UNCHANGED pkgJson
          ELSE CleanUp(c, TRUE)
  /\ UNCHANGED <<chosen, tests, snapshot, view, using, proof, before, stale>>

\* The install of the cleanup, whatever it says.
Reinstall(c) ==
  /\ pc[c] = "reinstall"
  /\ \E fetched, tool, ok \in BOOLEAN : InstallAs(fetched, tool, ok)
  /\ Finish(c, "failed")
  /\ UNCHANGED <<chosen, pkgJson, Files, snapshot, view, using, proof, faults,
                 history>>

\* The project's tests, unless they are switched off; 60 seconds at most.
Validate(c) ==
  /\ pc[c] = "validate"
  /\ \/ /\ Continue(c, IF using[c] = "none" THEN "final" ELSE "positive")
        /\ NoCleanUp /\ UNCHANGED pkgJson
     \/ CleanUp(c, ~native)
  /\ UNCHANGED <<chosen, tests, Installed, snapshot, view, using, proof, before,
                 stale>>

Positive(c) ==
  /\ pc[c] = "positive"
  /\ IF PositivePasses(TestRun(c))
     THEN /\ Continue(c, "final")
          /\ proof' = [proof EXCEPT ![c] = @ \cup {"positive"}]
          /\ NoCleanUp /\ UNCHANGED pkgJson
     ELSE CleanUp(c, ~native) /\ UNCHANGED proof
  /\ UNCHANGED <<chosen, tests, Installed, snapshot, view, using, before,
                 stale>>

\* The manifest that says the patch is applied, with the proof.
Record(c) ==
  LET verified == Verified("negative" \in proof[c], "positive" \in proof[c],
                           [executed |-> TRUE, passed |-> TRUE]) IN
  /\ pc[c] = "final"
  /\ \/ /\ manifests' = [manifests EXCEPT
             ![PackageOf[c]] = Manifest(c, TRUE, verified)]
        /\ Finish(c, "applied")
        /\ UNCHANGED faults
     \/ /\ faults < MaxFaults
        /\ faults' = faults + 1
        /\ Finish(c, "threw")
        /\ UNCHANGED manifests
  /\ UNCHANGED <<chosen, pkgJson, files, tests, Installed, snapshot, view,
                 using, proof, history>>

-----------------------------------------------------------------------------
(* A version bump of another dependency *)

BumpReads ==
  /\ pc["bump"] = "start"
  /\ GoTo("bump", "waiting")
  /\ view' = [view EXCEPT !["bump"] = pkgJson]
  /\ UNCHANGED <<chosen, pkgJson, Files, Installed, lock, result, snapshot,
                 using, proof, faults, history>>

BumpWrites ==
  /\ pc["bump"] = "waiting" /\ lock = "free"
  /\ GoTo("bump", "done")
  /\ pkgJson' = [view["bump"] EXCEPT !.bumped = TRUE]
  /\ stale' = (view["bump"] # pkgJson)
  /\ UNCHANGED <<chosen, Files, Installed, lock, result, snapshot, view, using,
                 proof, faults, before, kept>>

Call(c) ==
  \/ Refuse(c) \/ Wait(c) \/ TimeOut(c) \/ Lock(c)
  \/ Write(c) \/ PrepareTest(c) \/ Negative(c)
  \/ ReadPackageJson(c) \/ AddTool(c) \/ Configure(c) \/ Native(c) \/ Abort(c)
  \/ Install(c) \/ Reinstall(c) \/ Validate(c) \/ Positive(c) \/ Record(c)

Terminated == \A c \in Calls \cup {"bump"} : pc[c] = "done"
Next ==
  \/ \E c \in Calls : Call(c)
  \/ BumpReads
  \/ BumpWrites
  \/ Terminated /\ UNCHANGED vars
Spec == Init /\ [][Next]_vars

-----------------------------------------------------------------------------
(* Properties *)

TypeOK ==
  /\ pkgJson \in PackageJsons
  /\ files \in [Packages -> Calls \cup {"none"}]
  /\ manifests \in [Packages -> [by : Calls \cup {"none"}, applied : BOOLEAN,
                                 verified : BOOLEAN]]
  /\ tree \in [Packages -> Calls \cup {"none"}]
  /\ lock \in Calls \cup {"free"}
  /\ result \in [Calls -> Ends \cup {"none"}]

\* A call that ends as applied leaves its own patch file and manifest, and its
\* diff is in the tree, whatever other calls wrote and undid before.  Only
\* without a proof, where patch-package fails in silence, the tree may lack it.
AppliedIsInTree ==
  [][\A c \in Calls : result'[c] = "applied" /\ result[c] = "none" =>
       LET p == PackageOf[c] IN
       /\ files'[p] = c /\ manifests'[p].by = c
       /\ \/ tree'[p] = c
          \/ ~native /\ ~strict /\ "positive" \notin proof[c]]_vars

\* A manifest with a verified proof was written after a test that reproduces
\* the vulnerability passed on a fixed tree: no test that is broken, crashes,
\* hangs, is killed or always passes gets that far, new or left by another
\* call.
ProofIsGenuine ==
  /\ TypeOK
  /\ \A c \in Calls : result[c] = "applied" /\ proof[c] = {"negative", "positive"}
       => using[c] # "none" /\ kindOf[using[c]] \in Genuine

\* What a failed call leaves: no patch file, no manifest and the package.json it
\* found under the lock, but for what its cleanup failed to take back and said
\* nothing of; such a manifest does not say that the patch is applied.  The
\* entry of a native patch-commit stays in package.json, and no other entry.
Undone(c) ==
  LET p == PackageOf[c] IN
  /\ files[p] # c \/ "file" \in kept[c]
  /\ \/ manifests[p].by # c
     \/ "manifest" \in kept[c] /\ ~manifests[p].applied
  /\ \/ pkgJson = before[c]
     \/ "package.json" \in kept[c] /\ ~native
     \/ native /\ pkgJson = Committed(before[c], c)

\* A call that ends as failed has undone what it wrote, whatever other calls and
\* a bump did meanwhile and at whatever step it failed.
FailureCleansUp ==
  [][\A c \in Calls : result'[c] = "failed" /\ result[c] = "none" =>
       Undone(c)']_vars

\* While a manifest says a patch is applied, package.json has the script that
\* puts it in again: neither another call's failure nor its cleanup takes it
\* away.  Only a bump that read package.json before the patch can.
PatchStaysConfigured ==
  ~native /\ ~stale /\ (\E p \in Packages : manifests[p].applied)
    => "patch-package" \in pkgJson.post
=============================================================================
