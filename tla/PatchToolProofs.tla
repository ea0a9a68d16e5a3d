--------------------------- MODULE PatchToolProofs ---------------------------
(***************************************************************************)
(* Theorems about PatchTool, for any calls, packages, diffs, tests and any *)
(* number of failing writes.                                               *)
(*                                                                         *)
(* That a proof is genuine is not inductive: the test is chosen in one     *)
(* step, judged in two others, and the file that a call reuses may have    *)
(* been replaced since.  The first invariant says of each phase that       *)
(* passed what it tells about the test (Judged), and that the test is      *)
(* fixed before the first of them (Chosen).                                *)
(*                                                                         *)
(* What a call leaves of package.json, patches/ and node_modules depends   *)
(* on what earlier calls left there.  The second invariant follows the     *)
(* call under the lock (Section) and keeps the script that applied patches *)
(* need both in package.json and in the copy a cleanup puts back.          *)
(***************************************************************************)
EXTENDS PatchTool, TLAPS

Scripts == {c \in Calls : ProofOf[c] = "script"}
Steps == {"start", "waiting", "write", "test", "negative", "apply", "add",
          "configure", "install", "aborted", "reinstall", "validate",
          "positive", "final", "done"}

\* The types of the variables, in two parts: what a failing call may write when
\* it cleans up, and the rest.
Cleaned ==
  /\ pkgJson \in PackageJsons
  /\ files \in [Packages -> Calls \cup {"none"}]
  /\ manifests \in [Packages -> [by : Calls \cup {"none"}, applied : BOOLEAN,
                                 verified : BOOLEAN]]
  /\ lock \in Calls \cup {"free"}
  /\ pc \in [Calls \cup {"bump"} -> Steps]
  /\ result \in [Calls -> Ends \cup {"none"}]
  /\ kept \in [Calls -> SUBSET Artifacts]

Others ==
  /\ native \in BOOLEAN
  /\ kindOf \in [Scripts -> Kinds]
  /\ tree \in [Packages -> Calls \cup {"none"}]
  /\ snapshot \in [Calls -> PackageJsons]
  /\ view \in [Calls \cup {"bump"} -> PackageJsons]
  /\ tests \in [Packages -> Scripts \cup {"none"}]
  /\ using \in [Calls -> Scripts \cup {"none"}]
  /\ proof \in [Calls -> SUBSET {"negative", "positive"}]
  /\ before \in [Calls -> PackageJsons]

\* Until a call has chosen its test it has proved nothing; then it has one.
Early == {"start", "waiting", "write", "test"}
Chosen ==
  \A c \in Calls :
    /\ pc[c] \in Early => proof[c] = {}
    /\ pc[c] \in {"negative", "positive"} => using[c] # "none"

\* A failing run that is judged a reproduction is that of a genuine test or of
\* one that never passes; a passing run is not that of the latter.
Judged ==
  \A c \in Calls :
    /\ "negative" \in proof[c] =>
         using[c] # "none" /\ kindOf[using[c]] \in Genuine \cup {"stuck"}
    /\ "positive" \in proof[c] =>
         using[c] # "none" /\ kindOf[using[c]] # "stuck"

IInv == Cleaned /\ Others /\ Chosen /\ Judged

\* What the two phases of the runner tell about the test they ran.
LEMMA NegativeTells ==
  ASSUME NEW kind \in Kinds, NEW vulnerable,
         NegativePasses(Behaviour(kind, vulnerable))
  PROVE  kind \in Genuine \cup {"stuck"}
<1> DEFINE run == Behaviour(kind, vulnerable)
<1>1. Fails(kind, vulnerable) /\ kind # "vacuous"
  BY DEF NegativePasses, Behaviour, Fails
<1>2. kind \notin {"exits", "hangs", "killed"}
  <2>1. /\ kind = "exits" => run.exit = 2
        /\ kind = "hangs" => run.timedOut
        /\ kind = "killed" => run.signal
    BY <1>1 DEF Behaviour
  <2>2. run.exit = 1 /\ ~run.timedOut /\ ~run.signal
    BY DEF NegativePasses, HarnessFailure, Reproduced, AssertionFailure
  <2> HIDE DEF run
  <2> QED
    BY <2>1, <2>2
<1>3. CASE kind \in Noisy
  <2>1. run.err = kind
    BY <1>1, <1>3 DEF Behaviour, Noisy
  <2> QED
    BY <1>3, <2>1 DEF NegativePasses, Reproduced, AssertionFailure, CrashVeto, Noisy
<1> QED
  BY <1>1, <1>2, <1>3 DEF Kinds

\* A test that passes on the patched tree is not one that always fails.
LEMMA PositiveTells ==
  ASSUME NEW kind, NEW vulnerable,
         PositivePasses(Behaviour(kind, vulnerable))
  PROVE  kind # "stuck"
BY DEF PositivePasses, Behaviour, Fails

\* The invariant holds at the start.
LEMMA Starts == Init => IInv
<1> SUFFICES ASSUME Init PROVE IInv
  OBVIOUS
<1> USE PatchAssumption
<1>1. pkgJson \in PackageJsons
  <2>1. [p \in Packages |-> "none"] \in [Packages -> Calls \cup {"none"}]
    OBVIOUS
  <2> QED
    BY <2>1 DEF Init, PackageJsons
<1>2. Cleaned
  BY <1>1 DEF Init, Cleaned, NoManifest, Ends, Steps
<1>3. Others
  <2>1. kindOf \in [Scripts -> Kinds]
    BY DEF Init, Scripts
  <2> QED
    BY <1>1, <2>1 DEF Init, Others
<1>4. Chosen /\ Judged
  BY DEF Init, Chosen, Judged, Early
<1> QED
  BY <1>2, <1>3, <1>4 DEF IInv

-----------------------------------------------------------------------------
(* Steps *)

\* Moving a call on or ending it keeps the types of what that writes.
LEMMA Moves ==
  ASSUME Cleaned, NEW c \in Calls, NEW step \in Steps, Continue(c, step)
  PROVE  /\ lock' \in Calls \cup {"free"}
         /\ pc' \in [Calls \cup {"bump"} -> Steps]
         /\ result' \in [Calls -> Ends \cup {"none"}]
BY DEF Cleaned, Continue, GoTo

\* ... or ending it.
LEMMA Finishes ==
  ASSUME Cleaned, NEW c \in Calls, NEW how \in Ends, Finish(c, how)
  PROVE  /\ lock' \in Calls \cup {"free"}
         /\ pc' \in [Calls \cup {"bump"} -> Steps]
         /\ result' \in [Calls -> Ends \cup {"none"}]
BY DEF Cleaned, Finish, GoTo, Steps

\* What a cleanup takes back, but for what it loses.
Undoes(c, lost) ==
  LET p == PackageOf[c] IN
  /\ kept' = [kept EXCEPT ![c] = lost]
  /\ files' = IF "file" \in lost THEN files ELSE [files EXCEPT ![p] = "none"]
  /\ manifests' = IF "manifest" \in lost THEN manifests
                  ELSE [manifests EXCEPT ![p] = NoManifest]
  /\ pkgJson' = IF "package.json" \in lost THEN pkgJson ELSE Restored(c)

\* A call that cleans up keeps its part of the types, whether an install
\* follows or not, and neither starts a call nor moves another one.
LEMMA CleanUpTypes ==
  ASSUME Cleaned, Others, NEW c \in Calls, NEW b \in BOOLEAN, CleanUp(c, b)
  PROVE  /\ Cleaned'
         /\ pc' = [pc EXCEPT ![c] = IF b THEN "reinstall" ELSE "done"]
<1> USE PatchAssumption
<1>1. Restored(c) \in PackageJsons
  BY DEF Restored, Cleaned, Others
<1>2. PackageOf[c] \in Packages /\ NoManifest \in [by : Calls \cup {"none"},
                                          applied : BOOLEAN, verified : BOOLEAN]
  BY DEF NoManifest
<1>3. /\ pkgJson' \in PackageJsons
      /\ files' \in [Packages -> Calls \cup {"none"}]
      /\ manifests' \in [Packages -> [by : Calls \cup {"none"},
                                      applied : BOOLEAN, verified : BOOLEAN]]
      /\ kept' \in [Calls -> SUBSET Artifacts]
  <2>1. PICK lost \in SUBSET Artifacts : Undoes(c, lost)
    BY DEF CleanUp, Undoes
  <2> QED
    BY <1>1, <1>2, <2>1 DEF Undoes, Cleaned
<1>4. CASE b
  <2>1. pc' = [pc EXCEPT ![c] = "reinstall"] /\ UNCHANGED <<result, lock>>
    BY <1>4 DEF CleanUp, Continue, GoTo
  <2> QED
    BY <1>3, <1>4, <2>1 DEF Cleaned, Steps
<1>5. CASE ~b
  <2>1. /\ pc' = [pc EXCEPT ![c] = "done"]
        /\ result' = [result EXCEPT ![c] = "failed"]
        /\ lock' = "free"
    BY <1>5 DEF CleanUp, Finish, GoTo
  <2> QED
    BY <1>3, <1>5, <2>1 DEF Cleaned, Steps, Ends
<1> QED
  BY <1>4, <1>5

\* The entry of a patch-commit keeps package.json's type.
LEMMA CommittedType ==
  ASSUME NEW json \in PackageJsons, NEW c \in Calls
  PROVE  Committed(json, c) \in PackageJsons /\ Committed(json, c).post = json.post
<1>1. json.committed \in [Packages -> Calls \cup {"none"}]
  BY DEF PackageJsons
<1>2. [json.committed EXCEPT ![PackageOf[c]] = c] \in [Packages -> Calls \cup {"none"}]
  BY <1>1
<1> QED
  BY <1>2 DEF Committed, PackageJsons

\* What an install leaves of the tree.
LEMMA InstallTypes ==
  ASSUME Cleaned, Others, NEW f \in BOOLEAN, NEW t \in BOOLEAN, NEW ok \in BOOLEAN,
         InstallAs(f, t, ok)
  PROVE  tree' \in [Packages -> Calls \cup {"none"}]
<1> DEFINE found == IF f THEN [p \in Packages |-> "none"] ELSE tree
<1>1. found \in [Packages -> Calls \cup {"none"}]
  BY DEF Others
<1>2. Patched(found) \in [Packages -> Calls \cup {"none"}]
  BY <1>1 DEF Patched, Cleaned
<1>3. tree' \in {found, Patched(found)}
  BY DEF InstallAs
<1> QED
  BY <1>1, <1>2, <1>3

\* Every action of a call keeps the types of what a cleanup writes.
LEMMA CallKeepsCleaned ==
  ASSUME Cleaned, Others, NEW c \in Calls, Call(c)
  PROVE  Cleaned'
<1> USE PatchAssumption
<1>1. PackageOf[c] \in Packages
  OBVIOUS
<1>2. CASE Refuse(c)
  BY <1>1, <1>2 DEF Refuse, Continue, GoTo, Files, history, Cleaned, Steps, Ends
<1>3. CASE TimeOut(c)
  BY <1>1, <1>3 DEF TimeOut, Continue, GoTo, Files, history, Cleaned, Steps, Ends
<1>4. CASE Wait(c)
  BY <1>1, <1>4 DEF Wait, Continue, GoTo, Files, history, Cleaned, Steps, Ends
<1>5. CASE Lock(c)
  BY <1>1, <1>5 DEF Lock, Continue, GoTo, Files, history, Cleaned, Steps, Ends
<1>6. CASE ReadPackageJson(c)
  <2>1. CASE CleanUp(c, TRUE)
    BY <2>1, CleanUpTypes
  <2>2. CASE ~CleanUp(c, TRUE)
    BY <1>6, <2>2 DEF ReadPackageJson, NoCleanUp, Continue, GoTo, Cleaned, Steps
  <2> QED
    BY <2>1, <2>2
<1>7. CASE Write(c)
  <2>1. \A v \in BOOLEAN : [by |-> c, applied |-> FALSE, verified |-> v] \in
          [by : Calls \cup {"none"}, applied : BOOLEAN, verified : BOOLEAN]
    OBVIOUS
  <2>2. \/ \E v \in BOOLEAN : manifests' = [manifests EXCEPT ![PackageOf[c]] =
                                  [by |-> c, applied |-> FALSE, verified |-> v]]
        \/ manifests' = manifests
    BY <1>7 DEF Write, Manifest, Verified
  <2>3. manifests' \in [Packages -> [by : Calls \cup {"none"}, applied : BOOLEAN,
                                    verified : BOOLEAN]]
    <3>1. CASE manifests' = manifests
      BY <3>1 DEF Cleaned
    <3>2. CASE manifests' # manifests
      <4>1. PICK v \in BOOLEAN : manifests' = [manifests EXCEPT ![PackageOf[c]] =
                                  [by |-> c, applied |-> FALSE, verified |-> v]]
        BY <2>2, <3>2
      <4>2. [by |-> c, applied |-> FALSE, verified |-> v] \in
              [by : Calls \cup {"none"}, applied : BOOLEAN, verified : BOOLEAN]
        BY <2>1
      <4> QED
        BY <1>1, <4>1, <4>2 DEF Cleaned
    <3> QED
      BY <3>1, <3>2
  <2>4. /\ lock' \in Calls \cup {"free"}
        /\ pc' \in [Calls \cup {"bump"} -> Steps]
        /\ result' \in [Calls -> Ends \cup {"none"}]
    <3>1. \/ Continue(c, "test") \/ Finish(c, "threw") \/ Finish(c, "applied")
      BY <1>7 DEF Write
    <3> QED
      BY <3>1, Moves, Finishes DEF Steps, Ends
  <2>5. /\ pkgJson' \in PackageJsons /\ files' \in [Packages -> Calls \cup {"none"}]
        /\ kept' = kept
    BY <1>1, <1>7 DEF Write, Cleaned, history
  <2> QED
    BY <2>3, <2>4, <2>5 DEF Cleaned
<1>8. CASE Record(c)
  <2>1. \A v \in BOOLEAN : [by |-> c, applied |-> TRUE, verified |-> v] \in
          [by : Calls \cup {"none"}, applied : BOOLEAN, verified : BOOLEAN]
    OBVIOUS
  <2>2. \/ \E v \in BOOLEAN : manifests' = [manifests EXCEPT ![PackageOf[c]] =
                                  [by |-> c, applied |-> TRUE, verified |-> v]]
        \/ manifests' = manifests
    BY <1>8 DEF Record, Manifest, Verified
  <2>3. manifests' \in [Packages -> [by : Calls \cup {"none"}, applied : BOOLEAN,
                                    verified : BOOLEAN]]
    <3>1. CASE manifests' = manifests
      BY <3>1 DEF Cleaned
    <3>2. CASE manifests' # manifests
      <4>1. PICK v \in BOOLEAN : manifests' = [manifests EXCEPT ![PackageOf[c]] =
                                  [by |-> c, applied |-> TRUE, verified |-> v]]
        BY <2>2, <3>2
      <4>2. [by |-> c, applied |-> TRUE, verified |-> v] \in
              [by : Calls \cup {"none"}, applied : BOOLEAN, verified : BOOLEAN]
        BY <2>1
      <4> QED
        BY <1>1, <4>1, <4>2 DEF Cleaned
    <3> QED
      BY <3>1, <3>2
  <2>4. /\ lock' \in Calls \cup {"free"}
        /\ pc' \in [Calls \cup {"bump"} -> Steps]
        /\ result' \in [Calls -> Ends \cup {"none"}]
    <3>1. \/ Continue(c, "test") \/ Finish(c, "threw") \/ Finish(c, "applied")
      BY <1>8 DEF Record
    <3> QED
      BY <3>1, Moves, Finishes DEF Steps, Ends
  <2>5. /\ pkgJson' \in PackageJsons /\ files' \in [Packages -> Calls \cup {"none"}]
        /\ kept' = kept
    BY <1>1, <1>8 DEF Record, Cleaned, history
  <2> QED
    BY <2>3, <2>4, <2>5 DEF Cleaned
<1>9. CASE Configure(c)
  <2>1. [view[c] EXCEPT !.post = WithPatchPackage(@)] \in PackageJsons
    <3>1. view[c] \in PackageJsons
      BY DEF Others
    <3>2. WithPatchPackage(view[c].post) \in SUBSET {"own", "patch-package"}
      BY <3>1 DEF PackageJsons, WithPatchPackage
    <3> QED
      BY <3>1, <3>2 DEF PackageJsons
  <2>2. /\ \/ pkgJson' = [view[c] EXCEPT !.post = WithPatchPackage(@)]
           \/ pkgJson' = pkgJson
        /\ \/ Continue(c, "install")
           \/ Finish(c, "threw")
        /\ UNCHANGED <<files, manifests, kept>>
    BY <1>9 DEF Configure, Files, history
  <2>3. /\ lock' \in Calls \cup {"free"}
        /\ pc' \in [Calls \cup {"bump"} -> Steps]
        /\ result' \in [Calls -> Ends \cup {"none"}]
    BY <2>2, Moves, Finishes DEF Steps, Ends
  <2> QED
    BY <2>1, <2>2, <2>3 DEF Cleaned
<1>10. CASE PrepareTest(c)
  <2>1. CASE CleanUp(c, FALSE)
    BY <2>1, CleanUpTypes
  <2>2. CASE ~CleanUp(c, FALSE)
    BY <1>10, <2>2 DEF PrepareTest, NoCleanUp, Continue, GoTo, Cleaned, Steps
  <2> QED
    BY <2>1, <2>2
<1>11. CASE Negative(c)
  <2>1. CASE CleanUp(c, FALSE)
    BY <2>1, CleanUpTypes
  <2>2. CASE ~CleanUp(c, FALSE)
    BY <1>11, <2>2 DEF Negative, NoCleanUp, Continue, GoTo, Cleaned, Steps
  <2> QED
    BY <2>1, <2>2
<1>12. CASE AddTool(c)
  <2>1. CASE CleanUp(c, TRUE)
    BY <2>1, CleanUpTypes
  <2>2. CASE ~CleanUp(c, TRUE)
    <3>1. [pkgJson EXCEPT !.tool = TRUE] \in PackageJsons
      BY DEF Cleaned, PackageJsons
    <3>2. /\ pkgJson' = [pkgJson EXCEPT !.tool = TRUE]
          /\ pc' = [pc EXCEPT ![c] = "configure"]
          /\ UNCHANGED <<files, manifests, kept, lock, result>>
      BY <1>12, <2>2 DEF AddTool, NoCleanUp, Continue, GoTo
    <3> QED
      BY <3>1, <3>2 DEF Cleaned, Steps
  <2> QED
    BY <2>1, <2>2
<1>13. CASE Native(c)
  <2>1. pkgJson' \in PackageJsons
    BY <1>13, CommittedType DEF Native, Cleaned
  <2>2. /\ \/ pc' = [pc EXCEPT ![c] = "validate"]
           \/ pc' = [pc EXCEPT ![c] = "aborted"]
        /\ UNCHANGED <<files, manifests, kept, lock, result>>
    BY <1>13 DEF Native, Continue, GoTo, Files, history
  <2> QED
    BY <2>1, <2>2 DEF Cleaned, Steps
<1>14. CASE Install(c)
  <2>1. CASE CleanUp(c, TRUE)
    BY <2>1, CleanUpTypes
  <2>2. CASE ~CleanUp(c, TRUE)
    BY <1>14, <2>2 DEF Install, NoCleanUp, Continue, GoTo, Cleaned, Steps
  <2> QED
    BY <2>1, <2>2
<1>15. CASE Validate(c)
  <2>0. (~native) \in BOOLEAN
    BY DEF Others
  <2>1. CASE CleanUp(c, ~native)
    BY <2>1, CleanUpTypes, <2>0
  <2>2. CASE ~CleanUp(c, ~native)
    BY <1>15, <2>2 DEF Validate, NoCleanUp, Continue, GoTo, Cleaned, Steps
  <2> QED
    BY <2>1, <2>2
<1>16. CASE Positive(c)
  <2>0. (~native) \in BOOLEAN
    BY DEF Others
  <2>1. CASE CleanUp(c, ~native)
    BY <2>1, CleanUpTypes, <2>0
  <2>2. CASE ~CleanUp(c, ~native)
    BY <1>16, <2>2 DEF Positive, NoCleanUp, Continue, GoTo, Cleaned, Steps
  <2> QED
    BY <2>1, <2>2
<1>17. CASE Reinstall(c)
  BY <1>17 DEF Reinstall, Finish, GoTo, Files, history, Cleaned, Steps, Ends
<1>18. CASE Abort(c)
  BY <1>18, CleanUpTypes DEF Abort
<1> QED
  BY <1>2, <1>3, <1>4, <1>5, <1>6, <1>7, <1>8, <1>9, <1>10, <1>11, <1>12,
     <1>13, <1>14, <1>15, <1>16, <1>17, <1>18 DEF Call

\* ... and the types of the rest.
LEMMA CallKeepsOthers ==
  ASSUME Cleaned, Others, NEW c \in Calls, Call(c)
  PROVE  Others'
<1> USE PatchAssumption
<1>1. PackageOf[c] \in Packages
  OBVIOUS
<1>2. CASE \/ Refuse(c) \/ TimeOut(c) \/ Write(c) \/ AddTool(c)
           \/ Configure(c) \/ Validate(c) \/ Record(c) \/ Abort(c)
  <2>1. UNCHANGED <<native, kindOf, tree, snapshot, view, tests, using, proof,
                  before>>
    BY <1>2 DEF Refuse, TimeOut, Write, AddTool, Configure, Validate, Record,
               Abort, chosen, history, Files, Installed
  <2> QED
    BY <2>1 DEF Others
<1>3. CASE Wait(c)
  <2>1. UNCHANGED <<native, kindOf, tree, snapshot, tests, using, proof, before>>
    BY <1>3 DEF Wait, chosen, history, Files, Installed
  <2>2. view' \in [Calls \cup {"bump"} -> PackageJsons]
    BY <1>1, <1>3 DEF Wait, Cleaned, Others
  <2> QED
    BY <2>1, <2>2 DEF Others
<1>4. CASE ReadPackageJson(c)
  <2>1. UNCHANGED <<native, kindOf, tree, snapshot, tests, using, proof, before>>
    BY <1>4 DEF ReadPackageJson, chosen, history, Files, Installed
  <2>2. view' \in [Calls \cup {"bump"} -> PackageJsons]
    <3>1. view' = [view EXCEPT ![c] = pkgJson] \/ view' = view
      BY <1>4 DEF ReadPackageJson
    <3>2. view \in [Calls \cup {"bump"} -> PackageJsons] /\ pkgJson \in PackageJsons
      BY DEF Cleaned, Others
    <3> QED
      BY <3>1, <3>2
  <2> QED
    BY <2>1, <2>2 DEF Others
<1>5. CASE Lock(c)
  <2>1. UNCHANGED <<native, kindOf, tree, view, tests, using, proof>>
    BY <1>5 DEF Lock, chosen, Files, Installed
  <2>2. snapshot' \in [Calls -> PackageJsons]
    BY <1>1, <1>5 DEF Lock, Snapshot, Cleaned, Others
  <2>3. before' \in [Calls -> PackageJsons]
    BY <1>1, <1>5 DEF Lock, Cleaned, Others
  <2> QED
    BY <2>1, <2>2, <2>3 DEF Others
<1>6. CASE Negative(c)
  <2>1. UNCHANGED <<native, kindOf, tree, snapshot, view, tests, using, before>>
    BY <1>6 DEF Negative, chosen, history, Files, Installed
  <2>2. proof' = [proof EXCEPT ![c] = {"negative"}] \/ proof' = proof
    BY <1>6 DEF Negative
  <2>3. proof' \in [Calls -> SUBSET {"negative", "positive"}]
    BY <1>1, <2>2 DEF Others
  <2> QED
    BY <2>1, <2>3 DEF Others
<1>7. CASE Positive(c)
  <2>1. UNCHANGED <<native, kindOf, tree, snapshot, view, tests, using, before>>
    BY <1>7 DEF Positive, chosen, history, Files, Installed
  <2>2. \/ proof' = [proof EXCEPT ![c] = proof[c] \cup {"positive"}]
        \/ proof' = proof
    BY <1>7 DEF Positive
  <2>3. proof' \in [Calls -> SUBSET {"negative", "positive"}]
    BY <2>2 DEF Others
  <2> QED
    BY <2>1, <2>3 DEF Others
<1>8. CASE Native(c)
  <2>1. UNCHANGED <<native, kindOf, snapshot, view, tests, using, proof, before>>
    BY <1>8 DEF Native, chosen, history, Files, Installed
  <2>2. tree' = [tree EXCEPT ![PackageOf[c]] = c] \/ tree' = tree
    BY <1>8 DEF Native
  <2>3. tree' \in [Packages -> Calls \cup {"none"}]
    BY <1>1, <2>2 DEF Others
  <2> QED
    BY <2>1, <2>3 DEF Others
<1>9. CASE PrepareTest(c)
  <2>1. UNCHANGED <<native, kindOf, tree, snapshot, view, proof, before>>
    BY <1>9 DEF PrepareTest, chosen, history, Installed
  <2>2. TestOf(c) \in Scripts \cup {"none"}
    BY <1>1 DEF TestOf, Others, Scripts
  <2>3. /\ using' \in [Calls -> Scripts \cup {"none"}]
        /\ tests' \in [Packages -> Scripts \cup {"none"}]
    BY <1>1, <1>9, <2>2 DEF PrepareTest, Others, Scripts
  <2> QED
    BY <2>1, <2>3 DEF Others
<1>10. CASE Install(c)
  <2>1. UNCHANGED <<native, kindOf, snapshot, view, tests, using, proof, before>>
    BY <1>10 DEF Install, chosen, history, Files
  <2>2. \E f, t, ok \in BOOLEAN : InstallAs(f, t, ok)
    BY <1>10 DEF Install
  <2>3. tree' \in [Packages -> Calls \cup {"none"}]
    BY <2>2, InstallTypes
  <2> QED
    BY <2>1, <2>3 DEF Others
<1>11. CASE Reinstall(c)
  <2>1. UNCHANGED <<native, kindOf, snapshot, view, tests, using, proof, before>>
    BY <1>11 DEF Reinstall, chosen, history, Files
  <2>2. \E f, t, ok \in BOOLEAN : InstallAs(f, t, ok)
    BY <1>11 DEF Reinstall
  <2>3. tree' \in [Packages -> Calls \cup {"none"}]
    BY <2>2, InstallTypes
  <2> QED
    BY <2>1, <2>3 DEF Others
<1> QED
  BY <1>2, <1>3, <1>4, <1>5, <1>6, <1>7, <1>8, <1>9, <1>10, <1>11 DEF Call

-----------------------------------------------------------------------------
(* The tests and what they tell *)

\* Where an action leads that neither chooses a test nor runs it: not back to
\* before the choice, and to the second phase only with a test.
Leads(c, s) ==
  /\ pc' = [pc EXCEPT ![c] = s]
  /\ s \in Early => pc[c] \in Early
  /\ s # "negative"
  /\ s = "positive" => using[c] # "none"

\* The actions that neither choose a test nor run it lead nowhere else.
LEMMA OtherSteps ==
  ASSUME Cleaned, Others, NEW c \in Calls, Call(c),
         ~PrepareTest(c), ~Negative(c), ~Positive(c)
  PROVE  /\ UNCHANGED <<kindOf, using, proof>>
         /\ \E s \in Steps : Leads(c, s)
<1>1. CASE Refuse(c)
  <2>1. pc' = [pc EXCEPT ![c] = "done"]
    BY <1>1 DEF Refuse, Continue, Finish, GoTo
  <2>2. UNCHANGED <<kindOf, using, proof>>
    BY <1>1 DEF Refuse, chosen
  <2> QED
    BY <2>1, <2>2 DEF Leads, Steps, Early
<1>2. CASE Wait(c)
  <2>1. pc' = [pc EXCEPT ![c] = "waiting"]
    BY <1>2 DEF Wait, Continue, Finish, GoTo
  <2>2. UNCHANGED <<kindOf, using, proof>> /\ pc[c] \in Early
    BY <1>2 DEF Wait, chosen, Early
  <2> QED
    BY <2>1, <2>2 DEF Leads, Steps, Early
<1>3. CASE TimeOut(c)
  <2>1. pc' = [pc EXCEPT ![c] = "done"]
    BY <1>3 DEF TimeOut, Continue, Finish, GoTo
  <2>2. UNCHANGED <<kindOf, using, proof>>
    BY <1>3 DEF TimeOut, chosen
  <2> QED
    BY <2>1, <2>2 DEF Leads, Steps, Early
<1>4. CASE Lock(c)
  <2>1. pc' = [pc EXCEPT ![c] = "write"]
    BY <1>4 DEF Lock, Continue, Finish, GoTo
  <2>2. UNCHANGED <<kindOf, using, proof>> /\ pc[c] \in Early
    BY <1>4 DEF Lock, chosen, Early
  <2> QED
    BY <2>1, <2>2 DEF Leads, Steps, Early
<1>5. CASE Write(c)
  <2>1. \/ pc' = [pc EXCEPT ![c] = "test"]
        \/ pc' = [pc EXCEPT ![c] = "done"]
    BY <1>5 DEF Write, Continue, Finish, GoTo
  <2>2. UNCHANGED <<kindOf, using, proof>> /\ pc[c] \in Early
    BY <1>5 DEF Write, chosen, Early
  <2> QED
    BY <2>1, <2>2 DEF Leads, Steps, Early
<1>6. CASE ReadPackageJson(c)
  <2>1. \/ pc' = [pc EXCEPT ![c] = "configure"]
        \/ pc' = [pc EXCEPT ![c] = "add"]
        \/ pc' = [pc EXCEPT ![c] = "reinstall"]
    BY <1>6, CleanUpTypes DEF ReadPackageJson, Continue, Finish, GoTo
  <2>2. UNCHANGED <<kindOf, using, proof>>
    BY <1>6 DEF ReadPackageJson, chosen
  <2> QED
    BY <2>1, <2>2 DEF Leads, Steps, Early
<1>7. CASE Configure(c)
  <2>1. \/ pc' = [pc EXCEPT ![c] = "install"]
        \/ pc' = [pc EXCEPT ![c] = "done"]
    BY <1>7 DEF Configure, Continue, Finish, GoTo
  <2>2. UNCHANGED <<kindOf, using, proof>>
    BY <1>7 DEF Configure, chosen
  <2> QED
    BY <2>1, <2>2 DEF Leads, Steps, Early
<1>8. CASE Reinstall(c)
  <2>1. pc' = [pc EXCEPT ![c] = "done"]
    BY <1>8 DEF Reinstall, Continue, Finish, GoTo
  <2>2. UNCHANGED <<kindOf, using, proof>>
    BY <1>8 DEF Reinstall, chosen
  <2> QED
    BY <2>1, <2>2 DEF Leads, Steps, Early
<1>9. CASE Record(c)
  <2>1. pc' = [pc EXCEPT ![c] = "done"]
    BY <1>9 DEF Record, Continue, Finish, GoTo
  <2>2. UNCHANGED <<kindOf, using, proof>>
    BY <1>9 DEF Record, chosen
  <2> QED
    BY <2>1, <2>2 DEF Leads, Steps, Early
<1>10. CASE AddTool(c)
  <2>1. UNCHANGED <<kindOf, using, proof>>
    BY <1>10 DEF AddTool, chosen
  <2>2. CASE CleanUp(c, TRUE)
    BY <2>1, <2>2, CleanUpTypes DEF Leads, Steps, Early
  <2>3. CASE ~CleanUp(c, TRUE)
    <3>1. pc' = [pc EXCEPT ![c] = "configure"]
      BY <1>10, <2>3 DEF AddTool, Continue, GoTo
    <3> QED
      BY <2>1, <3>1 DEF Leads, Steps, Early
  <2> QED
    BY <2>2, <2>3
<1>11. CASE Native(c)
  <2>1. \/ pc' = [pc EXCEPT ![c] = "validate"]
        \/ pc' = [pc EXCEPT ![c] = "aborted"]
    BY <1>11 DEF Native, Continue, GoTo
  <2>2. UNCHANGED <<kindOf, using, proof>>
    BY <1>11 DEF Native, chosen
  <2> QED
    BY <2>1, <2>2 DEF Leads, Steps, Early
<1>12. CASE Install(c)
  <2>1. UNCHANGED <<kindOf, using, proof>>
    BY <1>12 DEF Install, chosen
  <2>2. CASE CleanUp(c, TRUE)
    BY <2>1, <2>2, CleanUpTypes DEF Leads, Steps, Early
  <2>3. CASE ~CleanUp(c, TRUE)
    <3>1. pc' = [pc EXCEPT ![c] = "validate"]
      BY <1>12, <2>3 DEF Install, Continue, GoTo
    <3> QED
      BY <2>1, <3>1 DEF Leads, Steps, Early
  <2> QED
    BY <2>2, <2>3
<1>13. CASE Validate(c)
  <2>1. UNCHANGED <<kindOf, using, proof>>
    BY <1>13 DEF Validate, chosen
  <2>2. CASE CleanUp(c, ~native)
    <3>1. (~native) \in BOOLEAN
      OBVIOUS
    <3> QED
      BY <2>1, <2>2, <3>1, CleanUpTypes DEF Leads, Steps, Early
  <2>3. CASE ~CleanUp(c, ~native)
    <3>1. pc' = [pc EXCEPT ![c] = IF using[c] = "none" THEN "final" ELSE "positive"]
      BY <1>13, <2>3 DEF Validate, Continue, GoTo
    <3> QED
      BY <2>1, <3>1 DEF Leads, Steps, Early
  <2> QED
    BY <2>2, <2>3
<1>14. CASE Abort(c)
  <2>1. pc' = [pc EXCEPT ![c] = "done"]
    BY <1>14, CleanUpTypes DEF Abort
  <2>2. UNCHANGED <<kindOf, using, proof>>
    BY <1>14 DEF Abort, chosen
  <2> QED
    BY <2>1, <2>2 DEF Leads, Steps, Early
<1> QED
  BY <1>1, <1>2, <1>3, <1>4, <1>5, <1>6, <1>7, <1>8, <1>9, <1>10, <1>11,
     <1>12, <1>13, <1>14 DEF Call

\* A call keeps what the choice and the runs of its test and of the others'
\* tell.
LEMMA CallKeepsJudged ==
  ASSUME IInv, NEW c \in Calls, Call(c)
  PROVE  Chosen' /\ Judged'
<1> USE PatchAssumption
<1>1. /\ Cleaned /\ Others
      /\ pc \in [Calls \cup {"bump"} -> Steps]
      /\ using \in [Calls -> Scripts \cup {"none"}]
      /\ proof \in [Calls -> SUBSET {"negative", "positive"}]
      /\ kindOf \in [Scripts -> Kinds]
  BY DEF IInv, Cleaned, Others
<1>2. CASE ~PrepareTest(c) /\ ~Negative(c) /\ ~Positive(c)
  <2>1. UNCHANGED <<kindOf, using, proof>> /\ \E s \in Steps : Leads(c, s)
    BY <1>1, <1>2, OtherSteps
  <2>2. PICK s \in Steps : Leads(c, s)
    BY <2>1
  <2> QED
    BY <1>1, <2>1, <2>2 DEF IInv, Chosen, Judged, Leads
<1>3. CASE PrepareTest(c)
  <2>1. /\ using' = [using EXCEPT ![c] = TestOf(c)]
        /\ UNCHANGED <<kindOf, proof>>
        /\ proof[c] = {}
    BY <1>3 DEF PrepareTest, IInv, Chosen, Early, chosen
  <2>2. \E s \in Steps \ Early : /\ pc' = [pc EXCEPT ![c] = s]
                                 /\ s # "positive"
                                 /\ s = "negative" => TestOf(c) # "none"
    <3>1. CASE CleanUp(c, FALSE)
      BY <1>1, <3>1, CleanUpTypes DEF Steps, Early
    <3>2. CASE ~CleanUp(c, FALSE)
      <4>1. pc' = [pc EXCEPT ![c] = IF TestOf(c) = "none" THEN "apply" ELSE "negative"]
        BY <1>3, <3>2 DEF PrepareTest, Continue, GoTo
      <4>2. {"apply", "negative"} \subseteq Steps \ Early
        BY DEF Steps, Early
      <4>3. CASE TestOf(c) = "none"
        BY <4>1, <4>2, <4>3
      <4>4. CASE TestOf(c) # "none"
        BY <4>1, <4>2, <4>4
      <4> QED
        BY <4>3, <4>4
    <3> QED
      BY <3>1, <3>2
  <2>3. PICK s \in Steps \ Early : /\ pc' = [pc EXCEPT ![c] = s]
                                   /\ s # "positive"
                                   /\ s = "negative" => TestOf(c) # "none"
    BY <2>2
  <2> QED
    BY <1>1, <2>1, <2>3 DEF IInv, Chosen, Judged
<1>4. CASE Negative(c)
  <2>1. /\ UNCHANGED <<kindOf, using>>
        /\ using[c] # "none"
        /\ \/ proof' = proof
           \/ /\ proof' = [proof EXCEPT ![c] = {"negative"}]
              /\ NegativePasses(TestRun(c))
    BY <1>4 DEF Negative, IInv, Chosen, chosen
  <2>2. \E s \in Steps \ Early : /\ pc' = [pc EXCEPT ![c] = s]
                                 /\ s \notin {"negative", "positive"}
    <3>1. CASE CleanUp(c, FALSE)
      BY <1>1, <3>1, CleanUpTypes DEF Steps, Early
    <3>2. CASE ~CleanUp(c, FALSE)
      BY <1>4, <3>2 DEF Negative, Continue, GoTo, Steps, Early
    <3> QED
      BY <3>1, <3>2
  <2>3. PICK s \in Steps \ Early : /\ pc' = [pc EXCEPT ![c] = s]
                                   /\ s \notin {"negative", "positive"}
    BY <2>2
  <2>4. NegativePasses(TestRun(c)) => kindOf[using[c]] \in Genuine \cup {"stuck"}
    <3>1. kindOf[using[c]] \in Kinds
      BY <1>1, <2>1
    <3> QED
      BY <3>1, NegativeTells DEF TestRun
  <2> QED
    BY <1>1, <2>1, <2>3, <2>4 DEF IInv, Chosen, Judged
<1>5. CASE Positive(c)
  <2>1. /\ UNCHANGED <<kindOf, using>>
        /\ using[c] # "none"
        /\ \/ proof' = proof
           \/ /\ proof' = [proof EXCEPT ![c] = @ \cup {"positive"}]
              /\ PositivePasses(TestRun(c))
    BY <1>5 DEF Positive, IInv, Chosen, chosen
  <2>2. \E s \in Steps \ Early : /\ pc' = [pc EXCEPT ![c] = s]
                                 /\ s \notin {"negative", "positive"}
    <3>1. CASE CleanUp(c, ~native)
      <4>1. (~native) \in BOOLEAN
        OBVIOUS
      <4>2. pc' = [pc EXCEPT ![c] = IF ~native THEN "reinstall" ELSE "done"]
        BY <1>1, <3>1, <4>1, CleanUpTypes
      <4>3. {"reinstall", "done"} \subseteq Steps \ Early
        BY DEF Steps, Early
      <4>4. CASE native
        BY <4>2, <4>3, <4>4
      <4>5. CASE ~native
        BY <4>2, <4>3, <4>5
      <4> QED
        BY <4>4, <4>5
    <3>2. CASE ~CleanUp(c, ~native)
      BY <1>5, <3>2 DEF Positive, Continue, GoTo, Steps, Early
    <3> QED
      BY <3>1, <3>2
  <2>3. PICK s \in Steps \ Early : /\ pc' = [pc EXCEPT ![c] = s]
                                   /\ s \notin {"negative", "positive"}
    BY <2>2
  <2>4. PositivePasses(TestRun(c)) => kindOf[using[c]] # "stuck"
    BY PositiveTells DEF TestRun
  <2> QED
    BY <1>1, <2>1, <2>3, <2>4 DEF IInv, Chosen, Judged
<1> QED
  BY <1>2, <1>3, <1>4, <1>5

\* So does a version bump of another dependency.
LEMMA BumpKeeps ==
  ASSUME IInv, BumpReads \/ BumpWrites
  PROVE  IInv'
<1> USE PatchAssumption
<1>1. UNCHANGED <<native, kindOf, files, manifests, lock, result, tree, snapshot,
                  tests, using, proof, before, kept>>
  BY DEF BumpReads, BumpWrites, chosen, history, Files, Installed
<1>2. pc' \in [Calls \cup {"bump"} -> Steps] /\ \A c \in Calls : pc'[c] = pc[c]
  <2>1. pc \in [Calls \cup {"bump"} -> Steps]
    BY DEF IInv, Cleaned
  <2> QED
    BY <2>1 DEF BumpReads, BumpWrites, GoTo, Steps
<1>3. view' \in [Calls \cup {"bump"} -> PackageJsons]
  BY DEF BumpReads, BumpWrites, IInv, Cleaned, Others
<1>4. pkgJson' \in PackageJsons
  <2>1. view["bump"] \in PackageJsons
    BY DEF IInv, Others
  <2>2. [view["bump"] EXCEPT !.bumped = TRUE] \in PackageJsons
    BY <2>1 DEF PackageJsons
  <2> QED
    BY <2>2 DEF BumpReads, BumpWrites, IInv, Cleaned
<1> QED
  BY <1>1, <1>2, <1>3, <1>4 DEF IInv, Cleaned, Others, Chosen, Judged

\* The invariant holds of every reachable state.
LEMMA Invariance == Spec => []IInv
<1>1. ASSUME IInv, Next PROVE IInv'
  <2>1. CASE \E c \in Calls : Call(c)
    <3>1. PICK c \in Calls : Call(c)
      BY <2>1
    <3> QED
      BY <1>1, <3>1, CallKeepsCleaned, CallKeepsOthers, CallKeepsJudged DEF IInv
  <2>2. CASE BumpReads \/ BumpWrites
    BY <1>1, <2>2, BumpKeeps
  <2>3. CASE UNCHANGED vars
    BY <1>1, <2>3 DEF IInv, Cleaned, Others, Chosen, Judged, vars
  <2> QED
    BY <1>1, <2>1, <2>2, <2>3 DEF Next
<1>2. ASSUME IInv, UNCHANGED vars PROVE IInv'
  BY <1>2 DEF IInv, Cleaned, Others, Chosen, Judged, vars
<1> QED
  BY <1>1, <1>2, Starts, PTL DEF Spec

\* A manifest with a verified proof was written after a test that reproduces the
\* vulnerability, whatever calls share the tests of a package, whatever their
\* diffs and tests are, and wherever a write fails (applyPatchFileTool).
THEOREM ProofsAreGenuine == Spec => []ProofIsGenuine
<1>1. IInv => ProofIsGenuine
  <2>1. IInv => TypeOK
    BY DEF IInv, Cleaned, Others, TypeOK
  <2>2. ASSUME IInv, NEW c \in Calls, proof[c] = {"negative", "positive"}
        PROVE  using[c] # "none" /\ kindOf[using[c]] \in Genuine
    BY <2>2 DEF IInv, Judged
  <2> QED
    BY <2>1, <2>2 DEF ProofIsGenuine
<1> QED
  BY <1>1, Invariance, PTL

-----------------------------------------------------------------------------
(* The call under the lock *)

\* The steps under the lock: until package.json changes, while the call's files
\* are written, until the diff is in the tree, and after that.
Untouched == {"write", "test", "negative", "apply", "add"}
Written == {"test", "negative", "apply", "add", "configure", "install",
            "aborted", "validate", "positive", "final"}
Fixing == {"apply", "add", "configure", "install"}
Applied == {"validate", "positive", "final"}
Locked == Untouched \cup Written \cup {"reinstall"}

Posted(json) == "patch-package" \in json.post
Recorded == \E p \in Packages : manifests[p].applied

\* package.json is as the call found it until it is changed; the snapshot can
\* restore it, or it has the entry of a native patch-commit.
Restorable(c) ==
  /\ lock = c
  /\ snapshot[c] = before[c]
  /\ pc[c] \in Untouched => pkgJson = before[c]
  /\ native => pkgJson \in {before[c], Committed(before[c], c)}
  /\ pc[c] \in {"add", "configure", "install"} => ~native
  /\ pc[c] = "aborted" => native

\* The patch file and the manifest are the call's own, until it cleans up.
Owned(c) ==
  LET p == PackageOf[c] IN
  /\ pc[c] \in Written =>
       files[p] = c /\ manifests[p].by = c /\ ~manifests[p].applied
  /\ pc[c] = "reinstall" => Undone(c)

\* The script is in the package.json that a cleanup puts back, when an earlier
\* patch needs it, and in the one that the call leaves.
Configured(c) ==
  /\ Recorded /\ ~native /\ ~stale => Posted(before[c])
  /\ pc[c] \in Applied \cup {"install"} => native \/ Posted(pkgJson)

\* A test that reproduces the vulnerability, and has done so in this call.
Reproducing(c) == using[c] # "none" /\ kindOf[using[c]] \in Genuine

\* Between the phases of the proof the tree is vulnerable until the call's diff
\* is in it.
InTree(c) ==
  LET p == PackageOf[c] IN
  /\ pc[c] \in Fixing \cup Applied /\ using[c] # "none"
       => "negative" \in proof[c]
  /\ pc[c] \in Fixing /\ Reproducing(c) => Vulnerable(p)
  /\ pc[c] \in Applied =>
       \/ tree[p] = c
       \/ ~native /\ ~strict /\ (Reproducing(c) => Vulnerable(p))
  /\ pc[c] = "final" /\ "positive" \in proof[c] => tree[p] = c

\* The script stays in package.json as long as a patch needs it, but for a bump.
Needed ==
  /\ stale => pc["bump"] = "done"
  /\ Recorded /\ ~native /\ ~stale => Posted(pkgJson)

Section(c) == Restorable(c) /\ Owned(c) /\ Configured(c) /\ InTree(c)
Held == \A c \in Calls : pc[c] \in Locked => Section(c)

-----------------------------------------------------------------------------
(* What the steps under the lock make of it *)

\* A genuine test that is judged a reproduction ran on a vulnerable tree; one
\* that passes ran on a fixed one.
LEMMA GenuineTells ==
  ASSUME NEW c \in Calls, kindOf[using[c]] \in Genuine
  PROVE  /\ NegativePasses(TestRun(c)) => Vulnerable(PackageOf[c])
         /\ PositivePasses(TestRun(c)) => ~Vulnerable(PackageOf[c])
<1>1. Vulnerable(PackageOf[c]) \in BOOLEAN
  BY DEF Vulnerable
<1>2. ASSUME NEW vulnerable \in BOOLEAN, NEW kind \in Genuine
      PROVE  /\ NegativePasses(Behaviour(kind, vulnerable)) => vulnerable
             /\ PositivePasses(Behaviour(kind, vulnerable)) => ~vulnerable
  BY <1>2 DEF Genuine, NegativePasses, PositivePasses, Behaviour, Fails
<1> QED
  BY <1>1, <1>2 DEF TestRun

\* A successful install with the script puts the call's diff into the tree, or,
\* where patch-package fails in silence, leaves no other diff there that was not.
LEMMA InstallTells ==
  ASSUME Cleaned, Others, NEW c \in Calls, NEW p \in Packages, files[p] = c,
         Posted(pkgJson), NEW f \in BOOLEAN, NEW t \in BOOLEAN,
         InstallAs(f, t, TRUE)
  PROVE  tree'[p] = c \/ (~strict /\ tree'[p] \in {tree[p], "none"})
<1> USE PatchAssumption
<1> DEFINE found == IF f THEN [q \in Packages |-> "none"] ELSE tree
<1>1. found[p] \in {tree[p], "none"}
  OBVIOUS
<1>2. t /\ tree' = Patched(found) /\ (strict => Fits(found, p))
  BY DEF InstallAs, Posted
<1>3. files[p] # "none"
  OBVIOUS
<1>4. tree'[p] = IF Fits(found, p) THEN c ELSE found[p]
  BY <1>2, <1>3 DEF Patched
<1> QED
  BY <1>1, <1>2, <1>4

\* A cleanup takes back what the call wrote, but for what it says it kept, and
\* package.json stays or becomes what the call found.
LEMMA CleanUpTells ==
  ASSUME Cleaned, NEW c \in Calls, Section(c), pc[c] \in Written,
         NEW b \in BOOLEAN, CleanUp(c, b), UNCHANGED <<native, before>>
  PROVE  /\ Undone(c)'
         /\ pkgJson' \in {pkgJson, before[c]}
         /\ native => pkgJson' = pkgJson
         /\ Recorded' => Recorded
         /\ b => lock' = lock /\ result' = result
<1> USE PatchAssumption
<1>1. Restorable(c) /\ Owned(c)
  BY DEF Section
<1>2. PICK lost \in SUBSET Artifacts : Undoes(c, lost)
  BY DEF CleanUp, Undoes
<1>3. kept'[c] = lost
  BY <1>2 DEF Undoes, Cleaned
<1>4. /\ files'[PackageOf[c]] = "none" \/ "file" \in lost
      /\ \/ manifests'[PackageOf[c]] = NoManifest
         \/ "manifest" \in lost /\ manifests' = manifests
  BY <1>2 DEF Undoes, Cleaned
<1>5. /\ pkgJson' \in {pkgJson, before[c]}
      /\ native => pkgJson' = pkgJson
      /\ ~native /\ "package.json" \notin lost => pkgJson' = before[c]
  BY <1>1, <1>2 DEF Undoes, Restored, Restorable
<1>6. Undone(c)'
  <2>1. files'[PackageOf[c]] # c \/ "file" \in kept'[c]
    BY <1>3, <1>4
  <2>2. \/ manifests'[PackageOf[c]].by # c
        \/ "manifest" \in kept'[c] /\ ~manifests'[PackageOf[c]].applied
    BY <1>1, <1>3, <1>4 DEF Owned, NoManifest
  <2>3. \/ pkgJson' = before[c]
        \/ "package.json" \in kept'[c] /\ ~native
        \/ native /\ pkgJson' = Committed(before[c], c)
    BY <1>1, <1>3, <1>5 DEF Restorable
  <2>4. Committed(before[c], c)' = Committed(before[c], c)
    BY DEF Committed
  <2> QED
    BY <2>1, <2>2, <2>3, <2>4 DEF Undone
<1>7. \A p \in Packages : manifests'[p].applied => manifests[p].applied
  BY <1>2 DEF Undoes, Cleaned, NoManifest
<1>8. b => lock' = lock /\ result' = result
  BY DEF CleanUp, Continue
<1> QED
  BY <1>5, <1>6, <1>7, <1>8 DEF Recorded

\* After it, everything is as it has to be.
LEMMA CleanUpHolds ==
  ASSUME IInv, Needed, NEW c \in Calls, Section(c), pc[c] \in Written,
         NEW b \in BOOLEAN, CleanUp(c, b),
         UNCHANGED <<native, stale, snapshot, before>>
  PROVE  /\ pc'[c] \in Locked => Section(c)'
         /\ (Recorded /\ ~native /\ ~stale => Posted(pkgJson))'
<1> USE PatchAssumption
<1>1. Cleaned /\ Others
  BY DEF IInv
<1>2. pc' = [pc EXCEPT ![c] = IF b THEN "reinstall" ELSE "done"]
  BY <1>1, CleanUpTypes
<1>3. pc'[c] = IF b THEN "reinstall" ELSE "done"
  BY <1>1, <1>2 DEF Cleaned
<1>4. /\ Undone(c)'
      /\ pkgJson' \in {pkgJson, before[c]}
      /\ native => pkgJson' = pkgJson
      /\ Recorded' => Recorded
      /\ b => lock' = lock
  BY <1>1, CleanUpTells
<1>5. (Recorded /\ ~native /\ ~stale => Posted(pkgJson))'
  <2>1. Recorded /\ ~native /\ ~stale => Posted(pkgJson) /\ Posted(before[c])
    BY DEF Needed, Section, Configured
  <2> QED
    BY <1>4, <2>1 DEF Posted
<1>6. ASSUME b
      PROVE  Section(c)'
  <2>1. pc'[c] = "reinstall"
    BY <1>3, <1>6
  <2>2. Restorable(c)'
    <3>1. Committed(before[c], c)' = Committed(before[c], c)
      BY DEF Committed
    <3> QED
      BY <1>4, <1>6, <2>1, <3>1 DEF Section, Restorable, Untouched, Committed
  <2>3. Owned(c)'
    BY <1>4, <2>1 DEF Owned, Written
  <2>4. Configured(c)'
    BY <1>4, <2>1 DEF Section, Configured, Posted, Applied
  <2>5. InTree(c)'
    BY <2>1 DEF InTree, Fixing, Applied
  <2> QED
    BY <2>2, <2>3, <2>4, <2>5 DEF Section
<1> QED
  BY <1>3, <1>5, <1>6 DEF Locked, Untouched, Written

\* The steps under the lock, one by one.
Keeps(c) ==
  /\ pc'[c] \in Locked => Section(c)'
  /\ (Recorded /\ ~native /\ ~stale => Posted(pkgJson))'

\* The patch file and a manifest that says it is not applied, or a write fails.
LEMMA WriteHolds ==
  ASSUME IInv, Needed, NEW c \in Calls, Section(c), Write(c)
  PROVE  Keeps(c)
<1> USE PatchAssumption
<1>1. Cleaned
  BY DEF IInv
<1>2. /\ pc[c] = "write" /\ files' = [files EXCEPT ![PackageOf[c]] = c]
      /\ UNCHANGED <<native, stale, pkgJson, snapshot, before>>
  BY DEF Write, chosen, history
<1>3. CASE /\ manifests' = [manifests EXCEPT
                ![PackageOf[c]] = Manifest(c, FALSE, FALSE)]
           /\ Continue(c, "test")
  <2>1. pc'[c] = "test" /\ lock' = lock
    BY <1>1, <1>3 DEF Continue, GoTo, Cleaned
  <2>2. /\ files'[PackageOf[c]] = c /\ manifests'[PackageOf[c]].by = c
        /\ ~manifests'[PackageOf[c]].applied
        /\ Recorded' => Recorded
    BY <1>1, <1>2, <1>3 DEF Cleaned, Manifest, Recorded
  <2>3. Restorable(c)'
    BY <1>2, <2>1 DEF Section, Restorable, Untouched, Committed
  <2>4. Owned(c)' /\ Configured(c)' /\ InTree(c)'
    BY <1>2, <2>1, <2>2
    DEF Section, Owned, Configured, InTree, Posted, Fixing, Applied, Written
  <2> QED
    BY <1>2, <2>2, <2>3, <2>4 DEF Keeps, Section, Needed, Posted
<1>4. CASE Finish(c, "threw") /\ UNCHANGED manifests
  <2>1. pc'[c] = "done"
    BY <1>1, <1>4 DEF Finish, GoTo, Cleaned
  <2> QED
    BY <1>2, <1>4, <2>1
    DEF Keeps, Needed, Recorded, Posted, Locked, Untouched, Written
<1> QED
  BY <1>3, <1>4 DEF Write

\* The choice of the test; without one there is nothing to reproduce.
LEMMA PrepareHolds ==
  ASSUME IInv, Needed, NEW c \in Calls, Section(c), PrepareTest(c)
  PROVE  Keeps(c)
<1> USE PatchAssumption
<1>1. /\ Cleaned /\ pc[c] = "test" /\ using' = [using EXCEPT ![c] = TestOf(c)]
      /\ UNCHANGED <<native, stale, snapshot, before, proof>>
  BY DEF PrepareTest, chosen, history, IInv
<1>2. CASE CleanUp(c, FALSE)
  BY <1>1, <1>2, CleanUpHolds DEF Keeps, Written
<1>3. CASE ~CleanUp(c, FALSE)
  <2>1. /\ Continue(c, IF TestOf(c) = "none" THEN "apply" ELSE "negative")
        /\ UNCHANGED <<pkgJson, files, manifests>>
    BY <1>3 DEF PrepareTest, NoCleanUp
  <2>2. /\ pc'[c] = IF TestOf(c) = "none" THEN "apply" ELSE "negative"
        /\ lock' = lock
    BY <1>1, <2>1 DEF Continue, GoTo, Cleaned
  <2>3. using'[c] = TestOf(c)
    BY <1>1 DEF IInv, Others
  <2>4. Restorable(c)'
    BY <1>1, <2>1, <2>2 DEF Section, Restorable, Untouched, Committed
  <2>5. Owned(c)' /\ Configured(c)'
    BY <1>1, <2>1, <2>2
    DEF Section, Owned, Configured, Recorded, Posted, Written, Applied
  <2>6. InTree(c)'
    BY <2>2, <2>3 DEF InTree, Reproducing, Fixing, Applied
  <2> QED
    BY <1>1, <2>1, <2>4, <2>5, <2>6 DEF Keeps, Section, Needed, Recorded, Posted
<1> QED
  BY <1>2, <1>3

\* The first phase: a genuine test that fails saw a vulnerable tree.
LEMMA NegativeHolds ==
  ASSUME IInv, Needed, NEW c \in Calls, Section(c), Negative(c)
  PROVE  Keeps(c)
<1> USE PatchAssumption
<1>1. /\ Cleaned /\ pc[c] = "negative"
      /\ UNCHANGED <<native, strict, diffOf, kindOf, stale, snapshot, before,
                     using, tree>>
  BY DEF Negative, chosen, history, Installed, IInv
<1>2. CASE CleanUp(c, FALSE)
  BY <1>1, <1>2, CleanUpHolds DEF Keeps, Written
<1>3. CASE ~CleanUp(c, FALSE)
  <2>1. /\ NegativePasses(TestRun(c)) /\ Continue(c, "apply")
        /\ proof' = [proof EXCEPT ![c] = {"negative"}]
        /\ UNCHANGED <<pkgJson, files, manifests>>
    BY <1>3 DEF Negative, NoCleanUp
  <2>2. pc'[c] = "apply" /\ lock' = lock /\ proof'[c] = {"negative"}
    BY <1>1, <2>1 DEF Continue, GoTo, Cleaned, IInv, Others
  <2>3. Restorable(c)'
    BY <1>1, <2>1, <2>2 DEF Section, Restorable, Untouched, Committed
  <2>4. Owned(c)' /\ Configured(c)'
    BY <1>1, <2>1, <2>2
    DEF Section, Owned, Configured, Recorded, Posted, Written, Applied
  <2>5. Reproducing(c) => Vulnerable(PackageOf[c])
    BY <2>1, GenuineTells DEF Reproducing
  <2>6. InTree(c)'
    BY <1>1, <2>2, <2>5 DEF InTree, Reproducing, Vulnerable, Fixing, Applied
  <2> QED
    BY <1>1, <2>1, <2>3, <2>4, <2>6 DEF Keeps, Section, Needed, Recorded, Posted
<1> QED
  BY <1>2, <1>3

\* package.json is read, and not yet changed.
LEMMA ReadHolds ==
  ASSUME IInv, Needed, NEW c \in Calls, Section(c), ReadPackageJson(c)
  PROVE  Keeps(c)
<1> USE PatchAssumption
<1>1. /\ Cleaned /\ pc[c] = "apply" /\ ~native
      /\ UNCHANGED <<native, strict, diffOf, kindOf, stale, snapshot, before,
                     using, proof, tree>>
  BY DEF ReadPackageJson, chosen, history, Installed, IInv
<1>2. CASE CleanUp(c, TRUE)
  BY <1>1, <1>2, CleanUpHolds DEF Keeps, Written
<1>3. CASE ~CleanUp(c, TRUE)
  <2>1. UNCHANGED <<pkgJson, files, manifests>>
    BY <1>3 DEF ReadPackageJson, NoCleanUp
  <2>2. pc'[c] \in {"add", "configure"} /\ lock' = lock
    BY <1>1, <1>3 DEF ReadPackageJson, Continue, GoTo, Cleaned
  <2>3. Restorable(c)'
    BY <1>1, <2>1, <2>2 DEF Section, Restorable, Untouched, Committed
  <2>4. Owned(c)' /\ Configured(c)'
    BY <1>1, <2>1, <2>2
    DEF Section, Owned, Configured, Recorded, Posted, Written, Applied
  <2>5. InTree(c)'
    BY <1>1, <2>2
    DEF Section, InTree, Reproducing, Vulnerable, Fixing, Applied
  <2> QED
    BY <1>1, <2>1, <2>3, <2>4, <2>5 DEF Keeps, Section, Needed, Recorded, Posted
<1> QED
  BY <1>2, <1>3

\* The package manager adds patch-package; the scripts stay.
LEMMA AddHolds ==
  ASSUME IInv, Needed, NEW c \in Calls, Section(c), AddTool(c)
  PROVE  Keeps(c)
<1> USE PatchAssumption
<1>1. /\ Cleaned /\ pc[c] = "add"
      /\ UNCHANGED <<native, strict, diffOf, kindOf, stale, snapshot, before,
                     using, proof, tree>>
  BY DEF AddTool, chosen, history, IInv
<1>2. CASE CleanUp(c, TRUE)
  BY <1>1, <1>2, CleanUpHolds DEF Keeps, Written
<1>3. CASE ~CleanUp(c, TRUE)
  <2>1. /\ pkgJson' = [pkgJson EXCEPT !.tool = TRUE] /\ Continue(c, "configure")
        /\ UNCHANGED <<files, manifests>>
    BY <1>3 DEF AddTool, NoCleanUp
  <2>2. pc'[c] = "configure" /\ lock' = lock
    BY <1>1, <2>1 DEF Continue, GoTo, Cleaned
  <2>3. pkgJson'.post = pkgJson.post
    BY <1>1, <2>1 DEF Cleaned, PackageJsons
  <2>4. Restorable(c)'
    BY <1>1, <2>1, <2>2 DEF Section, Restorable, Untouched, Committed
  <2>5. Owned(c)' /\ Configured(c)'
    BY <1>1, <2>1, <2>2
    DEF Section, Owned, Configured, Recorded, Posted, Written, Applied
  <2>6. InTree(c)'
    BY <1>1, <2>2
    DEF Section, InTree, Reproducing, Vulnerable, Fixing, Applied
  <2> QED
    BY <1>1, <2>1, <2>3, <2>4, <2>5, <2>6
    DEF Keeps, Section, Needed, Recorded, Posted
<1> QED
  BY <1>2, <1>3

\* The script is in the package.json that is written.
LEMMA ConfigureHolds ==
  ASSUME IInv, Needed, NEW c \in Calls, Section(c), Configure(c)
  PROVE  Keeps(c)
<1> USE PatchAssumption
<1>1. /\ Cleaned /\ pc[c] = "configure"
      /\ UNCHANGED <<native, strict, diffOf, kindOf, stale, snapshot, before,
                     using, proof, tree, files, manifests>>
  BY DEF Configure, chosen, history, Files, Installed, IInv
<1>2. CASE /\ pkgJson' = [view[c] EXCEPT !.post = WithPatchPackage(@)]
           /\ Continue(c, "install")
  <2>1. pc'[c] = "install" /\ lock' = lock
    BY <1>1, <1>2 DEF Continue, GoTo, Cleaned
  <2>2. Posted(pkgJson')
    <3>1. view[c] \in PackageJsons
      BY DEF IInv, Others
    <3> QED
      BY <1>2, <3>1 DEF PackageJsons, WithPatchPackage, Posted
  <2>3. Restorable(c)'
    BY <1>1, <2>1 DEF Section, Restorable, Untouched, Committed
  <2>4. Owned(c)' /\ Configured(c)'
    BY <1>1, <2>1, <2>2
    DEF Section, Owned, Configured, Recorded, Posted, Written, Applied
  <2>5. InTree(c)'
    BY <1>1, <2>1
    DEF Section, InTree, Reproducing, Vulnerable, Fixing, Applied
  <2> QED
    BY <1>1, <2>2, <2>3, <2>4, <2>5 DEF Keeps, Section, Posted
<1>3. CASE Finish(c, "threw") /\ UNCHANGED pkgJson
  <2>1. pc'[c] = "done"
    BY <1>1, <1>3 DEF Finish, GoTo, Cleaned
  <2> QED
    BY <1>1, <1>3, <2>1
    DEF Keeps, Needed, Recorded, Posted, Locked, Untouched, Written
<1> QED
  BY <1>2, <1>3 DEF Configure

\* The package manager's own command puts the diff into the tree.
LEMMA NativeHolds ==
  ASSUME IInv, Needed, NEW c \in Calls, Section(c), Native(c)
  PROVE  Keeps(c)
<1> USE PatchAssumption
<1>1. /\ Cleaned /\ pc[c] = "apply" /\ native
      /\ UNCHANGED <<native, strict, diffOf, kindOf, stale, snapshot, before,
                     using, proof, files, manifests, lock>>
  BY DEF Native, Continue, chosen, history, Files, IInv
<1>2. /\ pc'[c] \in {"aborted", "validate"}
      /\ pkgJson' \in {pkgJson, Committed(pkgJson, c)}
      /\ pc'[c] = "validate" => tree'[PackageOf[c]] = c
  BY <1>1 DEF Native, Continue, GoTo, Cleaned, IInv, Others
<1>3. Restorable(c)'
  <2>1. pkgJson = before[c]
    BY <1>1 DEF Section, Restorable, Untouched
  <2>2. Committed(before[c], c)' = Committed(before[c], c)
    BY <1>1 DEF Committed
  <2> QED
    BY <1>1, <1>2, <2>1, <2>2 DEF Section, Restorable, Untouched
<1>4. Owned(c)' /\ Configured(c)'
  BY <1>1, <1>2
  DEF Section, Owned, Configured, Recorded, Posted, Written, Applied
<1>5. InTree(c)'
  BY <1>1, <1>2 DEF Section, InTree, Fixing, Applied
<1> QED
  BY <1>1, <1>3, <1>4, <1>5 DEF Keeps, Section

\* What it had not finished is cleaned up, but for package.json.
LEMMA AbortHolds ==
  ASSUME IInv, Needed, NEW c \in Calls, Section(c), Abort(c)
  PROVE  Keeps(c)
BY CleanUpHolds DEF Abort, chosen, Keeps, Written

\* So does the script, or in silence it does not.
LEMMA InstallHolds ==
  ASSUME IInv, Needed, NEW c \in Calls, Section(c), Install(c)
  PROVE  Keeps(c)
<1> USE PatchAssumption
<1>1. /\ Cleaned /\ pc[c] = "install"
      /\ UNCHANGED <<native, strict, diffOf, kindOf, stale, snapshot, before,
                     using, proof>>
  BY DEF Install, chosen, history, IInv
<1>2. CASE CleanUp(c, TRUE)
  BY <1>1, <1>2, CleanUpHolds DEF Keeps, Written
<1>3. CASE ~CleanUp(c, TRUE)
  <2>1. /\ \E fetched, tool \in BOOLEAN : InstallAs(fetched, tool, TRUE)
        /\ Continue(c, "validate")
        /\ UNCHANGED <<pkgJson, files, manifests>>
    BY <1>3 DEF Install, NoCleanUp
  <2>2. pc'[c] = "validate" /\ lock' = lock
    BY <1>1, <2>1 DEF Continue, GoTo, Cleaned
  <2>3. ~native /\ Posted(pkgJson) /\ files[PackageOf[c]] = c
    BY <1>1 DEF Section, Restorable, Configured, Owned, Written
  <2>4. \/ tree'[PackageOf[c]] = c
        \/ ~strict /\ tree'[PackageOf[c]] \in {tree[PackageOf[c]], "none"}
    BY <1>1, <2>1, <2>3, InstallTells DEF IInv
  <2>5. Restorable(c)'
    BY <1>1, <2>1, <2>2, <2>3 DEF Section, Restorable, Untouched, Committed
  <2>6. Owned(c)' /\ Configured(c)'
    BY <1>1, <2>1, <2>2, <2>3
    DEF Section, Owned, Configured, Recorded, Posted, Written, Applied
  <2>7. InTree(c)'
    BY <1>1, <2>2, <2>3, <2>4
    DEF Section, InTree, Reproducing, Vulnerable, Fixing, Applied
  <2> QED
    BY <1>1, <2>1, <2>5, <2>6, <2>7 DEF Keeps, Section, Needed, Recorded, Posted
<1> QED
  BY <1>2, <1>3

\* The project's tests change nothing; without a proof none is claimed.
LEMMA ValidateHolds ==
  ASSUME IInv, Needed, NEW c \in Calls, Section(c), Validate(c)
  PROVE  Keeps(c)
<1> USE PatchAssumption
<1>1. /\ Cleaned /\ pc[c] = "validate"
      /\ UNCHANGED <<native, strict, diffOf, kindOf, stale, snapshot, before,
                     using, proof, tree>>
  BY DEF Validate, chosen, history, Installed, IInv
<1>2. CASE CleanUp(c, ~native)
  <2>1. (~native) \in BOOLEAN
    OBVIOUS
  <2> QED
    BY <1>1, <1>2, <2>1, CleanUpHolds DEF Keeps, Written
<1>3. CASE ~CleanUp(c, ~native)
  <2>1. /\ Continue(c, IF using[c] = "none" THEN "final" ELSE "positive")
        /\ UNCHANGED <<pkgJson, files, manifests>>
    BY <1>3 DEF Validate, NoCleanUp
  <2>2. /\ pc'[c] \in {"positive", "final"} /\ lock' = lock
        /\ pc'[c] = "final" => using[c] = "none"
    BY <1>1, <2>1 DEF Continue, GoTo, Cleaned
  <2>3. Restorable(c)'
    BY <1>1, <2>1, <2>2 DEF Section, Restorable, Untouched, Committed
  <2>4. Owned(c)' /\ Configured(c)'
    BY <1>1, <2>1, <2>2
    DEF Section, Owned, Configured, Recorded, Posted, Written, Applied
  <2>5. using[c] = "none" => "positive" \notin proof[c]
    BY DEF IInv, Judged
  <2>6. InTree(c)'
    BY <1>1, <2>2, <2>5
    DEF Section, InTree, Reproducing, Vulnerable, Fixing, Applied
  <2> QED
    BY <1>1, <2>1, <2>3, <2>4, <2>6 DEF Keeps, Section, Needed, Recorded, Posted
<1> QED
  BY <1>2, <1>3

\* The second phase: a genuine test that passes saw the call's diff in the tree.
LEMMA PositiveHolds ==
  ASSUME IInv, Needed, NEW c \in Calls, Section(c), Positive(c)
  PROVE  Keeps(c)
<1> USE PatchAssumption
<1>1. /\ Cleaned /\ pc[c] = "positive"
      /\ UNCHANGED <<native, strict, diffOf, kindOf, stale, snapshot, before,
                     using, tree>>
  BY DEF Positive, chosen, history, Installed, IInv
<1>2. CASE CleanUp(c, ~native)
  <2>1. (~native) \in BOOLEAN
    OBVIOUS
  <2> QED
    BY <1>1, <1>2, <2>1, CleanUpHolds DEF Keeps, Written
<1>3. CASE ~CleanUp(c, ~native)
  <2>1. /\ PositivePasses(TestRun(c)) /\ Continue(c, "final")
        /\ proof' = [proof EXCEPT ![c] = @ \cup {"positive"}]
        /\ UNCHANGED <<pkgJson, files, manifests>>
    BY <1>3 DEF Positive, NoCleanUp
  <2>2. "negative" \in proof[c] => "negative" \in proof'[c]
    BY <2>1 DEF IInv, Others
  <2>3. pc'[c] = "final" /\ lock' = lock
    BY <1>1, <2>1 DEF Continue, GoTo, Cleaned
  <2>4. using[c] # "none" /\ "negative" \in proof[c]
    BY <1>1 DEF Section, InTree, Applied, IInv, Chosen
  <2>5. Reproducing(c)
    <3>1. kindOf[using[c]] # "stuck"
      BY <2>1, PositiveTells DEF TestRun
    <3> QED
      BY <2>4, <3>1 DEF IInv, Judged, Reproducing
  <2>6. tree[PackageOf[c]] = c
    BY <1>1, <2>1, <2>5, GenuineTells
    DEF Section, InTree, Reproducing, Applied
  <2>7. Restorable(c)'
    BY <1>1, <2>1, <2>3 DEF Section, Restorable, Untouched, Committed
  <2>8. Owned(c)' /\ Configured(c)'
    BY <1>1, <2>1, <2>3
    DEF Section, Owned, Configured, Recorded, Posted, Written, Applied
  <2>9. InTree(c)'
    BY <1>1, <2>2, <2>3, <2>4, <2>6 DEF InTree, Fixing, Applied
  <2> QED
    BY <1>1, <2>1, <2>7, <2>8, <2>9 DEF Keeps, Section, Needed, Recorded, Posted
<1> QED
  BY <1>2, <1>3

\* The last manifest names the patch as applied with its script in place.
LEMMA LastHolds ==
  ASSUME IInv, Needed, NEW c \in Calls, Section(c), Record(c) \/ Reinstall(c)
  PROVE  Keeps(c)
<1> USE PatchAssumption
<1>1. Cleaned /\ UNCHANGED <<native, stale, pkgJson>>
  BY DEF Record, Reinstall, chosen, history, IInv
<1>2. pc'[c] = "done"
  BY <1>1 DEF Record, Reinstall, Finish, GoTo, Cleaned
<1>3. UNCHANGED manifests \/ (pc[c] = "final" /\ Record(c))
  BY DEF Record, Reinstall, Files
<1>4. (Recorded /\ ~native /\ ~stale => Posted(pkgJson))'
  BY <1>1, <1>3
  DEF Record, Section, Configured, Applied, Needed, Recorded, Posted
<1> QED
  BY <1>2, <1>4 DEF Keeps, Locked, Untouched, Written

-----------------------------------------------------------------------------
(* The second invariant *)

\* A call moves itself only, and ends itself only.
LEMMA OwnMoves ==
  ASSUME IInv, NEW c \in Calls, Call(c)
  PROVE  /\ \E s \in Steps : pc' = [pc EXCEPT ![c] = s]
         /\ result' = result \/ \E how \in Ends : result' = [result EXCEPT ![c] = how]
<1>1. Cleaned /\ Others
  BY DEF IInv
<1>2. ASSUME NEW b \in BOOLEAN, CleanUp(c, b)
      PROVE  /\ \E s \in Steps : pc' = [pc EXCEPT ![c] = s]
             /\ \/ result' = result
                \/ \E how \in Ends : result' = [result EXCEPT ![c] = how]
  <2>1. pc' = [pc EXCEPT ![c] = IF b THEN "reinstall" ELSE "done"]
    BY <1>1, <1>2, CleanUpTypes
  <2> QED
    BY <1>2, <2>1 DEF CleanUp, Continue, Finish, Steps, Ends
<1>3. (~native) \in BOOLEAN
  OBVIOUS
<1>4. CASE \E b \in BOOLEAN : CleanUp(c, b)
  BY <1>2, <1>4
<1>5. CASE ~ \E b \in BOOLEAN : CleanUp(c, b)
  <2>1. \/ \E s \in Steps : Continue(c, s)
        \/ \E how \in Ends : Finish(c, how)
        \/ Refuse(c) \/ Wait(c) \/ TimeOut(c) \/ Lock(c)
    BY <1>3, <1>5
    DEF Call, Write, PrepareTest, Negative, ReadPackageJson, AddTool, Configure,
        Native, Abort, Install, Reinstall, Validate, Positive, Record, Steps, Ends
  <2> QED
    BY <2>1
    DEF Continue, Finish, GoTo, Refuse, Wait, TimeOut, Lock, Steps, Ends
<1> QED
  BY <1>4, <1>5

\* A call under the lock keeps its section, and no other call gets there.
LEMMA LockedCallKeeps ==
  ASSUME IInv, Needed, Held, NEW c \in Calls, Call(c), pc[c] \in Locked
  PROVE  Needed' /\ Held'
<1> USE PatchAssumption
<1>1. Cleaned /\ Section(c)
  BY DEF IInv, Held
<1>2. PICK s \in Steps : pc' = [pc EXCEPT ![c] = s]
  BY OwnMoves
<1>3. \A d \in Calls : d # c => pc'[d] \notin Locked
  BY <1>1, <1>2 DEF Held, Section, Restorable, Cleaned
<1>4. ~(Refuse(c) \/ Wait(c) \/ TimeOut(c) \/ Lock(c))
  BY DEF Refuse, Wait, TimeOut, Lock, Locked, Untouched, Written
<1>5. Keeps(c)
  BY <1>1, <1>4, WriteHolds, PrepareHolds, NegativeHolds, ReadHolds, AddHolds,
     ConfigureHolds, NativeHolds, AbortHolds, InstallHolds, ValidateHolds, PositiveHolds,
     LastHolds
  DEF Call
<1>6. pc'["bump"] = pc["bump"] /\ stale' = stale
  <2>1. stale' = stale
    BY <1>4
    DEF Call, Write, PrepareTest, Negative, ReadPackageJson, AddTool, Configure,
        Native, Abort, Install, Reinstall, Validate, Positive, Record, history
  <2> QED
    BY <1>1, <1>2, <2>1 DEF Cleaned
<1> QED
  BY <1>3, <1>5, <1>6 DEF Keeps, Held, Needed

\* A call that gets the lock finds nobody under it, and a package.json to put
\* back; one before the lock changes nothing.
LEMMA OtherCallKeeps ==
  ASSUME IInv, Needed, Held, NEW c \in Calls, Call(c), pc[c] \notin Locked
  PROVE  Needed' /\ Held'
<1> USE PatchAssumption
<1>1. Cleaned
  BY DEF IInv
<1>2. Refuse(c) \/ Wait(c) \/ TimeOut(c) \/ Lock(c)
  BY DEF Call, Write, PrepareTest, Negative, ReadPackageJson, AddTool, Configure,
         Native, Abort, Install, Reinstall, Validate, Positive, Record, Locked,
         Untouched, Written
<1>3. UNCHANGED <<native, strict, diffOf, kindOf, pkgJson, files, manifests,
                  tree, using, proof, kept, stale>>
  BY <1>2 DEF Refuse, Wait, TimeOut, Lock, chosen, history, Files, Installed
<1>4. pc'["bump"] = pc["bump"]
  BY <1>1, <1>2 DEF Refuse, Wait, TimeOut, Lock, GoTo, Cleaned
<1>5. Needed'
  BY <1>3, <1>4 DEF Needed, Recorded, Posted
<1>6. CASE Refuse(c) \/ Wait(c) \/ TimeOut(c)
  <2>1. UNCHANGED <<lock, snapshot, before>>
    BY <1>6 DEF Refuse, Wait, TimeOut, history
  <2>2. pc'[c] \notin Locked /\ \A d \in Calls : d # c => pc'[d] = pc[d]
    BY <1>1, <1>6
    DEF Refuse, Wait, TimeOut, GoTo, Cleaned, Locked, Untouched, Written
  <2> QED
    BY <1>3, <1>5, <2>1, <2>2
    DEF Held, Section, Restorable, Owned, Configured, InTree, Reproducing,
        Vulnerable, Recorded, Posted, Undone, Committed
<1>7. CASE Lock(c)
  <2>1. /\ lock = "free" /\ lock' = c /\ pc'[c] = "write"
        /\ \A d \in Calls : d # c => pc'[d] = pc[d]
    BY <1>1, <1>7 DEF Lock, GoTo, Cleaned
  <2>2. \A d \in Calls : pc[d] \notin Locked
    BY <2>1 DEF Held, Section, Restorable
  <2>3. snapshot'[c] = pkgJson /\ before'[c] = pkgJson
    BY <1>7 DEF Lock, Snapshot, IInv, Others
  <2>4. Section(c)'
    BY <1>3, <1>5, <2>1, <2>3
    DEF Section, Restorable, Owned, Configured, InTree, Needed, Recorded,
        Posted, Written, Fixing, Applied
  <2> QED
    BY <1>5, <2>1, <2>2, <2>4 DEF Held
<1> QED
  BY <1>2, <1>6, <1>7

\* A bump finds nobody under the lock when it writes; it writes back the script,
\* unless it read package.json before that was there.
LEMMA BumpHolds ==
  ASSUME IInv, Needed, Held, BumpReads \/ BumpWrites
  PROVE  Needed' /\ Held'
<1> USE PatchAssumption
<1>1. Cleaned /\ Others
  BY DEF IInv
<1>2. /\ UNCHANGED <<native, strict, diffOf, kindOf, files, manifests, tree, lock,
                     snapshot, before, using, proof, kept>>
      /\ \A c \in Calls : pc'[c] = pc[c]
  BY <1>1
  DEF BumpReads, BumpWrites, GoTo, chosen, history, Files, Installed, Cleaned
<1>3. CASE BumpReads
  <2>1. UNCHANGED <<pkgJson, stale>> /\ ~stale
    BY <1>3 DEF BumpReads, history, Needed
  <2> QED
    BY <1>2, <2>1
    DEF Needed, Held, Section, Restorable, Owned, Configured, InTree,
        Reproducing, Vulnerable, Recorded, Posted, Undone, Committed
<1>4. CASE BumpWrites
  <2>1. /\ lock = "free" /\ pc'["bump"] = "done" /\ ~stale
        /\ pkgJson' = [view["bump"] EXCEPT !.bumped = TRUE]
        /\ stale' = (view["bump"] # pkgJson)
    BY <1>1, <1>4 DEF BumpWrites, GoTo, Cleaned, Needed
  <2>2. Held'
    BY <1>2, <2>1 DEF Held, Section, Restorable
  <2>3. ~stale' => pkgJson'.post = pkgJson.post
    BY <1>1, <2>1 DEF Cleaned, PackageJsons
  <2>4. Needed'
    BY <1>2, <2>1, <2>3 DEF Needed, Recorded, Posted
  <2> QED
    BY <2>2, <2>4
<1> QED
  BY <1>3, <1>4

\* Both invariants hold of every reachable state.
LEMMA SectionsHold == Spec => [](IInv /\ Needed /\ Held)
<1>1. Init => Needed /\ Held
  <2> SUFFICES ASSUME Init PROVE Needed /\ Held
    OBVIOUS
  <2>1. ~Recorded /\ ~stale
    BY DEF Init, Recorded, NoManifest
  <2>2. \A c \in Calls : pc[c] \notin Locked
    BY DEF Init, Locked, Untouched, Written
  <2> QED
    BY <2>1, <2>2 DEF Needed, Held
<1>2. ASSUME IInv, Needed, Held, [Next]_vars
      PROVE  Needed' /\ Held'
  <2>1. CASE \E c \in Calls : Call(c)
    BY <1>2, <2>1, LockedCallKeeps, OtherCallKeeps
  <2>2. CASE BumpReads \/ BumpWrites
    BY <1>2, <2>2, BumpHolds
  <2>3. CASE UNCHANGED vars
    BY <1>2, <2>3
    DEF vars, Needed, Held, Section, Restorable, Owned, Configured, InTree,
        Reproducing, Vulnerable, Recorded, Posted, Undone, Committed
  <2> QED
    BY <1>2, <2>1, <2>2, <2>3 DEF Next
<1> QED
  BY <1>1, <1>2, Invariance, PTL DEF Spec

-----------------------------------------------------------------------------
(* What it gives *)

\* While a manifest says a patch is applied, package.json has the script that
\* puts it in again, but for a bump that read it before the patch.
THEOREM ScriptsStay == Spec => []PatchStaysConfigured
<1>1. Needed => PatchStaysConfigured
  BY DEF Needed, PatchStaysConfigured, Recorded, Posted
<1> QED
  BY <1>1, SectionsHold, PTL

\* A step in which a call ends is its own.
LEMMA EndIsOwn ==
  ASSUME IInv, [Next]_vars, NEW c \in Calls, result'[c] # result[c]
  PROVE  Call(c)
<1>1. result \in [Calls -> Ends \cup {"none"}]
  BY DEF IInv, Cleaned
<1>2. PICK d \in Calls : Call(d)
  BY DEF Next, vars, BumpReads, BumpWrites
<1>3. \/ result' = result
      \/ \E how \in Ends : result' = [result EXCEPT ![d] = how]
  BY <1>2, OwnMoves
<1> QED
  BY <1>1, <1>2, <1>3

\* A call ends as failed in a cleanup, or in the install that follows one.
LEMMA FailsAfterCleanUp ==
  ASSUME IInv, NEW c \in Calls, Call(c), result'[c] = "failed",
         result[c] = "none"
  PROVE  /\ pc[c] \in Locked
         /\ Reinstall(c) \/ \E b \in BOOLEAN : CleanUp(c, b)
<1>1. result \in [Calls -> Ends \cup {"none"}]
  BY DEF IInv, Cleaned
<1>2. (~native) \in BOOLEAN
  OBVIOUS
<1>3. ~(Refuse(c) \/ Wait(c) \/ TimeOut(c) \/ Lock(c))
  BY <1>1 DEF Refuse, Wait, TimeOut, Lock
<1>4. pc[c] \in Locked
  BY <1>3
  DEF Call, Write, PrepareTest, Negative, ReadPackageJson, AddTool, Configure,
      Native, Abort, Install, Reinstall, Validate, Positive, Record, Locked, Untouched,
      Written
<1>5. ~(\E s \in Steps : Continue(c, s)) /\ ~Finish(c, "threw")
        /\ ~Finish(c, "applied")
  BY <1>1 DEF Continue, Finish
<1> QED
  BY <1>2, <1>3, <1>4, <1>5
  DEF Call, Write, PrepareTest, Negative, ReadPackageJson, AddTool, Configure,
      Native, Abort, Install, Validate, Positive, Record, Steps

\* It cleans up while its files are written, and only once.
LEMMA FailingStep ==
  ASSUME IInv, NEW c \in Calls, Call(c), result'[c] = "failed",
         result[c] = "none", ~Reinstall(c)
  PROVE  pc[c] \in Written /\ UNCHANGED <<native, before>>
<1>1. result \in [Calls -> Ends \cup {"none"}]
  BY DEF IInv, Cleaned
<1>2. ~(Refuse(c) \/ Wait(c) \/ TimeOut(c) \/ Lock(c))
  BY <1>1 DEF Refuse, Wait, TimeOut, Lock
<1>3. ~Write(c) /\ ~Configure(c) /\ ~Record(c) /\ ~Native(c)
  BY <1>1 DEF Write, Configure, Record, Native, Continue, Finish
<1> QED
  BY <1>2, <1>3
  DEF Call, PrepareTest, Negative, ReadPackageJson, AddTool, Abort, Install,
      Validate, Positive, Written, chosen

\* Whatever step it fails at, a call has undone what it wrote when it ends, but
\* for what its cleanup failed to take back (cleanupPatchArtifacts) and the
\* entry of a native patch-commit (applyNativePatch).
THEOREM FailuresCleanUp == Spec => FailureCleansUp
<1> USE PatchAssumption
<1>1. ASSUME IInv, Held, NEW c \in Calls, Call(c), result'[c] = "failed",
             result[c] = "none"
      PROVE  Undone(c)'
  <2>1. Cleaned /\ Section(c)
    BY <1>1, FailsAfterCleanUp DEF IInv, Held
  <2>3. CASE Reinstall(c)
    <3>1. pc[c] = "reinstall" /\ UNCHANGED <<files, manifests, pkgJson, before, kept, native>>
      BY <2>3 DEF Reinstall, Files, history, chosen
    <3> QED
      BY <2>1, <3>1 DEF Section, Owned, Undone, Committed
  <2>2. CASE \E b \in BOOLEAN : CleanUp(c, b)
    <3>1. CASE ~Reinstall(c)
      <4>1. pc[c] \in Written /\ UNCHANGED <<native, before>>
        BY <1>1, <3>1, FailingStep
      <4> QED
        BY <2>1, <2>2, <4>1, CleanUpTells
    <3> QED
      BY <2>3, <3>1
  <2> QED
    BY <1>1, <2>2, <2>3, FailsAfterCleanUp
<1>2. IInv /\ Held /\ [Next]_vars =>
        [\A c \in Calls : result'[c] = "failed" /\ result[c] = "none" =>
           Undone(c)']_vars
  BY <1>1, EndIsOwn
<1> QED
  BY <1>2, SectionsHold, PTL DEF Spec, FailureCleansUp

\* A call that reports its patch as applied leaves its files, and its diff in
\* node_modules unless patch-package failed in silence and no proof was asked.
THEOREM AppliedPatchIsThere == Spec => AppliedIsInTree
<1> USE PatchAssumption
<1>1. ASSUME IInv, Held, NEW c \in Calls, Call(c), result'[c] = "applied",
             result[c] = "none"
      PROVE  /\ files'[PackageOf[c]] = c /\ manifests'[PackageOf[c]].by = c
             /\ \/ tree'[PackageOf[c]] = c
                \/ ~native /\ ~strict /\ "positive" \notin proof[c]
  <2>1. /\ result \in [Calls -> Ends \cup {"none"}] /\ Cleaned
        /\ (~native) \in BOOLEAN
    BY <1>1 DEF IInv, Cleaned
  <2>2. ~(Refuse(c) \/ Wait(c) \/ TimeOut(c) \/ Lock(c) \/ Reinstall(c))
    BY <1>1, <2>1 DEF Refuse, Wait, TimeOut, Lock, Reinstall, Finish
  <2>3. ~(\E s \in Steps : Continue(c, s)) /\ ~Finish(c, "threw")
          /\ ~(\E b \in BOOLEAN : CleanUp(c, b))
    BY <1>1, <2>1 DEF Continue, Finish, CleanUp
  <2>4. Record(c) /\ ~Finish(c, "threw")
    BY <1>1, <2>1, <2>2, <2>3
    DEF Call, Write, PrepareTest, Negative, ReadPackageJson, AddTool, Configure,
        Native, Abort, Install, Validate, Positive, Steps
  <2>5. /\ pc[c] = "final" /\ UNCHANGED <<files, tree>>
        /\ manifests'[PackageOf[c]].by = c
    BY <2>1, <2>4 DEF Record, Manifest, Installed, Cleaned
  <2>6. Section(c)
    BY <1>1, <2>5 DEF Held, Locked, Written
  <2> QED
    BY <2>5, <2>6 DEF Section, Owned, InTree, Written, Applied
<1>2. IInv /\ Held /\ [Next]_vars =>
        [\A c \in Calls : result'[c] = "applied" /\ result[c] = "none" =>
           LET p == PackageOf[c] IN
           /\ files'[p] = c /\ manifests'[p].by = c
           /\ \/ tree'[p] = c
              \/ ~native /\ ~strict /\ "positive" \notin proof[c]]_vars
  BY <1>1, EndIsOwn
<1> QED
  BY <1>2, SectionsHold, PTL DEF Spec, AppliedIsInTree

=============================================================================
