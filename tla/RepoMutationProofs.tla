-------------------------- MODULE RepoMutationProofs --------------------------
(***************************************************************************)
(* Theorems about RepoMutation, for any number of runs of any kinds on any *)
(* entries, with any number of processes that die.                         *)
(*                                                                         *)
(* Mutual exclusion is not enough to say what a run leaves behind: the     *)
(* invariant follows the one run under the lock through its steps          *)
(* (Section), says whose rewrites may be in the sources (Rewrites) and     *)
(* until when a manifest that was read is the one on disk (Views).  For    *)
(* runs that follow one another (Alone) it maps each of them to an atomic  *)
(* edit.                                                                   *)
(***************************************************************************)
EXTENDS RepoMutation, TLAPS

-----------------------------------------------------------------------------
(* The inductive invariant, by parts *)

\* The steps before the manifest is written, from then to the roll back, and
\* those that come after a successful install.
Unwritten == {"negative", "write"}
Written == {"install", "validate", "revalidate", "positive", "dedupe",
            "rollback"}
Settling == {"validate", "revalidate", "positive", "dedupe"}

\* What a run under the lock has made of the tree so far.
Section(r) ==
  /\ lock = r
  /\ pc[r] \in Unwritten =>
       manifest = before[r] /\ (unclean \/ installed = manifest)
  /\ pc[r] \in Written => manifest = Edited(r)
  /\ pc[r] \in Settling => installed = manifest /\ ~unclean
  /\ pc[r] \in {"positive", "dedupe"} => tested[r] = Tree
  /\ pc[r] = "reinstall" => manifest = view[r]

Guarded == \A r \in Runs : pc[r] \in Critical => Section(r)

Clean == lock = "free" /\ ~unclean => installed = manifest

\* Only runs with a proof run its phases, and only those that can dedupe do.
\* Only a run whose validation passed, or whose proof failed after that, has its
\* rewrites in the sources.
Rewrites ==
  \A r \in Runs :
    /\ pc[r] \in {"negative", "positive"} => r \in Proving
    /\ pc[r] = "dedupe" => r \in Deduping
    /\ r \in rewritten =>
         \/ pc[r] \in {"revalidate", "positive", "done"}
         \/ pc[r] \in {"rollback", "reinstall"} /\ Rejected(r)

\* Up to its own change, a run whose read no section's end follows has the
\* manifest as it is.
Views ==
  \A r \in Runs :
    /\ readAt[r] <= sections
    /\ readAt[r] = sections =>
         (pc[r] \in Unwritten \/ (pc[r] = "waiting" /\ lock = "free")
            => view[r] = manifest)

\* Runs that follow one another: one is busy at a time, and what it read is
\* what it finds.
Alone ==
  /\ \A r \in Runs : result[r] = "none" <=> pc[r] # "done"
  /\ ~overlap =>
       /\ \A r, s \in Runs : Busy(r) /\ Busy(s) => r = s
       /\ \A r \in Runs :
            /\ pc[r] \in Unwritten \cup {"waiting"} => view[r] = manifest
            /\ pc[r] \in Critical => before[r] = view[r]

IInv == TypeOK /\ Guarded /\ Clean /\ Rewrites /\ Views /\ Alone

-----------------------------------------------------------------------------
(* Type correctness *)

\* The types of what every step writes, and of the tree and the histories.
ControlTypes ==
  /\ lock \in Runs \cup {"free"}
  /\ pc \in [Runs -> Steps]
  /\ result \in [Runs -> Results]
  /\ sections \in Nat
  /\ crashes \in 0..MaxCrashes

TreeTypes ==
  /\ overlap \in BOOLEAN
  /\ manifest \in Manifests
  /\ installed \in Manifests
  /\ rewritten \subseteq Runs
  /\ deduped \subseteq Runs
  /\ view \in [Runs -> Manifests]
  /\ readAt \in [Runs -> Nat]
  /\ before \in [Runs -> Manifests]
  /\ tested \in [Runs -> Trees]
  /\ unclean \in BOOLEAN

\* Together they are the type invariant.
LEMMA TypeParts == TypeOK <=> ControlTypes /\ TreeTypes
BY DEF TypeOK, ControlTypes, TreeTypes

\* What a run writes is a manifest.
LEMMA EditedType ==
  ASSUME TreeTypes, NEW r \in Runs
  PROVE  Edited(r) \in Manifests /\ Restored(r) \in Manifests
BY MutationAssumption DEF TreeTypes, Manifests, Edited, Restored

\* A step under the lock goes on to another one ...
LEMMA ContinueTypes ==
  ASSUME ControlTypes, NEW r \in Runs, NEW step \in Steps, Continue(r, step),
         UNCHANGED crashes
  PROVE  ControlTypes'
BY DEF ControlTypes, Continue, GoTo

\* ... or ends.
LEMMA FinishTypes ==
  ASSUME ControlTypes, NEW r \in Runs, NEW how \in Results, Finish(r, how),
         UNCHANGED crashes
  PROVE  ControlTypes'
BY DEF ControlTypes, Finish, Steps

\* Where a run may go from a step under the lock.
LEMMA InsideMoves ==
  ASSUME NEW r \in Runs,
         \/ Negative(r) \/ Write(r) \/ Install(r) \/ Validate(r)
         \/ Revalidate(r) \/ Positive(r) \/ Dedupe(r) \/ Rollback(r)
         \/ Reinstall(r)
  PROVE  /\ \/ \E step \in Steps : Continue(r, step)
            \/ \E how \in Results : Finish(r, how)
         /\ UNCHANGED <<crashes, view, before, readAt>>
         /\ pc[r] \in Critical
<1>1. CASE Negative(r)
  BY <1>1 DEF Negative, Steps, Results, Critical
<1>2. CASE Write(r)
  BY <1>2 DEF Write, Steps, Results, Critical
<1>3. CASE Install(r)
  BY <1>3 DEF Install, Steps, Results, Critical
<1>4. CASE Validate(r)
  BY <1>4 DEF Validate, Accept, Succeed, AfterRewrite, Steps, Results, Critical
<1>5. CASE Revalidate(r)
  BY <1>5 DEF Revalidate, Accept, Succeed, Steps, Results, Critical
<1>6. CASE Positive(r)
  BY <1>6 DEF Positive, Succeed, Steps, Results, Critical
<1>7. CASE Rollback(r)
  BY <1>7 DEF Rollback, Steps, Results, Critical
<1>8. CASE Reinstall(r)
  BY <1>8 DEF Reinstall, Steps, Results, Critical
<1>9. CASE Dedupe(r)
  BY <1>9 DEF Dedupe, Steps, Results, Critical
<1> QED
  BY <1>1, <1>2, <1>3, <1>4, <1>5, <1>6, <1>7, <1>8, <1>9

\* A step outside leaves the tree, what was tested and the sections alone.
LEMMA OutsideMoves ==
  ASSUME NEW r \in Runs,
         Refuse(r) \/ Read(r) \/ Acquire(r) \/ TimeOut(r) \/ Crash(r)
  PROVE  UNCHANGED <<manifest, installed, rewritten, deduped, sections, tested,
                     unclean>>
BY DEF Refuse, Read, Acquire, TimeOut, Crash

\* Every step of a run keeps the types.
LEMMA TypeStep ==
  ASSUME TypeOK, NEW r \in Runs, Step(r) \/ Crash(r), UNCHANGED overlap
  PROVE  TypeOK'
<1> USE TypeParts
<1>1. CASE \/ Negative(r) \/ Write(r) \/ Install(r) \/ Validate(r)
           \/ Revalidate(r) \/ Positive(r) \/ Dedupe(r) \/ Rollback(r)
           \/ Reinstall(r)
  <2>1. ControlTypes'
    BY <1>1, InsideMoves, ContinueTypes, FinishTypes
  <2>2. /\ manifest' \in {manifest, Edited(r), Restored(r)}
        /\ installed' \in {installed, manifest}
        /\ unclean' \in BOOLEAN
    BY <1>1 DEF Negative, Write, Install, Validate, Revalidate, Positive,
                Dedupe, Rollback, Reinstall, Reinstalled, TypeOK
  <2>3. rewritten' \in {rewritten, rewritten \cup {r}, rewritten \ {r}}
    BY <1>1 DEF Negative, Write, Install, Validate, Revalidate, Positive,
                Dedupe, Rollback, Reinstall, RewritesUndone, Accept
  <2>4. tested' = tested \/ tested' = [tested EXCEPT ![r] = Tree]
    BY <1>1 DEF Negative, Write, Install, Validate, Revalidate, Positive,
                Dedupe, Rollback, Reinstall, Accept
  <2>5. Tree \in Trees
    BY DEF Tree, Trees, TreeTypes
  <2>6. UNCHANGED <<view, before, readAt>>
    BY <1>1, InsideMoves
  <2>7. tested' \in [Runs -> Trees]
    BY <2>4, <2>5 DEF TreeTypes
  <2>8. manifest' \in Manifests /\ installed' \in Manifests
    BY <2>2, EditedType DEF TreeTypes
  <2>9. rewritten' \subseteq Runs
    BY <2>3 DEF TreeTypes
  <2>10. deduped' \subseteq Runs
    BY <1>1 DEF Negative, Write, Install, Validate, Revalidate, Positive,
                Dedupe, Rollback, Reinstall, Accept, TreeTypes
  <2>11. TreeTypes'
    BY <2>2, <2>6, <2>7, <2>8, <2>9, <2>10 DEF TreeTypes
  <2> QED
    BY <2>1, <2>11 DEF TypeOK, ControlTypes, TreeTypes
<1>2. CASE Refuse(r) \/ Read(r) \/ Acquire(r) \/ TimeOut(r) \/ Crash(r)
  <2>1. UNCHANGED <<overlap, manifest, installed, rewritten, deduped, tested,
                 unclean>>
    BY <1>2, OutsideMoves
  <2>2. TreeTypes'
    <3>1. view' \in [Runs -> Manifests] /\ readAt' \in [Runs -> Nat]
      BY <1>2 DEF Refuse, Read, Acquire, TimeOut, Crash, TreeTypes, ControlTypes
    <3>2. before' \in [Runs -> Manifests]
      BY <1>2 DEF Refuse, Read, Acquire, TimeOut, Crash, TreeTypes
    <3> QED
      BY <2>1, <3>1, <3>2 DEF TreeTypes
  <2>3. ControlTypes'
    <3>1. pc' \in [Runs -> Steps]
      BY <1>2
      DEF Refuse, Read, Acquire, TimeOut, Crash, GoTo, ControlTypes, Steps,
          Critical
    <3>2. result' \in [Runs -> Results] /\ lock' \in Runs \cup {"free"}
      BY <1>2 DEF Refuse, Read, Acquire, TimeOut, Crash, ControlTypes, Results
    <3>3. sections' \in Nat /\ crashes' \in 0..MaxCrashes
      BY <1>2, MutationAssumption
      DEF Refuse, Read, Acquire, TimeOut, Crash, ControlTypes
    <3> QED
      BY <3>1, <3>2, <3>3 DEF ControlTypes
  <2> QED
    BY <2>2, <2>3 DEF TypeOK, ControlTypes, TreeTypes
<1> QED
  BY <1>1, <1>2 DEF Step

-----------------------------------------------------------------------------
(* Steps under the lock *)

Inside(r) ==
  \/ Negative(r) \/ Write(r) \/ Install(r) \/ Validate(r)
  \/ Revalidate(r) \/ Positive(r) \/ Dedupe(r) \/ Rollback(r)
  \/ Reinstall(r)

\* While a run takes a step under the lock the others are outside, and stay as
\* they are.
LEMMA OthersOutside ==
  ASSUME IInv, NEW r \in Runs, Inside(r)
  PROVE  /\ Section(r) /\ pc[r] \in Critical
         /\ \A s \in Runs \ {r} : /\ pc[s] \notin Critical /\ pc'[s] = pc[s]
                                  /\ result'[s] = result[s]
                                  /\ s \in rewritten' <=> s \in rewritten
         /\ UNCHANGED <<view, before, readAt>>
<1>1. pc[r] \in Critical /\ UNCHANGED <<view, before, readAt>>
  BY InsideMoves DEF Inside
<1>2. Section(r) /\ \A s \in Runs \ {r} : pc[s] \notin Critical
  BY <1>1 DEF IInv, Guarded, Section
<1>3. \A s \in Runs \ {r} : pc'[s] = pc[s] /\ result'[s] = result[s]
  <2>1. \/ \E step \in Steps : Continue(r, step)
        \/ \E how \in Results : Finish(r, how)
    BY InsideMoves DEF Inside
  <2> QED
    BY <2>1 DEF Continue, Finish, GoTo, IInv, TypeOK
<1>4. \A s \in Runs \ {r} : s \in rewritten' <=> s \in rewritten
  BY DEF Inside, Negative, Write, Install, Validate, Revalidate, Positive,
         Dedupe, Rollback, Reinstall, RewritesUndone, Accept
<1> QED
  BY <1>1, <1>2, <1>3, <1>4

\* A run whose validation passed has the tree it passed on, and goes on to its
\* proof or its dedupe or ends.
LEMMA Accepting ==
  ASSUME tested \in [Runs -> Trees], NEW r \in Runs, Accept(r),
         UNCHANGED <<installed, rewritten, deduped>>
  PROVE  /\ tested'[r] = Tree'
         /\ \/ \E step \in {"positive", "dedupe"} : Continue(r, step)
            \/ Finish(r, "applied")
BY DEF Accept, Succeed, Tree

\* What a run under the lock has made of the tree after its step: either it is
\* still under the lock, or it has ended and the tree is clean.
LEMMA SectionStep ==
  ASSUME IInv, TypeOK', NEW r \in Runs, Inside(r)
  PROVE  \/ /\ lock' = r /\ pc'[r] \in Critical /\ Section(r)'
            /\ UNCHANGED <<sections, result>>
         \/ /\ lock' = "free" /\ pc'[r] = "done"
            /\ unclean' \/ installed' = manifest'
            /\ sections' = sections + 1
            /\ result'[r] \in {"failed", "applied"}
<1>1. Section(r) /\ r \in Runs /\ UNCHANGED <<view, before, readAt>>
  BY OthersOutside
<1>2. pc \in [Runs -> Steps] /\ result \in [Runs -> Results]
  BY DEF IInv, TypeOK
<1>3. CASE Negative(r)
  BY <1>1, <1>2, <1>3
  DEF Negative, Continue, Finish, GoTo, Section, Unwritten, Written, Settling,
      Critical
<1>4. CASE Write(r)
  BY <1>1, <1>2, <1>4
  DEF Write, Continue, GoTo, Section, Unwritten, Written, Settling, Critical,
      Edited
<1>5. CASE Install(r)
  <2>1. pc[r] = "install" /\ UNCHANGED <<rewritten, tested>>
    BY <1>5 DEF Install
  <2>2. CASE /\ Continue(r, "validate")
             /\ installed' = manifest /\ ~unclean' /\ UNCHANGED manifest
    BY <1>1, <1>2, <2>1, <2>2
    DEF Continue, GoTo, Section, Unwritten, Written, Settling, Critical, Edited
  <2>3. CASE Finish(r, "failed") /\ unclean' = TRUE
    BY <1>1, <1>2, <2>1, <2>3 DEF Finish
  <2> QED
    BY <1>5, <2>2, <2>3 DEF Install
<1>6. CASE Validate(r)
  <2>1. pc[r] = "validate"
        /\ UNCHANGED <<manifest, installed, deduped, unclean>>
    BY <1>6 DEF Validate
  <2>2. CASE Accept(r) /\ UNCHANGED rewritten
    <3>1. /\ tested'[r] = Tree'
          /\ \/ \E step \in {"positive", "dedupe"} : Continue(r, step)
             \/ Finish(r, "applied")
      BY <2>1, <2>2, Accepting DEF IInv, TypeOK
    <3> QED
      BY <1>1, <1>2, <2>1, <2>2, <3>1
      DEF Continue, Finish, GoTo, Section, Unwritten, Written, Settling,
          Critical, Edited
  <2>3. ASSUME NEW step \in {"rollback", "revalidate"}, Continue(r, step),
               tested' = tested
        PROVE  lock' = r /\ pc'[r] \in Critical /\ Section(r)'
                 /\ UNCHANGED <<sections, result>>
    <3>1. pc'[r] = step /\ lock' = lock /\ UNCHANGED <<sections, result>>
      BY <1>2, <2>3 DEF Continue, GoTo
    <3> QED
      BY <1>1, <2>1, <2>3, <3>1
      DEF Section, Unwritten, Written, Settling, Critical, Edited
  <2>4. \/ Accept(r) /\ UNCHANGED rewritten
        \/ Continue(r, "rollback") /\ tested' = tested
        \/ Continue(r, "revalidate") /\ tested' = tested
    BY <1>6 DEF Validate, AfterRewrite
  <2> QED
    BY <2>2, <2>3, <2>4
<1>7. CASE Revalidate(r)
  <2>1. pc[r] = "revalidate"
        /\ UNCHANGED <<manifest, installed, deduped, unclean>>
    BY <1>7 DEF Revalidate
  <2>2. CASE Accept(r) /\ UNCHANGED rewritten
    <3>1. /\ tested'[r] = Tree'
          /\ \/ \E step \in {"positive", "dedupe"} : Continue(r, step)
             \/ Finish(r, "applied")
      BY <2>1, <2>2, Accepting DEF IInv, TypeOK
    <3> QED
      BY <1>1, <1>2, <2>1, <2>2, <3>1
      DEF Continue, Finish, GoTo, Section, Unwritten, Written, Settling,
          Critical, Edited
  <2>3. CASE Continue(r, "rollback")
    BY <1>1, <1>2, <2>1, <2>3
    DEF Continue, GoTo, Section, Unwritten, Written, Settling, Critical, Edited
  <2> QED
    BY <1>7, <2>2, <2>3 DEF Revalidate
<1>8. CASE Positive(r)
  BY <1>1, <1>2, <1>8
  DEF Positive, Succeed, Continue, Finish, GoTo, Section, Unwritten, Written,
      Settling, Critical, Edited, Tree
<1>9. CASE Rollback(r)
  BY <1>1, <1>2, <1>9
  DEF Rollback, Continue, GoTo, Section, Unwritten, Written, Settling, Critical,
      Restored
<1>10. CASE Reinstall(r)
  BY <1>1, <1>2, <1>10
  DEF Reinstall, Reinstalled, Finish
<1>11. CASE Dedupe(r)
  BY <1>1, <1>2, <1>11 DEF Dedupe, Finish, Section, Settling
<1> QED
  BY <1>3, <1>4, <1>5, <1>6, <1>7, <1>8, <1>9, <1>10, <1>11 DEF Inside

\* The rewrites of a run after its step under the lock.
LEMMA RewritesStep ==
  ASSUME IInv, NEW r \in Runs, Inside(r)
  PROVE  /\ pc'[r] \in {"negative", "positive"} => r \in Proving
         /\ pc'[r] = "dedupe" => r \in Deduping
         /\ r \in rewritten' =>
              \/ pc'[r] \in {"revalidate", "positive", "done"}
              \/ pc'[r] \in {"rollback", "reinstall"} /\ Rejected(r)'
         /\ pc'[r] \in Unwritten =>
              pc[r] = "negative" /\ manifest' = manifest
<1>1. pc \in [Runs -> Steps]
  BY DEF IInv, TypeOK
<1>2. /\ pc[r] \in {"negative", "positive"} => r \in Proving
      /\ r \in rewritten =>
           \/ pc[r] \in {"revalidate", "positive", "done"}
           \/ pc[r] \in {"rollback", "reinstall"} /\ Rejected(r)
  BY DEF IInv, Rewrites
<1>3. CASE Negative(r) \/ Write(r) \/ Install(r)
  BY <1>1, <1>2, <1>3
  DEF Negative, Write, Install, Continue, Finish, GoTo, Unwritten
<1>4. CASE Validate(r)
  BY <1>1, <1>2, <1>4
  DEF Validate, Accept, Succeed, AfterRewrite, Continue, Finish, GoTo, Unwritten
<1>5. CASE Revalidate(r)
  BY <1>1, <1>2, <1>5
  DEF Revalidate, Accept, Succeed, RewritesUndone, Continue, Finish, GoTo,
      Unwritten
<1>6. CASE Positive(r)
  <2>1. pc[r] = "positive" /\ UNCHANGED <<rewritten, tested>>
    BY <1>6 DEF Positive
  <2>2. tested[r] = Tree
    BY <2>1 DEF IInv, Guarded, Section, Critical
  <2> QED
    BY <1>1, <1>2, <1>6, <2>1, <2>2
    DEF Positive, Succeed, Continue, Finish, GoTo, Unwritten, Rejected, Tree
<1>7. CASE Rollback(r) \/ Reinstall(r)
  BY <1>1, <1>2, <1>7
  DEF Rollback, Reinstall, Continue, Finish, GoTo, Unwritten, Rejected
<1>8. CASE Dedupe(r)
  BY <1>1, <1>2, <1>8 DEF Dedupe, Finish, Unwritten
<1> QED
  BY <1>3, <1>4, <1>5, <1>6, <1>7, <1>8 DEF Inside

\* A step under the lock keeps the invariant.
LEMMA InsideInv ==
  ASSUME IInv, NEW r \in Runs, Inside(r), UNCHANGED overlap
  PROVE  IInv'
<1>1. TypeOK'
  BY TypeStep DEF IInv, Inside, Step
<1>2. /\ Section(r) /\ pc[r] \in Critical
      /\ \A s \in Runs \ {r} : /\ pc[s] \notin Critical /\ pc'[s] = pc[s]
                               /\ result'[s] = result[s]
                               /\ s \in rewritten' <=> s \in rewritten
      /\ UNCHANGED <<view, before, readAt>>
  BY OthersOutside
<1>3. \/ /\ lock' = r /\ pc'[r] \in Critical /\ Section(r)'
         /\ UNCHANGED <<sections, result>>
      \/ /\ lock' = "free" /\ pc'[r] = "done"
         /\ unclean' \/ installed' = manifest'
         /\ sections' = sections + 1
         /\ result'[r] \in {"failed", "applied"}
  BY <1>1, SectionStep
<1>4. Guarded'
  BY <1>2, <1>3 DEF Guarded, Critical
<1>5. Clean'
  BY <1>3, MutationAssumption DEF Clean
<1>6. Rewrites'
  BY <1>2, RewritesStep DEF IInv, Rewrites, Critical
<1>7. Views'
  <2> SUFFICES ASSUME NEW s \in Runs
               PROVE  /\ readAt'[s] <= sections'
                      /\ readAt'[s] = sections' =>
                           (pc'[s] \in Unwritten
                              \/ (pc'[s] = "waiting" /\ lock' = "free")
                              => view'[s] = manifest')
    BY DEF Views
  <2>1. /\ readAt[s] \in Nat /\ sections \in Nat /\ readAt[s] <= sections
        /\ readAt'[s] = readAt[s]
    BY <1>2 DEF IInv, TypeOK, Views
  <2>2. CASE sections' = sections + 1
    BY <2>1, <2>2
  <2>3. CASE lock' = r /\ UNCHANGED sections
    <3>1. pc'[s] \in Unwritten => s = r
      BY <1>2 DEF Unwritten, Critical
    <3>2. pc'[s] \in Unwritten /\ readAt[s] = sections => view'[s] = manifest'
      BY <1>2, <3>1, RewritesStep DEF IInv, Views, Unwritten
    <3> QED
      BY <2>1, <2>3, <3>2, MutationAssumption
  <2> QED
    BY <1>3, <2>2, <2>3
<1>8. Alone'
  <2>1. \A s \in Runs : result'[s] = "none" <=> pc'[s] # "done"
    BY <1>2, <1>3 DEF IInv, Alone, Critical
  <2>2. ASSUME ~overlap
        PROVE  /\ \A s, t \in Runs : Busy(s)' /\ Busy(t)' => s = t
               /\ \A s \in Runs :
                    /\ pc'[s] \in Unwritten \cup {"waiting"}
                         => view'[s] = manifest'
                    /\ pc'[s] \in Critical => before'[s] = view'[s]
    <3>1. \A s \in Runs : Busy(s) => s = r
      BY <1>2, <2>2 DEF IInv, Alone, Busy, Critical
    <3>2. \A s \in Runs : Busy(s)' => s = r
      BY <1>2, <3>1 DEF Busy
    <3>3. pc'[r] \in Critical \cup {"done"}
      BY <1>3
    <3>4. pc'[r] \in Unwritten => view'[r] = manifest'
      BY <1>2, <2>2, RewritesStep DEF IInv, Alone, Unwritten
    <3>5. pc'[r] \in Critical => before'[r] = view'[r]
      BY <1>2, <2>2 DEF IInv, Alone
    <3> QED
      BY <3>2, <3>3, <3>4, <3>5 DEF Busy, Critical, Unwritten
  <2> QED
    BY <2>1, <2>2 DEF Alone
<1> QED
  BY <1>1, <1>4, <1>5, <1>6, <1>7, <1>8 DEF IInv

-----------------------------------------------------------------------------
(* Steps outside, and the invariant *)

\* A step outside, of a run that does not hold the lock or dies with it, keeps
\* the invariant.
LEMMA OutsideInv ==
  ASSUME IInv, NEW r \in Runs, UNCHANGED overlap,
         Refuse(r) \/ Read(r) \/ Acquire(r) \/ TimeOut(r) \/ Crash(r)
  PROVE  IInv'
<1>1. TypeOK'
  BY TypeStep DEF IInv, Step
<1>2. UNCHANGED <<manifest, installed, rewritten, deduped, sections, tested,
                 unclean>>
  BY OutsideMoves
<1>3. /\ pc \in [Runs -> Steps] /\ result \in [Runs -> Results]
      /\ view \in [Runs -> Manifests] /\ before \in [Runs -> Manifests]
      /\ readAt \in [Runs -> Nat] /\ sections \in Nat
  BY DEF IInv, TypeOK
<1>4. CASE Refuse(r) \/ TimeOut(r) \/ Crash(r)
  <2>1. /\ pc' = [pc EXCEPT ![r] = "done"]
        /\ UNCHANGED <<lock, view, readAt, before>>
        /\ \E how \in {"refused", "timeout", "dead"} :
             result' = [result EXCEPT ![r] = how]
    BY <1>4 DEF Refuse, TimeOut, Crash, GoTo
  <2>2. Guarded' /\ Clean'
    BY <1>2, <1>3, <2>1
    DEF IInv, Guarded, Clean, Section, Critical, Edited, Tree
  <2>3. Rewrites' /\ Views'
    BY <1>2, <1>3, <2>1 DEF IInv, Rewrites, Rejected, Views, Unwritten
  <2>4. Alone'
    BY <1>2, <1>3, <2>1 DEF IInv, Alone, Busy, Unwritten, Critical
  <2> QED
    BY <1>1, <2>2, <2>3, <2>4 DEF IInv
<1>5. CASE Read(r)
  <2>1. /\ pc' = [pc EXCEPT ![r] = "waiting"] /\ pc[r] = "start"
        /\ UNCHANGED <<lock, before, result>>
        /\ view' = [view EXCEPT ![r] = manifest]
        /\ readAt' = [readAt EXCEPT ![r] = sections]
        /\ overlap \/ \A s \in Runs : ~Busy(s)
    BY <1>5 DEF Read, GoTo
  <2>2. Guarded' /\ Clean'
    BY <1>2, <1>3, <2>1
    DEF IInv, Guarded, Clean, Section, Critical, Edited, Tree
  <2>3. Rewrites' /\ Views'
    BY <1>2, <1>3, <2>1 DEF IInv, Rewrites, Rejected, Views, Unwritten
  <2>4. Alone'
    BY <1>2, <1>3, <2>1 DEF IInv, Alone, Busy, Unwritten, Critical
  <2> QED
    BY <1>1, <2>2, <2>3, <2>4 DEF IInv
<1>6. CASE Acquire(r)
  <2>1. /\ pc[r] = "waiting" /\ lock = "free" /\ lock' = r
        /\ pc' = [pc EXCEPT ![r] = IF r \in Proving THEN "negative"
                                                    ELSE "write"]
        /\ before' = [before EXCEPT ![r] = manifest]
        /\ UNCHANGED <<view, readAt, result>>
    BY <1>6 DEF Acquire, LockFree, GoTo
  <2>2. \A s \in Runs : pc[s] \notin Critical
    BY <2>1, MutationAssumption DEF IInv, Guarded, Section
  <2>3. Section(r)'
    BY <1>2, <1>3, <2>1
    DEF IInv, Clean, Section, Unwritten, Written, Settling
  <2>4. Guarded' /\ Clean'
    BY <1>3, <2>1, <2>2, <2>3, MutationAssumption DEF Guarded, Clean
  <2>5. Rewrites' /\ Views'
    BY <1>2, <1>3, <2>1, <2>2, MutationAssumption
    DEF IInv, Rewrites, Rejected, Views, Unwritten
  <2>6. Alone'
    BY <1>2, <1>3, <2>1, <2>2 DEF IInv, Alone, Busy, Unwritten, Critical
  <2> QED
    BY <1>1, <2>4, <2>5, <2>6 DEF IInv
<1> QED
  BY <1>4, <1>5, <1>6

\* The invariant holds before any run has started.
LEMMA InitInv == Init => IInv
<1> SUFFICES ASSUME Init
             PROVE  IInv
  OBVIOUS
<1>1. Old \in Manifests
  BY DEF Old, Manifests
<1>2. TypeOK
  <2>1. ControlTypes
    BY MutationAssumption DEF Init, ControlTypes, Steps, Results
  <2>2. tested \in [Runs -> Trees]
    BY <1>1 DEF Init, Trees
  <2>3. TreeTypes
    BY <1>1, <2>2 DEF Init, TreeTypes
  <2> QED
    BY <2>1, <2>3, TypeParts
<1>3. Guarded /\ Clean /\ Rewrites
  BY DEF Init, Guarded, Clean, Rewrites, Critical
<1>4. Views /\ Alone
  BY DEF Init, Views, Alone, Busy, Unwritten, Critical
<1> QED
  BY <1>2, <1>3, <1>4 DEF IInv

\* Every step keeps the invariant.
LEMMA NextInv == IInv /\ [Next]_vars => IInv'
<1> SUFFICES ASSUME IInv, [Next]_vars
             PROVE  IInv'
  OBVIOUS
<1>1. ASSUME NEW r \in Runs, Step(r) \/ Crash(r), UNCHANGED overlap
      PROVE  IInv'
  BY <1>1, InsideInv, OutsideInv DEF Step, Inside
<1>2. CASE UNCHANGED vars
  BY <1>2 DEF vars, IInv, TypeOK, Guarded, Section, Edited, Tree, Clean,
              Rewrites, Rejected, Views, Alone, Busy
<1> QED
  BY <1>1, <1>2 DEF Next

\* The invariant holds of every reachable state.
THEOREM Invariance == Spec => []IInv
BY InitInv, NextInv, PTL DEF Spec

-----------------------------------------------------------------------------
(* What the ends of runs leave behind *)

\* Only its own steps move a run.
LEMMA OwnStep ==
  ASSUME IInv, [Next]_vars, NEW r \in Runs, pc'[r] # pc[r]
  PROVE  Step(r) \/ Crash(r)
<1>1. PICK q \in Runs : Step(q) \/ Crash(q)
  BY DEF Next, vars
<1>2. CASE q = r
  BY <1>1, <1>2
<1>3. CASE q # r
  <2>1. CASE Inside(q)
    BY <1>3, <2>1, OthersOutside
  <2>2. CASE Refuse(q) \/ Read(q) \/ Acquire(q) \/ TimeOut(q) \/ Crash(q)
    BY <1>3, <2>2
    DEF Refuse, Read, Acquire, TimeOut, Crash, GoTo, IInv, TypeOK
  <2> QED
    BY <1>1, <2>1, <2>2 DEF Step, Inside
<1> QED
  BY <1>2, <1>3

\* A run reports a failure or success only in a step under the lock.
LEMMA EndsInside ==
  ASSUME IInv, [Next]_vars, NEW r \in Runs, Ends(r),
         result'[r] \in {"failed", "applied"}
  PROVE  Inside(r) /\ pc'[r] = "done"
<1>1. Step(r) \/ Crash(r)
  BY OwnStep DEF Ends
<1>2. ~(Refuse(r) \/ Read(r) \/ Acquire(r) \/ TimeOut(r) \/ Crash(r))
  BY DEF Refuse, Read, Acquire, TimeOut, Crash, GoTo, Ends, IInv, TypeOK
<1> QED
  BY <1>1, <1>2 DEF Step, Inside, Ends

\* A failed run that read what it found under the lock leaves that; it leaves
\* rewrites only if its validation passed on them and its proof failed.
LEMMA FailedEnd ==
  ASSUME IInv, NEW r \in Runs, Inside(r), pc'[r] = "done", result'[r] = "failed"
  PROVE  /\ ~Stale(r) => manifest' = before[r]
         /\ r \in rewritten' => Rejected(r)'
<1>1. pc \in [Runs -> Steps] /\ result \in [Runs -> Results]
  BY DEF IInv, TypeOK
<1>2. Section(r)
  BY OthersOutside
<1>3. /\ pc[r] \in {"negative", "positive"} => r \in Proving
      /\ r \in rewritten =>
           \/ pc[r] \in {"revalidate", "positive", "done"}
           \/ pc[r] \in {"rollback", "reinstall"} /\ Rejected(r)
  BY DEF IInv, Rewrites
<1>4. CASE Negative(r)
  BY <1>2, <1>3, <1>4 DEF Negative, Section, Unwritten
<1>5. CASE Install(r)
  <2>1. pc[r] = "install" /\ UNCHANGED rewritten
    BY <1>5 DEF Install
  <2>2. manifest' = view[r]
    BY <1>1, <1>5 DEF Install, Continue, GoTo, Restored
  <2> QED
    BY <1>3, <2>1, <2>2 DEF Stale
<1>6. CASE Reinstall(r)
  BY <1>2, <1>3, <1>6 DEF Reinstall, Section, Stale, Rejected
<1>7. CASE Write(r) \/ Rollback(r)
  BY <1>1, <1>7 DEF Write, Rollback, Continue, GoTo
<1>8. CASE Validate(r)
  BY <1>1, <1>8
  DEF Validate, Accept, Succeed, AfterRewrite, Continue, GoTo, Finish
<1>9. CASE Revalidate(r)
  BY <1>1, <1>9 DEF Revalidate, Accept, Succeed, Continue, GoTo, Finish
<1>10. CASE Positive(r)
  BY <1>1, <1>10 DEF Positive, Succeed, Continue, GoTo, Finish
<1>11. CASE Dedupe(r)
  BY <1>1, <1>11 DEF Dedupe, Finish
<1> QED
  BY <1>4, <1>5, <1>6, <1>7, <1>8, <1>9, <1>10, <1>11 DEF Inside

\* A successful run leaves its edit of what it read, and the tree it tested,
\* but for its dedupe.
LEMMA AppliedEnd ==
  ASSUME IInv, NEW r \in Runs, Inside(r), pc'[r] = "done",
         result'[r] = "applied"
  PROVE  LeavesTested(r) /\ manifest' = Edited(r)
<1>1. /\ pc \in [Runs -> Steps] /\ result \in [Runs -> Results]
      /\ tested \in [Runs -> Trees]
  BY DEF IInv, TypeOK
<1>2. Section(r)
  BY OthersOutside
<1>3. CASE Positive(r)
  <2>1. ~Continue(r, "dedupe")
    BY <1>1 DEF Continue, GoTo
  <2> QED
    BY <1>1, <1>2, <1>3, <2>1
    DEF Positive, Succeed, Section, Written, Tree, LeavesTested
<1>4. CASE Validate(r)
  <2>1. pc[r] = "validate" /\ UNCHANGED <<manifest, installed, deduped>>
    BY <1>4 DEF Validate
  <2>2. Accept(r) /\ UNCHANGED rewritten
    BY <1>1, <1>4 DEF Validate, AfterRewrite, Continue, GoTo
  <2> QED
    BY <1>1, <1>2, <2>1, <2>2, Accepting
    DEF Section, Written, Tree, LeavesTested
<1>5. CASE Revalidate(r)
  <2>1. pc[r] = "revalidate" /\ UNCHANGED <<manifest, installed, deduped>>
    BY <1>5 DEF Revalidate
  <2>2. Accept(r) /\ UNCHANGED rewritten
    BY <1>1, <1>5 DEF Revalidate, Continue, GoTo
  <2> QED
    BY <1>1, <1>2, <2>1, <2>2, Accepting
    DEF Section, Written, Tree, LeavesTested
<1>6. CASE Negative(r) \/ Write(r) \/ Rollback(r)
  BY <1>1, <1>6 DEF Negative, Write, Rollback, Continue, GoTo, Finish
<1>7. CASE Install(r)
  BY <1>1, <1>7 DEF Install, Continue, GoTo, Finish
<1>8. CASE Reinstall(r)
  BY <1>1, <1>8 DEF Reinstall, Finish
<1>9. CASE Dedupe(r)
  <2>1. r \in Deduping \ rewritten
    BY <1>9 DEF Dedupe, IInv, Rewrites
  <2> QED
    BY <1>2, <1>9, <2>1 DEF Dedupe, Section, Written, Tree, LeavesTested
<1> QED
  BY <1>3, <1>4, <1>5, <1>6, <1>7, <1>8, <1>9 DEF Inside

-----------------------------------------------------------------------------
(* The theorems *)

\* The tools' changes, installs and tests exclude one another, and a tree that
\* nobody holds is installed as its manifest says, unless an install failed.
THEOREM Exclusion == Spec => []LockExcludes
<1>1. IInv => LockExcludes
  BY DEF IInv, Guarded, Section, Clean, LockExcludes
<1> QED
  BY <1>1, Invariance, PTL

\* A run that fails restores the manifest it found, if its view was not stale,
\* and leaves rewritten call sites only if its validation passed on them and its
\* proof failed.
THEOREM Restoration == Spec => FailureRestores
<1>1. IInv /\ [Next]_vars =>
        [\A r \in Runs :
           Ends(r) /\ result'[r] = "failed"
             => /\ ~Stale(r) => manifest' = before[r]
                /\ r \in rewritten' => Rejected(r)']_vars
  BY EndsInside, FailedEnd
<1> QED
  BY <1>1, Invariance, PTL DEF Spec, FailureRestores

\* A run overwrites somebody else's entry only when a section ended between its
\* read and its lock.
THEOREM Clobbering == Spec => OnlyStaleViewsClobber
<1>1. ASSUME IInv, [Next]_vars, NEW r \in Runs, NEW e \in Entries,
             pc[r] = "write", pc'[r] = "install", e # EntryOf[r],
             manifest'[e] # manifest[e]
      PROVE  readAt[r] < sections
  <2>1. Write(r)
    <3>1. Step(r) \/ Crash(r)
      BY <1>1, OwnStep
    <3> QED
      BY <1>1, <3>1
      DEF Step, Refuse, Read, Acquire, TimeOut, Negative, Install, Validate,
          Revalidate, Positive, Dedupe, Rollback, Reinstall, Crash, GoTo, IInv,
          TypeOK
  <2>2. manifest' = [view[r] EXCEPT ![EntryOf[r]] = "new"]
    BY <2>1 DEF Write, Edited
  <2>3. view[r] \in Manifests
    BY <1>1 DEF IInv, TypeOK
  <2>4. manifest'[e] = view[r][e]
    BY <1>1, <2>2, <2>3 DEF Manifests
  <2>5. readAt[r] # sections
    BY <1>1, <2>4 DEF IInv, Views, Unwritten
  <2>6. readAt[r] \in Nat /\ sections \in Nat /\ readAt[r] <= sections
    BY <1>1 DEF IInv, TypeOK, Views
  <2> QED
    BY <2>5, <2>6
<1>2. IInv /\ [Next]_vars =>
        [\A r \in Runs, e \in Entries :
           /\ pc[r] = "write" /\ pc'[r] = "install"
           /\ e # EntryOf[r] /\ manifest'[e] # manifest[e]
           => readAt[r] < sections]_vars
  BY <1>1
<1> QED
  BY <1>2, Invariance, PTL DEF Spec, OnlyStaleViewsClobber

\* A run that reports success leaves its entry set and the tree its validation
\* passed on, or what its own dedupe made of that tree.
THEOREM Acceptance == Spec => AppliedIsTested
<1>1. ASSUME IInv, NEW r \in Runs, Inside(r), pc'[r] = "done",
             result'[r] = "applied"
      PROVE  manifest'[EntryOf[r]] = "new"
  <2>1. manifest' = [view[r] EXCEPT ![EntryOf[r]] = "new"]
    BY <1>1, AppliedEnd DEF Edited
  <2> QED
    BY <1>1, <2>1, MutationAssumption DEF IInv, TypeOK, Manifests
<1>2. IInv /\ [Next]_vars =>
        [\A r \in Runs :
           Ends(r) /\ result'[r] = "applied"
             => LeavesTested(r) /\ manifest'[EntryOf[r]] = "new"]_vars
  BY <1>1, EndsInside, AppliedEnd
<1> QED
  BY <1>2, Invariance, PTL DEF Spec, AppliedIsTested

-----------------------------------------------------------------------------
(* Runs that follow one another are atomic edits *)

\* What a run under the lock does to the settled manifest: nothing before it
\* ends, and then its edit when it was applied.
LEMMA InsideEdits ==
  ASSUME IInv, NEW r \in Runs, Inside(r), ~overlap, UNCHANGED overlap
  PROVE  \/ Settled' = Settled /\ result' = result
         \/ /\ result[r] = "none"
            /\ \/ /\ result' = [result EXCEPT ![r] = "failed"]
                  /\ Settled' = Settled
               \/ /\ result' = [result EXCEPT ![r] = "applied"]
                  /\ Settled' = [Settled EXCEPT ![EntryOf[r]] = "new"]
<1>1. Section(r) /\ pc[r] \in Critical /\ UNCHANGED <<view, before>>
  BY OthersOutside
<1>2. Settled = before[r] /\ before[r] = view[r] /\ result[r] = "none"
  BY <1>1 DEF Settled, Section, IInv, Alone, Critical
<1>3. \/ \E step \in Steps : Continue(r, step)
      \/ \E how \in Results : Finish(r, how)
  BY InsideMoves DEF Inside
<1>4. \/ lock' = r /\ pc'[r] \in Critical /\ UNCHANGED result
      \/ /\ lock' = "free" /\ pc'[r] = "done"
         /\ result'[r] \in {"failed", "applied"}
  <2>1. TypeOK'
    BY TypeStep DEF IInv, Step, Inside
  <2> QED
    BY <2>1, SectionStep
<1>5. CASE lock' = r /\ pc'[r] \in Critical /\ UNCHANGED result
  BY <1>1, <1>2, <1>5 DEF Settled
<1>6. CASE /\ lock' = "free" /\ pc'[r] = "done"
           /\ result'[r] \in {"failed", "applied"}
  <2>1. Settled' = manifest'
    BY <1>6, MutationAssumption DEF Settled
  <2>2. \E how \in Results : result' = [result EXCEPT ![r] = how]
    <3>1. ~ \E step \in Steps : Continue(r, step)
      BY <1>2, <1>6 DEF Continue
    <3> QED
      BY <1>3, <3>1 DEF Finish
  <2>3. result' = [result EXCEPT ![r] = result'[r]]
    BY <2>2 DEF IInv, TypeOK
  <2>4. CASE result'[r] = "failed"
    BY <1>2, <1>6, <2>1, <2>3, <2>4, FailedEnd DEF Stale
  <2>5. CASE result'[r] = "applied"
    BY <1>2, <1>6, <2>1, <2>3, <2>5, AppliedEnd DEF Edited
  <2> QED
    BY <1>6, <2>4, <2>5
<1> QED
  BY <1>4, <1>5, <1>6

\* What the other steps do to it: a run that refuses or waits in vain leaves it,
\* one that dies leaves it with its edit or without.
LEMMA OutsideEdits ==
  ASSUME IInv, NEW r \in Runs, ~overlap,
         Refuse(r) \/ Read(r) \/ Acquire(r) \/ TimeOut(r) \/ Crash(r)
  PROVE  \/ Settled' = Settled /\ result' = result
         \/ /\ result[r] = "none"
            /\ \/ /\ \E how \in {"refused", "timeout", "dead"} :
                       result' = [result EXCEPT ![r] = how]
                  /\ Settled' = Settled
               \/ /\ result' = [result EXCEPT ![r] = "dead"]
                  /\ Settled' = [Settled EXCEPT ![EntryOf[r]] = "new"]
<1>1. pc \in [Runs -> Steps] /\ before \in [Runs -> Manifests]
  BY DEF IInv, TypeOK
<1>2. UNCHANGED manifest
  BY OutsideMoves
<1>3. CASE Acquire(r)
  <2>1. /\ lock = "free" /\ lock' = r
        /\ pc'[r] \in Critical /\ before'[r] = manifest
    BY <1>1, <1>3 DEF Acquire, LockFree, GoTo, Critical
  <2>2. result' = result
    BY <1>3 DEF Acquire
  <2> QED
    BY <1>2, <2>1, <2>2, MutationAssumption DEF Settled
<1>4. CASE Read(r)
  BY <1>1, <1>2, <1>4 DEF Read, GoTo, Settled, Critical
<1>5. CASE Refuse(r) \/ TimeOut(r) \/ (Crash(r) /\ pc[r] \notin Critical)
  <2>1. /\ pc' = [pc EXCEPT ![r] = "done"]
        /\ pc[r] \notin Critical \cup {"done"}
        /\ UNCHANGED <<lock, before>>
        /\ \E how \in {"refused", "timeout", "dead"} :
             result' = [result EXCEPT ![r] = how]
    BY <1>5 DEF Refuse, TimeOut, Overdue, Crash, Busy, GoTo, Critical
  <2>2. result[r] = "none"
    BY <2>1 DEF IInv, Alone
  <2>3. Settled' = Settled
    BY <1>1, <1>2, <2>1 DEF Settled, Critical
  <2> QED
    BY <2>1, <2>2, <2>3
<1>6. CASE Crash(r) /\ pc[r] \in Critical
  <2>1. /\ pc' = [pc EXCEPT ![r] = "done"] /\ UNCHANGED lock
        /\ result' = [result EXCEPT ![r] = "dead"]
    BY <1>6 DEF Crash, GoTo
  <2>2. Section(r) /\ before[r] = view[r] /\ result[r] = "none"
    BY <1>6 DEF IInv, Guarded, Alone, Critical
  <2>3. Settled = before[r] /\ Settled' = manifest
    BY <1>1, <1>2, <1>6, <2>1, <2>2 DEF Settled, Section, Critical
  <2>4. manifest \in {before[r], Edited(r)}
    BY <1>6, <2>2 DEF Section, Critical, Unwritten, Written
  <2> QED
    BY <2>1, <2>2, <2>3, <2>4 DEF Edited
<1> QED
  BY <1>3, <1>4, <1>5, <1>6

\* When the callers run one tool after the other, every run is one atomic edit
\* of the manifest: its own entry, or nothing.
THEOREM Atomicity == Spec => ImplementsEdits
<1>1. Init => Edits!Init
  BY MutationAssumption DEF Init, Edits!Init, Settled, Old
<1>2. IInv /\ [Next]_vars =>
        [Edits!Next]_<<IF overlap THEN Old ELSE Settled,
                       IF overlap THEN [r \in Runs |-> "none"] ELSE result>>
  <2> SUFFICES ASSUME IInv, [Next]_vars
               PROVE  [Edits!Next]_<<IF overlap THEN Old ELSE Settled,
                        IF overlap THEN [r \in Runs |-> "none"] ELSE result>>
    OBVIOUS
  <2>1. CASE UNCHANGED vars
    BY <2>1 DEF vars, Old, Settled
  <2>2. CASE overlap /\ UNCHANGED overlap
    BY <2>2 DEF Old
  <2>3. ASSUME ~overlap, UNCHANGED overlap, NEW r \in Runs, Step(r) \/ Crash(r)
        PROVE  [Edits!Next]_<<IF overlap THEN Old ELSE Settled,
                 IF overlap THEN [q \in Runs |-> "none"] ELSE result>>
    <3>1. \/ Settled' = Settled /\ result' = result
          \/ /\ result[r] = "none"
             /\ \/ /\ \E how \in {"refused", "failed", "timeout", "dead"} :
                        result' = [result EXCEPT ![r] = how]
                   /\ Settled' = Settled
                \/ /\ \E how \in {"applied", "dead"} :
                        result' = [result EXCEPT ![r] = how]
                   /\ Settled' = [Settled EXCEPT ![EntryOf[r]] = "new"]
      BY <2>3, InsideEdits, OutsideEdits DEF Step, Inside
    <3> QED
      BY <2>3, <3>1 DEF Edits!Next, Edits!Ends, Edits!Sets
  <2> QED
    BY <2>1, <2>2, <2>3 DEF Next
<1> QED
  BY <1>1, <1>2, Invariance, PTL DEF Spec, ImplementsEdits, Edits!Spec

=============================================================================
