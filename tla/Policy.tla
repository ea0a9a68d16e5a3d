-------------------------------- MODULE Policy --------------------------------
(***************************************************************************)
(* The policy (platform/policy.ts): which packages may be touched and      *)
(* which CVEs are suppressed, and how triage (cli/triage.ts) saves a       *)
(* suppression.                                                            *)
(*                                                                         *)
(* The options of a command name a policy, whose text may be given in      *)
(* place of a path (inline), and may name a suppressions file as well      *)
(* (extra; state "absent" if not).  A file is [state, deny, allow,         *)
(* suppressions]: "ok"; "list", a list at its top level; "broken", any     *)
(* other that is missing, cannot be read or is no map.  A pattern of a     *)
(* list is the set of packages that it matches.  A suppression names its   *)
(* CVE, id in some letter case (spelling), and expires "never", "past" or  *)
(* "future".                                                               *)
(***************************************************************************)
EXTENDS Integers, Sequences, FiniteSets, SequencesExt

DefaultPolicy == [deny |-> <<>>, allow |-> <<>>, suppressions |-> <<>>]

LoadPolicy(file) ==
  IF file.state = "ok"
  THEN [deny |-> file.deny, allow |-> file.allow,
        suppressions |-> file.suppressions]
  ELSE DefaultPolicy

IsPackageInList(list, package) == \E i \in 1..Len(list) : package \in list[i]
IsPackageAllowed(policy, package) ==
  /\ ~IsPackageInList(policy.deny, package)
  /\ policy.allow = <<>> \/ IsPackageInList(policy.allow, package)

-----------------------------------------------------------------------------
(* Suppressions *)

Entry == [id : {"c1", "c2"}, spelling : {"upper", "lower"},
          justification : {"fixed", "mitigated"}, expires : {"never", "past", "future"}]
NoSuppression == [id |-> "none"]

\* Array.prototype.find
Find(list, Test(_)) ==
  LET k == SelectInSeq(list, Test) IN IF k = 0 THEN NoSuppression ELSE list[k]

IsActiveSuppression(s) == s.expires # "past"

\* The CVE under way is in upper case, and the comparison is exact.
ActiveSuppression(list, id) ==
  Find(list, LAMBDA s : s.id = id /\ s.spelling = "upper" /\ IsActiveSuppression(s))

LoadSuppressionsFile(file) == IF file.state = "ok" THEN file.suppressions ELSE <<>>

\* runSecOpsPreflight: the policy's entries, then those of the other file.
Preflight(options, id) ==
  ActiveSuppression(LoadPolicy(options.policy).suppressions
                      \o LoadSuppressionsFile(options.extra), id)

\* What triage asks for has no expiry, and the scan's CVEs are in upper case; an
\* entry that is updated keeps the expiry it had.
Suppression(id, justification) ==
  [id |-> id, spelling |-> "upper", justification |-> justification,
   expires |-> "never"]
Updated(old, s) == [s EXCEPT !.expires = old.expires]

Replaced(list, s) == Find(list, LAMBDA old : old.id = s.id)

AlwaysAppend(list, s) == Append(list, s)  \* mutant: entries are never replaced
Upsert(list, s) ==
  LET k == SelectInSeq(list, LAMBDA old : old.id = s.id)
  IN IF k = 0 THEN Append(list, s) ELSE [list EXCEPT ![k] = Updated(list[k], s)]

\* saveSuppressionToPolicy and saveSuppressionToFile: a file that does not parse
\* is written anew, and what is set on a list is not written.
SaveSuppression(file, s) ==
  IF file.state = "list" THEN file
  ELSE LET policy == LoadPolicy(file)
       IN [state |-> "ok", deny |-> policy.deny, allow |-> policy.allow,
           suppressions |-> Upsert(policy.suppressions, s)]

\* Where triage saves: a policy given inline is the name of the file that it
\* writes, which nothing reads.
Triage(options, s) ==
  CASE options.extra.state # "absent" ->
         [options EXCEPT !.extra = SaveSuppression(@, s)]
    [] options.extra.state = "absent" /\ ~options.inline ->
         [options EXCEPT !.policy = SaveSuppression(@, s)]
    [] OTHER -> options
=============================================================================
