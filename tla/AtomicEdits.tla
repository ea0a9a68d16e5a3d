---------------------------- MODULE AtomicEdits ----------------------------
(***************************************************************************)
(* What running a mutating tool under the repository lock is meant to be:  *)
(* each run takes effect at once, by setting its own entry of the manifest *)
(* or by leaving the manifest as it is.  Only a run whose process dies may *)
(* leave its entry either way.                                             *)
(***************************************************************************)
CONSTANTS Runs, Entries, EntryOf

VARIABLES
  entries,  \* the manifest: entry -> "old" or "new"
  result    \* run -> how it ended, "none" before that

Init ==
  /\ entries = [e \in Entries |-> "old"]
  /\ result = [r \in Runs |-> "none"]

Sets(r) == entries' = [entries EXCEPT ![EntryOf[r]] = "new"]

Ends(r, how) == result[r] = "none" /\ result' = [result EXCEPT ![r] = how]

Next ==
  \E r \in Runs :
     \/ Ends(r, "applied") /\ Sets(r)
     \/ \E how \in {"refused", "failed", "timeout"} :
           Ends(r, how) /\ UNCHANGED entries
     \/ Ends(r, "dead") /\ (Sets(r) \/ UNCHANGED entries)

Spec == Init /\ [][Next]_<<entries, result>>

=============================================================================
