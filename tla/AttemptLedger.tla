--------------------------- MODULE AttemptLedger ---------------------------
(***************************************************************************)
(* What the GitHub App's job queue promises about each job, with the       *)
(* queue, the worker, the file and the process left out: a job waits, is   *)
(* handled, waits again or settles; it is handled at most MaxRuns times;   *)
(* a job that settled never comes back; and a process that dies can only   *)
(* strand a job that was being handled, or lose one.                       *)
(***************************************************************************)
EXTENDS Integers

CONSTANTS Jobs, MaxRuns

VARIABLES
  life,   \* where each job is in its life
  runs    \* how often it was handed to a handler

Lives == {"unknown", "waiting", "active", "settled", "stranded", "gone"}

TypeOK ==
  /\ life \in [Jobs -> Lives]
  /\ runs \in [Jobs -> 0..MaxRuns]

Init ==
  /\ life = [j \in Jobs |-> "unknown"]
  /\ runs = [j \in Jobs |-> 0]

\* A job is handed to a handler, within its budget.
Begins(j) ==
  /\ life[j] = "waiting" /\ life'[j] = "active"
  /\ runs[j] < MaxRuns /\ runs'[j] = runs[j] + 1

\* It waits for another attempt, which the budget still has to allow.
Requeues(j) ==
  /\ life[j] = "active" /\ life'[j] = "waiting"
  /\ runs[j] < MaxRuns

\* The other ways a life goes on; "gone" is the end of every lost job.
Moves(j) ==
  \/ life[j] = "unknown" /\ life'[j] = "waiting"
  \/ life[j] = "active" /\ life'[j] \in {"settled", "stranded"}
  \/ life'[j] = "gone"
  \/ life'[j] = life[j]

\* One step of the queue may move many jobs (a claimed batch, a crash).
Next ==
  \A j \in Jobs : Begins(j) \/ (runs'[j] = runs[j] /\ (Requeues(j) \/ Moves(j)))

Spec == Init /\ [][Next]_<<life, runs>>

=============================================================================
