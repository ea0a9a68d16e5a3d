----------------------------- MODULE ProofOfFix -----------------------------
(***************************************************************************)
(* How a run of a reproduction test is judged (proof-of-fix/runner.ts).    *)
(*                                                                         *)
(* A run is the child process as execa reports it: its exit code, whether  *)
(* it timed out or was killed by a signal, and what each stream shows.     *)
(* The runner tells apart six kinds of streams:                            *)
(*   "quiet"     nothing it looks for                                      *)
(*   "assertion" an anchored assertion header and no crash                 *)
(*   "mention"   the words of one, in a stack frame only                   *)
(*   "error"     a line "Error: ..."                                       *)
(*   "typed"     a line "TypeError: ..." or of another named error         *)
(*   "broken"    a syntax, module, option or file error                    *)
(***************************************************************************)
EXTENDS Integers

Streams == {"quiet", "assertion", "mention", "error", "typed", "broken"}
Process == [exit : 0..255, timedOut : BOOLEAN, signal : BOOLEAN,
            out : Streams, err : Streams]

HarnessFailure(run) ==
  \/ run.signal
  \/ run.exit \in {126, 127} \/ run.exit > 128
  \/ {run.out, run.err} \cap {"broken", "typed"} # {}

AssertionFailure(run, stream) == run.exit = 1 /\ stream = "assertion"

NoVeto(stream) == FALSE  \* mutant: a crash on stderr is overlooked
CrashVeto(stream) == stream \in {"mention", "error", "typed", "broken"}

\* stderr first; stdout counts when stderr shows no crash.  The message of
\* the error repeats both and decides nothing more.
Reproduced(run) ==
  \/ AssertionFailure(run, run.err)
  \/ ~CrashVeto(run.err) /\ AssertionFailure(run, run.out)

\* The test must fail, and by its assertion, before the fix ...
NegativePasses(run) ==
  /\ run.exit # 0
  /\ ~run.timedOut
  /\ ~HarnessFailure(run)
  /\ Reproduced(run)

\* ... and exit with 0 after it.
PositivePasses(run) == run.exit = 0

\* The verification that assembleProofOfFixVerification records.
Verified(negative, positive, regression) ==
  negative /\ positive /\ (regression.executed => regression.passed)

-----------------------------------------------------------------------------
(* Reproduction tests, by what they do.  The first two reproduce the       *)
(* vulnerability; the others only look so to one who reads less.  Some are *)
(* named for what they show on stderr.                                     *)

Genuine == {"throws", "prints"}
Noisy == {"mention", "error", "typed", "broken"}
Kinds == Genuine \cup Noisy \cup {"vacuous", "stuck", "hangs", "exits", "killed"}

\* Whether a test of this kind fails on a vulnerable target, or a fixed one.
Fails(kind, vulnerable) ==
  \/ kind \in {"stuck", "broken"}
  \/ vulnerable /\ kind # "vacuous"

\* What it then shows; most of them print an assertion to stdout.
Behaviour(kind, vulnerable) ==
  IF Fails(kind, vulnerable)
  THEN [exit |-> IF kind = "exits" THEN 2 ELSE 1,
        timedOut |-> kind = "hangs",
        signal |-> kind = "killed",
        out |-> IF kind \in {"throws", "stuck", "broken"} THEN "quiet" ELSE "assertion",
        err |-> IF kind \in {"throws", "stuck"} THEN "assertion"
                ELSE IF kind \in Noisy THEN kind ELSE "quiet"]
  ELSE [exit |-> 0, timedOut |-> FALSE, signal |-> FALSE,
        out |-> "quiet", err |-> "quiet"]
=============================================================================
