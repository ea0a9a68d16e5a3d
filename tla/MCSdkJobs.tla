------------------------------ MODULE MCSdkJobs ------------------------------
(* A remediation of project a, a ranked portfolio of b and a that resumes, *)
(* and a dry run of a scan of b.                                           *)
EXTENDS SdkJobs

Project(p, risk) == [cwd |-> p, cves |-> <<"c">>, risk |-> risk]
Call(kind, targets, resume, dryRun) ==
  [kind |-> kind, targets |-> targets, campaign |-> kind = "portfolio",
   resume |-> resume, dryRun |-> dryRun]

MCTracked == {{}, {"b"}}
MCCallOf ==
  <<Call("remediate", <<Project("a", 0)>>, FALSE, FALSE),
    Call("portfolio", <<Project("a", 0), Project("b", 1)>>, TRUE, FALSE),
    Call("scan", <<Project("b", 0)>>, FALSE, TRUE)>>
=============================================================================
