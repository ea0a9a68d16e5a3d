----------------------------- MODULE MCScanRun -----------------------------
(***************************************************************************)
(* ScanRun for TLC: two CVEs that share package p, one of them escalating. *)
(* A wide project with a transitive and a denied package is scanned once;  *)
(* a narrow one, with p alone, is scanned twice.                           *)
(***************************************************************************)
EXTENDS ScanRun, TLC

CONSTANTS c1, c2, p, q, d

Severities == (c1 :> "HIGH") @@ (c2 :> "LOW")

Wide == [affects: {(c1 :> {p, q}) @@ (c2 :> {p, d})},
         grouping: {"per-cve", "per-package", "by-severity"},
         scans: {1}]

Narrow == [affects: {(c1 :> {p}) @@ (c2 :> {p})}, grouping: {"all"}, scans: {2}]

WideAndNarrow == Wide \cup Narrow

=============================================================================
