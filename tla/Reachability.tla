---------------------------- MODULE Reachability ----------------------------
(***************************************************************************)
(* The reachability of a vulnerable symbol (check-reachability.ts): what   *)
(* the scan of a project's files sees of their use of a package.           *)
(*                                                                         *)
(* A file is [scan, reference, name, use]: what the scan gets of it, how   *)
(* it refers to the package, the local name it binds, and what it does     *)
(* with the symbol.                                                        *)
(*   scans       "read", "failed" (not readable, or no syntax tree),       *)
(*               "skipped" (in an ignored or unreadable directory, or of   *)
(*               another extension)                                        *)
(*   references  "named", "renamed", "default", "namespace", "subpath" (a  *)
(*               default import that is the symbol: import x from          *)
(*               "pkg/f"), "require", "unpacked" (const { f: x } =         *)
(*               require), "dynamic", "reexport"; "unrecognised" (import   *)
(*               x = require, a computed name, another loader); "parent"   *)
(*               (names only a package that depends on this one), "none"   *)
(*   names       "symbol" (the symbol's own), "lodash" (or _), "other"     *)
(*   uses        "call" (x() or x.f()), "value" (any other: passed on,     *)
(*               aliased, x.call(), <x/>), "none"                          *)
(* below says where the package is under the parent: "direct" (in the      *)
(* dependencies of its manifest), "unread" (likewise, but the manifest is  *)
(* not in node_modules, or not readable), "deeper".                        *)
(***************************************************************************)
EXTENDS Integers, FiniteSets

Scans == {"read", "failed", "skipped"}
References == {"none", "parent", "unrecognised", "named", "renamed", "default", "namespace",
               "subpath", "require", "unpacked", "dynamic", "reexport"}
Uses == {"call", "value", "none"}
Names == {"symbol", "lodash", "other"}
Belows == {"direct", "unread", "deeper"}

\* Bindings of the symbol itself are called directly, modules by member.
Direct(reference) == reference \in {"named", "renamed", "subpath", "unpacked"}

\* Programs that exist: a named binding keeps the symbol's name, a re-export
\* binds nothing.
WellFormed(f) ==
  /\ f.reference = "named" => f.name = "symbol"
  /\ f.reference = "renamed" => f.name # "symbol"
  /\ f.reference \in {"none", "parent", "reexport"} => f.name = "other" /\ f.use = "none"
  /\ f.reference = "unrecognised" => f.name = "other"
Files == {f \in [scan : Scans, reference : References, name : Names, use : Uses] :
            WellFormed(f)}

\* extractPackageReferences: the imported name of the local one; a require and
\* a dynamic import record none.
ImportedName(f) ==
  CASE f.reference \in {"named", "renamed"} -> "symbol"
    [] f.reference \in {"default", "subpath"} -> "default"
    [] f.reference = "namespace" -> "*"
    [] OTHER -> "unknown"

BoundOnly(f) == Direct(f.reference) /\ ImportedName(f) = "symbol"  \* mutant: imports only
\* traceSymbolInvocations: f() by its imported or its own name, x.f() on a
\* module binding or on one called lodash or _.
Invoked(f) ==
  /\ f.use = "call"
  /\ IF Direct(f.reference)
     THEN ImportedName(f) = "symbol" \/ f.name = "symbol"
     ELSE ImportedName(f) \in {"default", "*"} \/ f.name = "lodash"

\* The files in which the scan finds an import, a require or a re-export of the
\* package, of a path below it or of a compiler alias for one.
Hidden(f) == f.scan # "read" \/ f.reference = "unrecognised"
Referring(files) == {f \in files : ~Hidden(f) /\ f.reference \notin {"none", "parent"}}

\* Only the manifests of the packages that the files import are read.
TransitiveDependency(files, below) ==
  below = "direct" /\ \E f \in files : f.scan = "read" /\ f.reference = "parent"

Assess(files, withSymbol, below) ==
  LET referring == Referring(files) IN
  IF \A f \in files : f.scan = "skipped" THEN "unknown"
  ELSE IF \/ referring = {} /\ ~TransitiveDependency(files, below)
          \/ /\ referring # {} /\ withSymbol
             /\ \A f \in referring : f.reference # "reexport" /\ ~Invoked(f)
       THEN "not-reachable" ELSE "reachable"

\* The uses of the symbol that the trace does not see in a file that it reads.
Unseen(f) ==
  \/ f.use = "value"
  \/ f.use = "call" /\ f.reference \in {"require", "dynamic"} /\ f.name # "lodash"
  \/ f.use = "call" /\ f.reference \in {"subpath", "unpacked"} /\ f.name # "symbol"
=============================================================================
