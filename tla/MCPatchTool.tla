---------------------------- MODULE MCPatchTool ----------------------------
(* Two calls for package p, the second reusing the first one's test and    *)
(* requiring a proof, and a call for q without one.                        *)
EXTENDS PatchTool

MCTestKinds == {"prints", "mention", "vacuous", "stuck"}

MCCalls == {"c1", "c2", "c3"}
MCPackages == {"p", "q"}
MCPackageOf == [c \in MCCalls |-> IF c = "c3" THEN "q" ELSE "p"]
MCDiffsOf == [c \in MCCalls |-> CASE c = "c1" -> {"fixes"}
                                  [] c = "c2" -> {"fixes"}
                                  [] OTHER -> {"conflicts"}]
MCProofOf == [c \in MCCalls |-> CASE c = "c1" -> "script"
                                  [] c = "c2" -> "reuse"
                                  [] OTHER -> "off"]
=============================================================================
