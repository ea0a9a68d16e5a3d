----------------------------- MODULE MCDecisions -----------------------------
EXTENDS Decisions

Unaffected == <<0, 0, 0, 1>>
MCVersions == {<<1, 0, 0, 1>>, <<1, 0, 1, 1>>, <<1, 1, 0, 1>>,
               <<2, 0, 0, 0>>, <<2, 0, 0, 1>>}
Intervals(starts) ==
  {<<A!Introduced(i)>> : i \in starts}
  \cup {<<A!Introduced(p[1]), A!Fixed(p[2])>> :
          p \in {q \in starts \X MCVersions : A!Before(q[1], q[2])}}
  \cup {<<A!Introduced(p[1]), A!LastAffected(p[2])>> :
          p \in {q \in starts \X MCVersions : A!AtMost(q[1], q[2])}}
MCUpgradeEntries == Intervals(MCVersions \cup {Unaffected})
MCPatchedRanges == {<<A!Introduced(Unaffected), A!Fixed(v)>> : v \in MCVersions}

\* Trees with up to two copies, of p and of another package.
MCListings ==
  LET Entries == [name : {"p", "q"}, version : MCVersions]
  IN {<<>>} \cup {<<e>> : e \in Entries} \cup {<<e, f>> : e \in Entries, f \in Entries}

MCPackages == {"p", "q"}
MCNumbers == 1..3
MCManifests == {m \in [D!Sections -> [MCPackages -> 0..2]] :
                  /\ m["dependencies"]["q"] = 0 /\ m["devDependencies"]["q"] = 0}
MCLocks ==
  LET Entries(name, vs) == [i \in 1..Len(vs) |-> [name |-> name, version |-> vs[i]]]
      Lists == {<<>>} \cup {<<i>> : i \in MCNumbers}
               \cup {<<i, j>> : i \in MCNumbers, j \in MCNumbers}
  IN {Entries("p", vs) \o Entries("q", ws) : vs \in {l \in Lists : Len(l) < 2 \/ l[1] # l[2]},
                                             ws \in {<<1>>, <<2>>}}
MCFindings == {[p \in MCPackages |-> IF p = "p" THEN [v \in MCNumbers |-> IF v \in vs THEN {"f"} ELSE {}]
                                     ELSE [v \in MCNumbers |-> IF v = 1 THEN {"g"} ELSE {}]]
                 : vs \in SUBSET MCNumbers}

MCLines == {<<>>, <<<<"import">>, <<"old">>>>, <<<<"old", "sync">>, <<"sync">>>>}
MCMoreLines == {<<<<"old", "old">>>>, <<<<"sync">>, <<"old">>>>, <<<<"old">>, <<"whole">>>>}
MCPrograms ==
  LET Files(bindings, lines) == [binding : bindings, lines : lines]
      AllFiles == Files(F!Bindings, MCLines \cup MCMoreLines)
      Pair == Files({"default", "namespace"}, MCLines \ {<<>>})
              \cup Files({"dynamic"}, {<<<<"old", "sync">>, <<"sync">>>>})
  IN {<<f>> : f \in AllFiles} \cup {<<f, g>> : f \in Pair, g \in Pair}

MCPolicyLists == {<<>>, <<{"a", "b"}, {}>>}
MCSuppressions ==
  LET S == {s \in P!Entry : s.id = "c2" => s.spelling = "upper" /\ s.justification = "fixed"}
      T == {s \in S : s.expires # "future"}
      One == {<<>>} \cup {<<s>> : s \in S}
      Two(X) == {<<s, t>> : s \in X, t \in X}
  IN ((One \cup Two(S)) \X {<<>>}) \cup (One \X (One \cup Two(T)))
=============================================================================
