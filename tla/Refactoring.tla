----------------------------- MODULE Refactoring -----------------------------
(***************************************************************************)
(* The codemods for a breaking upgrade (refactor/refactor-agent.ts): every *)
(* rule that a file and the compiler's output call for adds edits of the   *)
(* same text, which are then applied from the end to the start.            *)
(*                                                                         *)
(* A text is a sequence of tokens; an edit replaces those from start       *)
(* (exclusive) to end (inclusive).  A file is its import of the package,   *)
(* which binds x, the package's own name, and lines of uses of x, among    *)
(* which may be imports of the member old.  output is what the compiler    *)
(* says: the words the rules look for, and the members it suggests another *)
(* name for, each with its line.                                           *)
(***************************************************************************)
EXTENDS Integers, Sequences, FiniteSets, SequencesExt, FiniteSetsExt

Edit(start, end, text) == [start |-> start, end |-> end, text |-> text]
Apply(text, edit) ==
  SubSeq(text, 1, edit.start) \o edit.text \o SubSeq(text, edit.end + 1, Len(text))

Ascending(edits, i, j) ==  \* mutant: from the start to the end
  \/ edits[i].start < edits[j].start
  \/ edits[i].start = edits[j].start /\ i < j
Descending(edits, i, j) ==
  \/ edits[i].start > edits[j].start
  \/ edits[i].start = edits[j].start /\ i < j

\* applyEdits: the edits in the order of a stable sort; that of the smallest
\* start comes last.
ApplyEdits(text, edits) ==
  LET Lowest(left) == CHOOSE i \in left : \A j \in left \ {i} : Descending(edits, j, i)
  IN MapThenFoldSet(LAMBDA edit, t : Apply(t, edit), text,
                    LAMBDA i : edits[i], Lowest, DOMAIN edits)

Disjoint(edits) ==
  \A i, j \in DOMAIN edits : i # j =>
    \/ edits[i].end <= edits[j].start
    \/ edits[j].end <= edits[i].start

\* What disjoint edits mean, token by token.
Splice(text, edits) ==
  LET inserted(k) == FlattenSeq([i \in 1..Len(edits) |->
                       IF edits[i].start = k THEN edits[i].text ELSE <<>>])
      kept(k) == IF \E i \in DOMAIN edits : edits[i].start < k /\ k <= edits[i].end
                 THEN <<>> ELSE <<text[k]>>
  IN FlattenSeq([k \in 1..Len(text) |-> inserted(k - 1) \o kept(k)])

-----------------------------------------------------------------------------
(* A file *)

Bindings == {"default", "namespace", "subpath", "require", "dynamic"}
Uses == {"sync", "old", "whole", "import"}
Words == {"module", "sync", "noDefault", "onlyDefault"}

ImportText(binding) ==
  CASE binding = "default" -> <<"import", "x", "from", "pkg">>
    [] binding = "namespace" -> <<"import", "*", "as", "x", "from", "pkg">>
    [] binding = "subpath" -> <<"import", "x", "from", "pkg", "/x">>
    [] binding = "require" -> <<"x", "=", "require", "pkg">>
    [] binding = "dynamic" -> <<"x", "=", "await", "import", "pkg">>
NamedImport(name) == <<"import", "{", "x", "as", name, "}", "from", "pkg">>

\* x.sync(), x.old(), x() and import { old } from pkg.
UseText(use) ==
  CASE use = "whole" -> <<"x", "()">>
    [] use = "import" -> <<"import", "{", "old", "}", "from", "pkg">>
    [] OTHER -> <<"x", ".", use, "()">>

\* The uses of a file in order, each with its line (the import is line 1).
Occurrences(file) ==
  FlattenSeq([l \in 1..Len(file.lines) |->
    [i \in 1..Len(file.lines[l]) |-> [use |-> file.lines[l][i], line |-> l + 1]]])
TextOf(occurrences) ==
  FlattenSeq([i \in 1..Len(occurrences) |-> UseText(occurrences[i].use)])
Source(file) == ImportText(file.binding) \o TextOf(Occurrences(file))
Calls(file, use) == \E o \in ToSet(Occurrences(file)) : o.use = use

-----------------------------------------------------------------------------
(* The rules of transformFileContent *)

When(condition, seq) == IF condition THEN seq ELSE <<>>

\* An edit of tokens from + 1 to to of each occurrence in uses.
EditUses(file, uses, from, to, text) ==
  LET all == Occurrences(file)
      at(k) == Len(ImportText(file.binding)) + Len(TextOf(SubSeq(all, 1, k - 1)))
  IN FlattenSeq([k \in 1..Len(all) |->
       When(all[k] \in uses, <<Edit(at(k) + from, at(k) + to, text)>>)])
EditImport(file, text) == <<Edit(0, Len(ImportText(file.binding)), text)>>

SubpathRule(file, output) ==
  When(file.binding = "subpath" /\ "module" \in output.words,
       EditImport(file, NamedImport("x")))

\* rimraf, uuid, glob, mkdirp: the calls by the local name, whatever bound it;
\* the import only when it is the package's default one.
KnownApplies(file, known, output) ==
  known /\ ("sync" \in output.words \/ Calls(file, "sync"))
KnownRule(file, known, output) ==
  When(KnownApplies(file, known, output),
       EditUses(file, {o \in ToSet(Occurrences(file)) : o.use = "sync"}, 0, 3, <<"xSync">>)
       \o When(file.binding = "default", EditImport(file, NamedImport("xSync"))))

DefaultRule(file, output) ==
  When(file.binding = "default" /\ "noDefault" \in output.words,
       EditImport(file, ImportText("namespace")))

\* Every import of the package becomes the default one.
NamespaceApplies(file, output) ==
  file.binding = "namespace" /\ "onlyDefault" \in output.words
NamespaceRule(file, output) ==
  When(NamespaceApplies(file, output),
       EditUses(file, {o \in ToSet(Occurrences(file)) : o.use = "import"}, 0, 6,
                ImportText("default"))
       \o EditImport(file, ImportText("default")))

\* "Did you mean": for every diagnostic, each such member of its line and each
\* import of the member on any line, in whatever file.
Meant(file, diagnostic) ==
  {o \in ToSet(Occurrences(file)) :
     o = diagnostic \/ (o.use = "import" /\ diagnostic.use = "old")}
SuggestionRule(file, output) ==
  FlattenSeq([i \in 1..Len(output.suggestions) |->
    EditUses(file, Meant(file, output.suggestions[i]), 2, 3, <<"new", "er">>)])

Edits(file, known, output) ==
  SubpathRule(file, output) \o KnownRule(file, known, output)
  \o DefaultRule(file, output) \o NamespaceRule(file, output)
  \o SuggestionRule(file, output)

TransformFile(file, known, output) ==
  ApplyEdits(Source(file), Edits(file, known, output))

\* What the compiler suggests for the members of a program.
Suggestions(files, members) ==
  LET all == FlattenSeq([k \in 1..Len(files) |-> Occurrences(files[k])])
      member(o) == IF o.use = "import" THEN [o EXCEPT !.use = "old"] ELSE o
  IN FlattenSeq([k \in 1..Len(all) |->
       When(member(all[k]).use \in members, <<member(all[k])>>)])

\* Two rules claim the same tokens, or two diagnostics the same member: there is
\* no check of the line for an import, so any two of "old" do.
RulesCollide(file, known, output) ==
  \/ KnownApplies(file, known, output) /\ file.binding = "default"
     /\ "noDefault" \in output.words
  \/ KnownApplies(file, known, output) /\ Calls(file, "sync")
     /\ \E o \in ToSet(Occurrences(file)) :
          o.use = "sync" /\ o \in ToSet(output.suggestions)
  \/ NamespaceApplies(file, output) /\ Calls(file, "import")
     /\ \E d \in ToSet(output.suggestions) : d.use = "old"
  \/ \E i, j \in 1..Len(output.suggestions) :
       /\ i # j
       /\ Meant(file, output.suggestions[i]) \cap Meant(file, output.suggestions[j]) # {}

-----------------------------------------------------------------------------
(* transformCallArguments, on the text of a call's arguments.  Argument     *)
(* number call.nested, if not 0, is itself a call of the function, with    *)
(* the arguments call.inner.  dropIndex is drop - 1 (drop = 0: none),      *)
(* reorder is i and j (equal: none).  TransformFile gives it the text that *)
(* the rules leave; no caller in the repository asks for it yet.           *)

Arguments(args) ==
  FlattenSeq([k \in 1..Len(args) |-> IF k = 1 THEN <<args[k]>> ELSE <<",", args[k]>>])
Nested(call) == <<"f(">> \o Arguments(call.inner) \o <<")">>
CallText(call) ==
  IF call.nested = 0 THEN Arguments(call.args)
  ELSE Apply(Arguments(call.args),
             Edit(2 * call.nested - 2, 2 * call.nested - 1, Nested(call)))

\* Where each argument starts and ends: the call's, and those of the inner one.
Spans(call) ==
  LET more == Len(Nested(call)) - 1
  IN [k \in 1..Len(call.args) |->
        [start |-> 2 * k - 2 + (IF call.nested \in 1..k - 1 THEN more ELSE 0),
         end |-> 2 * k - 1 + (IF call.nested \in 1..k THEN more ELSE 0)]]
InnerSpans(call) ==
  IF call.nested = 0 THEN <<>>
  ELSE [k \in 1..Len(call.inner) |-> [start |-> 2 * call.nested + 2 * k - 3,
                                      end |-> 2 * call.nested + 2 * k - 2]]

Drops(n, drop) == drop \in 1..n
DropAlone(spans, drop) ==  \* mutant: the comma stays
  When(Drops(Len(spans), drop), <<Edit(spans[drop].start, spans[drop].end, <<>>)>>)
DropEdits(spans, drop) ==
  LET n == Len(spans) IN
  CASE ~Drops(n, drop) -> <<>>
    [] Drops(n, drop) /\ drop < n -> <<Edit(spans[drop].start, spans[drop + 1].start, <<>>)>>
    [] drop = n /\ n = 1 -> <<Edit(spans[1].start, spans[1].end, <<>>)>>
    [] drop = n /\ n > 1 -> <<Edit(spans[n - 1].end, spans[n].end, <<>>)>>

Swaps(n, i, j) == i # j /\ i \in 1..n /\ j \in 1..n
SwapEdits(text, spans, i, j) ==
  LET of(k) == SubSeq(text, spans[k].start + 1, spans[k].end)
  IN When(Swaps(Len(spans), i, j), <<Edit(spans[i].start, spans[i].end, of(j)),
                                     Edit(spans[j].start, spans[j].end, of(i))>>)

ArgumentEdits(call, drop, i, j) ==
  LET of(spans) == DropEdits(spans, drop) \o SwapEdits(CallText(call), spans, i, j)
  IN of(Spans(call)) \o of(InnerSpans(call))
TransformArguments(call, drop, i, j) ==
  ApplyEdits(CallText(call), ArgumentEdits(call, drop, i, j))

\* The dropped argument is swapped too, or an edited one holds an edited call.
ArgumentsCollide(call, drop, i, j) ==
  LET n == Len(call.args)
      m == IF call.nested = 0 THEN 0 ELSE Len(call.inner)
      Moved(l) == {k \in 1..l : k = drop \/ (Swaps(l, i, j) /\ k \in {i, j})}
  IN \/ \E l \in {n, m} : Drops(l, drop) /\ Swaps(l, i, j) /\ drop \in {i, j}
     \/ call.nested \in Moved(n) /\ Moved(m) # {}

-----------------------------------------------------------------------------
(* findPackageCallSites: the files that import or require the package at   *)
(* their top level; refactorConsumerCallSites writes those whose text      *)
(* changed.  The write of file number failing throws (0: none), and every  *)
(* file seen so far is written back from its snapshot; left says what the  *)
(* snapshot's write leaves, which may fail too, before or after the file   *)
(* has been truncated.                                                     *)

CallSite(file) == file.binding # "dynamic" \/ Calls(file, "import")
Lefts == {"restored", "kept", "cut"}

Refactor(files, known, output, failing, left) ==
  LET new == [k \in 1..Len(files) |->
                IF CallSite(files[k]) THEN TransformFile(files[k], known, output)
                ELSE Source(files[k])]
      changed == {k \in 1..Len(files) : new[k] # Source(files[k])}
      throws == failing \in changed
      written == [new EXCEPT ![failing] = <<>>]
      seen(k) == CallSite(files[k]) /\ k <= failing
  IN [applied |-> ~throws /\ changed # {},
      files |-> IF throws THEN {} ELSE changed,
      texts |-> [k \in 1..Len(files) |->
                   IF ~throws THEN new[k]
                   ELSE IF ~seen(k) \/ left[k] = "restored" THEN Source(files[k])
                   ELSE IF left[k] = "kept" THEN written[k] ELSE <<>>]]
=============================================================================
