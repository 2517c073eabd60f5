--------------------------- MODULE GitAttribution ---------------------------
(***************************************************************************)
(* Attribution of local Git changes to functions                           *)
(* (internal/analyzer/git.go, captureGitSnapshot).                         *)
(*                                                                         *)
(* git itself is external: a patch is a set of file diffs, each with the   *)
(* set of hunks `git diff --unified=N` prints; HEAD and the working tree   *)
(* map paths to the names they declare.  A path is a record of its         *)
(* directory and name; its language decides how a declaration is           *)
(* identified.                                                             *)
(***************************************************************************)
EXTENDS Integers, FiniteSets, Sequences

Absent == [dir |-> "", name |-> "", language |-> ""]   \* no such file

-----------------------------------------------------------------------------
(* Hunks *)

\* Mutant of NewLine: removed lines advance the counter too.
NewLine_CountsRemoved(hunk, i) == hunk.newStart + i - 1

\* Line of the new file at which line i of a hunk stands: a removed line stands
\* where the next line of the new file does (the counter of hunkTouchesSpan).
NewLine(hunk, i) ==
    hunk.newStart + Cardinality({j \in 1..(i - 1) : hunk.lines[j] \in {"+", "="}})

HunkTouchesSpan(hunk, first, last) ==
    \E i \in DOMAIN hunk.lines :
       hunk.lines[i] \in {"+", "-"} /\ NewLine(hunk, i) \in first..last

\* functionDiff is not empty.
HasDiff(file, span) ==
    \E hunk \in file.hunks : HunkTouchesSpan(hunk, span.first, span.last)

\* What `git diff` prints of an edit script, a sequence of operations on lines:
\* the changed lines with `context` kept ones ("=") around them, grouped where they meet.
NewLinesUpTo(script, i) == Cardinality({j \in 1..i : script[j].op # "-"})

Shown(script, context) ==
    {i \in DOMAIN script : \E j \in DOMAIN script :
        script[j].op # "=" /\ j \in (i - context)..(i + context)}

HunkAt(script, first, last) ==
    [newStart |-> NewLinesUpTo(script, first - 1) + 1,
     lines |-> [k \in 1..(last - first + 1) |-> script[first + k - 1].op]]

HunksOf(script, context) ==
    LET shown == Shown(script, context)
    IN  {HunkAt(script, g[1], g[2]) :
           g \in {p \in shown \X shown : /\ p[1] <= p[2]
                                        /\ p[1]..p[2] \subseteq shown
                                        /\ p[1] - 1 \notin shown
                                        /\ p[2] + 1 \notin shown}}

-----------------------------------------------------------------------------
(* Identity of declarations *)

IsGo(path) == path.language = "go"

\* Go declarations are identified by directory, package and name, JavaScript ones
\* by path and by a name qualified with the module's path.
DeclarationKey(path, module, name) ==
    IF IsGo(path) THEN <<"go", path.dir, name>> ELSE <<"javascript", path, module, name>>

\* The name a JavaScript symbol carries is qualified relative to the root that was
\* analyzed, the names read from HEAD relative to the root of the repository.
SpanKey(span, nested) ==
    DeclarationKey(span.path, IF nested THEN [span.path EXCEPT !.dir = "below"] ELSE span.path, span.name)

HeadKeys(head, paths) ==
    UNION {{DeclarationKey(p, p, name) : name \in head[p]} : p \in paths}

\* HEAD paths that can decide whether a span of the patch is new or updated.
BaselinePaths(files, spans) ==
    LET WithSpans == {file \in files : \E span \in spans : span.path = file.path}
        Directories == {file.path.dir : file \in WithSpans}
    IN  {file.oldPath : file \in
           {f \in files : /\ f.oldPath # Absent
                          /\ IF IsGo(f.oldPath) THEN f.oldPath.dir \in Directories
                             ELSE f.oldPath = f.path /\ f \in WithSpans}}

\* One `git cat-file --batch`: a response per path, in order.  A missing object is
\* left out; a response that cannot be split fails them all (parseCatFileBatch).
BatchContents(order, responses) ==
    IF \E i \in DOMAIN order : responses[i] = "malformed" THEN {}
    ELSE {order[i] : i \in {k \in DOMAIN order : responses[k] = "blob"}}

InSomeOrder(paths) ==
    CHOOSE order \in [1..Cardinality(paths) -> paths] :
       \A i, j \in DOMAIN order : order[i] = order[j] => i = j

Responses(head, order, readable) ==
    [i \in DOMAIN order |-> IF ~readable THEN "malformed"
                            ELSE IF order[i] \in DOMAIN head THEN "blob" ELSE "missing"]

\* The keys at HEAD, none of them when git or its answer fails (baselineFunctionKeys).
BaselineKeys(head, paths, readable) ==
    LET order == InSomeOrder(paths)
    IN  HeadKeys(head, BatchContents(order, Responses(head, order, readable)))

-----------------------------------------------------------------------------
(* The snapshot *)

\* Functions are found by file and line: of several on one line the walk over the
\* map leaves one, which then stands for the Go declarations of the line and is the
\* only one of the JavaScript callables (currentFunctionSpans).
SpanChoices(functions) ==
    LET Named == {f \in functions : ~f.anonymous}
        Places == {<<f.path, f.line>> : f \in Named}
        At(place) == {f \in Named : <<f.path, f.line>> = place}
        Spans(choice) ==
            {[f EXCEPT !.id = choice[<<f.path, f.line>>].id] :
               f \in {g \in Named : IsGo(g.path) \/ choice[<<g.path, g.line>>] = g}}
    IN  {Spans(choice) : choice \in
           {c \in [Places -> Named] : \A p \in Places : c[p] \in At(p)}}

NewKind(spans, paths) == {[id |-> s.id, kind |-> "new"] : s \in {t \in spans : t.path \in paths}}

\* Of the spans of one function the last in the file has the last word.
DiffKind(repository, spans) ==
    LET files == repository.patch
        baseline == BaselineKeys(repository.head, BaselinePaths(files, spans), repository.headReadable)
        Touched == {s \in spans : \E file \in files : file.path = s.path /\ HasDiff(file, s)}
        Decisive == {s \in Touched : \A t \in Touched : t.id = s.id => t.position <= s.position}
    IN  {[id |-> s.id,
          kind |-> IF SpanKey(s, repository.nested) \in baseline THEN "updated" ELSE "new"] : s \in Decisive}

\* The changes recorded of the spans.  Each git command may fail and then adds
\* nothing; an untracked file overrides what the patch said.
ChangesOf(repository, spans) ==
    CASE ~repository.available -> {}
      [] repository.unborn -> NewKind(spans, repository.listed)
      [] OTHER ->
           LET untracked == NewKind(spans, repository.untracked)
           IN  untracked \cup {c \in DiffKind(repository, spans) : \A u \in untracked : u.id # c.id}

CaptureGitSnapshot(repository, functions) ==
    {ChangesOf(repository, spans) : spans \in SpanChoices(functions)}
============================================================================
