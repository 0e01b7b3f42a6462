-------------------------------- MODULE Paths --------------------------------
(***************************************************************************)
(* The path guard, mergegate/paths.py. A path is the sequence of its        *)
(* segments, raw.split("/"); a glob is the sequence of its own, where "*"    *)
(* stands for one segment and "**" for any number. A guard is a record of   *)
(* the globs of a contract: protected, grader and allowed.                  *)
(***************************************************************************)
EXTENDS Sequences, Naturals

CONSTANTS
    Illegal,  \* segments with a backslash or a NUL
    Drive,    \* segments that begin with a letter and a colon
    Blank,    \* segments of white space
    Broken,   \* segments with a line break in them
    Chomped,  \* of each that ends in one: what stands before it
    Partial   \* of each glob segment with a wildcard beside other characters: the names it
              \* stands for, its stem before the first "*" (all of it without one), and the
              \* name it is with "x" for every "*"

\* What split("/") finds before a leading slash, behind a trailing one or between two.
NoName == ""

Wild == {"*", "**"} \cup DOMAIN Partial

ASSUME PathsAssumption ==
    DOMAIN Partial \cap {"*", "**", NoName} = {} /\ DOMAIN Chomped \subseteq Broken

\* What the loop of normalize_path leaves out.
Skipped == {NoName, "."}

Segments(path) == {path[i] : i \in DOMAIN path}

\* What normalize_path refuses. A drive letter and white space are looked for in the raw
\* path only, where it begins and in all of it.
UnsafePath(raw) ==
    \/ Len(raw) > 1 /\ raw[1] = NoName
    \/ Len(raw) = 1 /\ raw[1] \in Blank
    \/ Len(raw) > 0 /\ raw[1] \in Drive
    \/ ".." \in Segments(raw)
    \/ Segments(raw) \cap Illegal # {}
    \/ Segments(raw) \subseteq Skipped

\* parts[n]: what the loop has kept of the first n segments.
NormalizePath(raw) ==
    LET parts[n \in 0 .. Len(raw)] ==
            IF n = 0 THEN <<>>
            ELSE IF raw[n] \in Skipped THEN parts[n - 1]
            ELSE Append(parts[n - 1], raw[n])
    IN  parts[Len(raw)]

\* The globs that end in "/", or that have no wildcard, name a whole subtree.
Compile(pattern) ==
    IF pattern[Len(pattern)] = NoName
    THEN [pattern EXCEPT ![Len(pattern)] = "**"]
    ELSE IF Segments(pattern) \cap Wild = {} THEN Append(pattern, "**") ELSE pattern

StandsFor(s, name) ==
    \/ s = "*" \/ s = name
    \/ s \in DOMAIN Partial /\ name \in Partial[s].names

\* A "**/" that the glob begins with is "(?:[^/]+/)*"; every other "**" has a ".*", which
\* passes no line break.
Leading(glob, i) == i < Len(glob) /\ \A j \in 1 .. i : glob[j] = "**"

\* Segment i of the glob stands for what lies between cut[i - 1] and cut[i] in the path.
IsCut(cut, path, glob) ==
    /\ cut[0] = 0 /\ cut[Len(glob)] = Len(path)
    /\ \A i \in 1 .. Len(glob) :
           \/ /\ glob[i] = "**" /\ cut[i - 1] <= cut[i]
              /\ IF Leading(glob, i) THEN cut[i] < Len(path)
                 ELSE \A j \in cut[i - 1] + 1 .. cut[i] : path[j] \notin Broken
           \/ glob[i] # "**" /\ cut[i] = cut[i - 1] + 1 /\ StandsFor(glob[i], path[cut[i]])

Fits(path, glob) == \E cut \in [0 .. Len(glob) -> 0 .. Len(path)] : IsCut(cut, path, glob)

\* The "$" at the end also matches before a line break that ends the path.
Readings(path) ==
    {path} \cup {[path EXCEPT ![n] = Chomped[path[n]]] :
                    n \in {i \in {Len(path)} : path[i] \in DOMAIN Chomped}}

Matches(path, pattern) == \E p \in Readings(path) : Fits(p, Compile(pattern))

MatchAny(path, patterns) == \E pattern \in patterns : Matches(path, pattern)

\* Mutant: the allow-list is asked first.
MutantClassify(guard, raw) ==
    IF UnsafePath(raw) THEN "unsafe_path"
    ELSE IF MatchAny(NormalizePath(raw), guard.allowed) THEN "accepted"
    ELSE "outside_allowed_source_paths"

\* PathGuard.classify: the refusals come first, and being allowed does not lift one.
Classify(guard, raw) ==
    LET path == NormalizePath(raw) IN
    IF UnsafePath(raw) THEN "unsafe_path"
    ELSE IF MatchAny(path, guard.protected) THEN "protected_path"
    ELSE IF MatchAny(path, guard.grader) THEN "grader_path"
    ELSE IF MatchAny(path, guard.allowed) THEN "accepted"
    ELSE "outside_allowed_source_paths"

=============================================================================
