------------------------------ MODULE Workspace ------------------------------
(***************************************************************************)
(* The graded workspace, mergegate/verifier/workspace.py: the buyer's base  *)
(* tree, the provider's changes and the buyer's grader bundle, assembled in *)
(* the order that leaves the grading to the buyer. A tree maps every path   *)
(* to its bytes; what a submission changes is what git diff --no-renames    *)
(* says of base and head (verifier/git_source.py). Symbolic links, empty    *)
(* directories and the executable bit are not modelled.                     *)
(***************************************************************************)
EXTENDS Paths

CONSTANTS
    ProtectedPaths, GraderPaths, AllowedSourcePaths,  \* the contract's globs
    Path,       \* paths as git has them
    Content,    \* bytes of a file
    Absent,     \* no file
    HookNames,  \* TEST_HOOK_NAMES and TEST_HOOK_SUFFIXES
    Bases,      \* trees a contract may pin
    Bundles     \* grader bundles

\* q lies below p.
Inside(q, p) == Len(q) > Len(p) /\ SubSeq(q, 1, Len(p)) = p

\* A tree has nothing below a file.
IsTree(t) == \A p, q \in Path : t[p] # Absent /\ Inside(q, p) => t[q] = Absent

Trees == {t \in [Path -> Content \cup {Absent}] : IsTree(t)}

FilesOf(t) == {p \in Path : t[p] # Absent}

IsHook(p) == p[Len(p)] \in HookNames

InGit(p) == p[1] = ".git"

\* git tracks no file of its own directory.
Commits == {t \in Trees : \A p \in Path : InGit(p) => t[p] = Absent}

\* PathGuard.from_contract.
ContractGuard ==
    [protected |-> ProtectedPaths, grader |-> GraderPaths, allowed |-> AllowedSourcePaths]

\* What the contract says of each path.
Guarded == [p \in Path |-> Classify(ContractGuard, p)]

GraderFiles == {p \in Path : ~InGit(p) /\ MatchAny(p, GraderPaths)}

\* git prints no path with an empty or a "." segment; split("/") never returns nothing. A
\* bundle holds files, and none where the repository may have a directory.
ASSUME WorkspaceAssumption ==
    /\ \A p \in Path : p \in Seq(STRING) /\ Segments(p) \cap Skipped = {}
    /\ \A pattern \in GraderPaths : pattern \in Seq(STRING) \ {<<>>}
    /\ Bases \subseteq Commits
    /\ Bundles \subseteq Trees
    /\ Absent \notin Content
    /\ \A b \in Bundles :
           /\ FilesOf(b) # {}
           /\ \A p \in FilesOf(b), q \in Path : ~Inside(q, p)

VARIABLES
    base,        \* the tree at base_sha
    head,        \* the tree at submission_sha
    bundle,      \* the buyer's grader bundle
    phase,       \* where the evaluation is
    tree,        \* the workspace
    hooks,       \* baseline_hooks: bytes of the hooks of the base
    applied,     \* applied_paths
    quarantined, purged, injected,  \* what assembly removed and wrote
    guardRoots   \* grader_roots of the runtime guard

inputs == <<base, head, bundle>>

report == <<applied, quarantined, purged, injected, guardRoots>>

workspace == <<tree, hooks, report>>

Phase ==
    {"fund", "submit", "evaluate", "rejected", "apply", "raised", "quarantine", "purge",
     "inject", "strip", "assembled", "settle", "remediate", "done"}

\* The changes of build_submission, one for each path.
Touched == {p \in Path : head[p] # base[p]}

Violations == {p \in Touched : Guarded[p] # "accepted"}

\* _find_hooks.
FindHooks(t) == [p \in {q \in FilesOf(t) : IsHook(q) /\ ~InGit(q)} |-> t[p]]

Without(t, gone) == [p \in Path |-> IF p \in gone THEN Absent ELSE t[p]]

\* WorkspaceRejectedError: a submission that breaks a term of the contract is not run.
Reject ==
    /\ phase = "evaluate" /\ Violations # {}
    /\ phase' = "rejected"
    /\ UNCHANGED <<inputs, workspace>>

\* materialize_base_tree and copytree, for a submission the guard accepts.
Copy ==
    /\ phase = "evaluate" /\ Violations = {}
    /\ tree' = base
    /\ hooks' = FindHooks(base)
    /\ applied' = {} /\ quarantined' = {} /\ purged' = {} /\ injected' = {}
    /\ guardRoots' = {}
    /\ phase' = "apply"
    /\ UNCHANGED inputs

\* A file written where the base has a directory: unlink fails, deletions below it come
\* after it in git's order, and the directory would be left anyway.
OverDirectory ==
    \E p \in Touched : head[p] # Absent /\ \E q \in FilesOf(base) : Inside(q, p)

\* _apply_changes.
Apply ==
    /\ phase = "apply" /\ ~OverDirectory
    /\ tree' = [p \in Path |-> IF p \in Touched THEN head[p] ELSE tree[p]]
    /\ applied' = Touched
    /\ phase' = "quarantine"
    /\ UNCHANGED <<inputs, hooks, quarantined, purged, injected, guardRoots>>

\* The error leaves assemble_workspace, and evaluate, with the workspace half written.
ApplyRaises ==
    /\ phase = "apply" /\ OverDirectory
    /\ phase' = "raised"
    /\ UNCHANGED <<inputs, workspace>>

\* Mutant: only hooks that were added are the provider's.
MutantProviderHooks == {p \in DOMAIN FindHooks(tree) : p \notin DOMAIN hooks}

\* Hooks that were not in the base, differ from it, or were written to.
ProviderHooks ==
    {p \in DOMAIN FindHooks(tree) :
        ~(p \in DOMAIN hooks /\ hooks[p] = tree[p]) \/ p \in applied}

\* _quarantine_provider_hooks.
Quarantine ==
    /\ phase = "quarantine"
    /\ quarantined' = ProviderHooks
    /\ tree' = Without(tree, ProviderHooks)
    /\ phase' = "purge"
    /\ UNCHANGED <<inputs, hooks, applied, purged, injected, guardRoots>>

\* _purge_grader_paths.
Purge ==
    /\ phase = "purge"
    /\ purged' = FilesOf(tree) \cap GraderFiles \cap applied
    /\ tree' = Without(tree, GraderFiles)
    /\ phase' = "inject"
    /\ UNCHANGED <<inputs, hooks, applied, quarantined, injected, guardRoots>>

\* A file of the provider's, or of the base, where the bundle needs a directory.
BelowFile == \E p \in FilesOf(bundle), q \in FilesOf(tree) : Inside(p, q)

InjectRaises ==
    /\ phase = "inject" /\ BelowFile
    /\ phase' = "raised"
    /\ UNCHANGED <<inputs, workspace>>

\* Mutant: only what lies on a grader path is reported.
MutantInject ==
    /\ phase = "inject" /\ ~BelowFile
    /\ tree' = [p \in Path |-> IF p \in FilesOf(bundle) THEN bundle[p] ELSE tree[p]]
    /\ injected' = FilesOf(bundle) \cap GraderFiles
    /\ phase' = "strip"
    /\ UNCHANGED <<inputs, hooks, applied, quarantined, purged, guardRoots>>

\* _inject_grader_bundle.
Inject ==
    /\ phase = "inject" /\ ~BelowFile
    /\ tree' = [p \in Path |-> IF p \in FilesOf(bundle) THEN bundle[p] ELSE tree[p]]
    /\ injected' = FilesOf(bundle)
    /\ phase' = "strip"
    /\ UNCHANGED <<inputs, hooks, applied, quarantined, purged, guardRoots>>

\* A "*" in it, or the slash that rstrip takes off.
EndsHead(s) == s \in {"*", "**", NoName} \/ (s \in DOMAIN Partial /\ Partial[s].stem # s)

Stem(s) == IF s \in DOMAIN Partial /\ Partial[s].stem # NoName THEN <<Partial[s].stem>> ELSE <<>>

\* What a glob says before its first "*", which may be in the middle of a segment.
LiteralHead(pattern) ==
    LET ends == {i \in 1 .. Len(pattern) : EndsHead(pattern[i])}
        first == CHOOSE i \in ends : \A j \in ends : i <= j
    IN  IF ends = {} THEN pattern ELSE SubSeq(pattern, 1, first - 1) \o Stem(pattern[first])

\* _existing_roots.
ExistingRoots(t, patterns) ==
    {root \in {LiteralHead(pattern) : pattern \in patterns} :
        root # <<>> /\ \E p \in FilesOf(t) : p = root \/ Inside(p, root)}

\* _strip_git, and the roots of the tree that is left.
Strip ==
    /\ phase = "strip"
    /\ tree' = Without(tree, {p \in Path : InGit(p)})
    /\ guardRoots' = ExistingRoots(tree', GraderPaths)
    /\ phase' = "assembled"
    /\ UNCHANGED <<inputs, hooks, applied, quarantined, purged, injected>>

Assemble ==
    \/ Reject \/ Copy
    \/ Apply \/ ApplyRaises
    \/ Quarantine \/ Purge
    \/ Inject \/ InjectRaises
    \/ Strip

-----------------------------------------------------------------------------
(* Properties of the assembled workspace *)

BundleFiles == {p \in FilesOf(bundle) : ~InGit(p)}

\* What grades is the buyer's: the bundle's bytes stand as they are, nothing else lies on
\* a grader path, and every hook is the bundle's or the base's own.
GraderIsBuyers ==
    phase = "assembled" =>
        /\ \A p \in BundleFiles : tree[p] = bundle[p]
        /\ \A p \in GraderFiles \ BundleFiles : tree[p] = Absent
        /\ \A p \in FilesOf(tree) \ BundleFiles :
               IsHook(p) => tree[p] = base[p] /\ head[p] = base[p]

\* Its head is a directory or file that it names in full.
Anchored(pattern) ==
    LET named == LiteralHead(pattern) IN
    /\ named # <<>> /\ Segments(named) \cap DOMAIN Partial = {}
    /\ named = SubSeq(pattern, 1, Len(named))

\* The runtime guard is given the roots of the final tree: it watches every file of the
\* bundle on a grader path, if the glob that matches it has a head of whole names and
\* the file's own name ends in no line break.
GraderIsGuarded ==
    phase = "assembled" =>
        \A p \in BundleFiles, pattern \in GraderPaths :
            Matches(p, pattern) /\ Anchored(pattern) /\ p[Len(p)] \notin DOMAIN Chomped =>
                \E root \in guardRoots : p = root \/ Inside(p, root)

\* What the contract lets a provider write.
Writable(p) ==
    MatchAny(p, AllowedSourcePaths) /\ ~MatchAny(p, ProtectedPaths) /\ ~MatchAny(p, GraderPaths)

\* Bytes of the provider's stand on paths that the contract lets it write, and nowhere
\* else; everything else is as the buyer pinned it.
ProviderConfined ==
    phase = "assembled" =>
        \A p \in FilesOf(tree) \ BundleFiles :
            \/ tree[p] = base[p]
            \/ Writable(p) /\ tree[p] = head[p]

\* Assembly corrects nothing in silence: a path the submission changed stands as
\* submitted or is reported as quarantined or replaced, and the purge behind the path
\* guard never meets one.
NoSilentFixup ==
    phase = "assembled" =>
        /\ \A p \in Touched : tree[p] = head[p] \/ p \in quarantined \cup injected
        /\ purged = {}

-----------------------------------------------------------------------------
(* What makes them inductive: the tree each step leaves *)

Quarantined(p) == IF IsHook(p) /\ ~InGit(p) /\ p \in Touched THEN Absent ELSE head[p]

Purged(p) == IF p \in GraderFiles THEN Absent ELSE Quarantined(p)

Injected(p) == IF bundle[p] # Absent THEN bundle[p] ELSE Purged(p)

Stripped(p) == IF InGit(p) THEN Absent ELSE Injected(p)

AssemblyInv ==
    /\ phase \in {"apply", "quarantine", "purge", "inject", "strip", "assembled"} =>
          Violations = {}
    /\ phase \in {"apply", "quarantine"} => hooks = FindHooks(base)
    /\ phase \in {"quarantine", "purge"} => applied = Touched
    /\ phase \in {"purge", "inject", "strip", "assembled"} =>
          \A p \in Touched : IsHook(p) /\ ~InGit(p) => head[p] = Absent \/ p \in quarantined
    /\ phase \in {"inject", "strip", "assembled"} => purged = {}
    /\ phase \in {"strip", "assembled"} => injected = FilesOf(bundle)
    /\ phase = "apply" => tree = base
    /\ phase = "quarantine" => tree = head
    /\ phase = "purge" => tree = [p \in Path |-> Quarantined(p)]
    /\ phase = "inject" => tree = [p \in Path |-> Purged(p)]
    /\ phase = "strip" => tree = [p \in Path |-> Injected(p)]
    /\ phase = "assembled" =>
          tree = [p \in Path |-> Stripped(p)] /\ guardRoots = ExistingRoots(tree, GraderPaths)

=============================================================================
