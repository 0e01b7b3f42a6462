----------------------------- MODULE MCRetryFlow -----------------------------
(***************************************************************************)
(* RetryFlow for a small repository: a source file or a directory in its    *)
(* place, a hook among the sources, a name git quotes, a protected file the *)
(* allow-list names too, a file beside it with a line break in its name, a  *)
(* grader file under tests and one among the sources that a glob names in   *)
(* part, and a file outside every term.                                     *)
(***************************************************************************)
EXTENDS RetryFlow, TLC

CONSTANTS b, c, g

calc == <<"src", "calc.py">>
part == <<"src", "calc.py", "part.py">>
hook == <<"src", "conftest.py">>
accent == <<"src", "e-acute.py">>
deploy == <<".github", "workflows", "deploy.yml">>
broken == <<".github", "workflows", "two\nlines">>
test == <<"tests", "test_calc.py">>
check == <<"src", "check", "run.py">>
checkFile == <<"src", "check">>
rootHook == <<"conftest.py">>
readme == <<"README.md">>
gitFile == <<".git", "HEAD">>

MCPath ==
    {calc, part, hook, accent, deploy, broken, test, check, checkFile, rootHook, gitFile, readme}

MCBroken == {"two\nlines"}
MCChomped == <<>>
MCQuotedNames == {"e-acute.py"} \cup MCBroken
MCPartial == "r*.py" :> [names |-> {"run.py"}, stem |-> "r", probe |-> "rx.py"]

\* The second allowed glob matches the name with the line break, the protected one does not.
MCProtected == {<<".github", "">>}
MCGrader == {<<"tests", "**">>, <<"conftest.py">>, <<"src", "check", "r*.py">>}
MCAllowed == {<<"src", "**">>, <<".github", "**">>, <<".github", "**", "*">>}

Tree(files) == [p \in MCPath |-> IF p \in DOMAIN files THEN files[p] ELSE Absent]

MCBases ==
    {Tree(calc :> b @@ deploy :> b @@ hook :> b @@ readme :> b),
     Tree(part :> b @@ deploy :> b @@ test :> b @@ check :> b @@ rootHook :> b)}

MCBundles == {Tree(test :> g @@ rootHook :> g), Tree(test :> g @@ check :> g @@ accent :> g @@ gitFile :> g)}

\* The repository tracks no .git. The grader's files are not modified, only added as the
\* base has others, or deleted. Where the name with a line break is added, three of the
\* sources and documents are absent.
MCSubmissions ==
    {t \in [MCPath -> {Absent, b, c}] :
        /\ t[gitFile] = Absent
        /\ IsTree(t)
        /\ t[rootHook] # c /\ t[test] # c /\ t[check] # c /\ t[readme] # c
        /\ t[broken] # b
        /\ t[broken] = c => t[accent] = Absent /\ t[hook] = Absent /\ t[readme] = Absent}

=============================================================================
