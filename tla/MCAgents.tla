------------------------------ MODULE MCAgents ------------------------------
(***************************************************************************)
(* Agents with the policy of a buyer and that of a tool call with a larger  *)
(* cap; drafts that fit the first, the second or neither, or that reach the *)
(* grader by a named file, by a wildcard or not at all; a contract without  *)
(* a draft; names that are not normal; commits on every side of the guard.  *)
(***************************************************************************)
EXTENDS Agents, TLC

MCDrive == {"C:calc.py"}
MCChomped == <<>>
MCPartial ==
    "test_*.py" :> [names |-> {"test_calc.py", "test_x.py"}, stem |-> "test_",
                    probe |-> "test_x.py"]

src == <<"src", "**">>
all == <<"**">>
ci == <<".github", "**">>
tests == <<"tests", "**">>
test == <<"tests", "test_calc.py">>
someTests == <<"tests", "test_*.py">>
deploy == <<".github", "deploy.yml">>
calc == <<"src", "calc.py">>
readme == <<"README.md">>

pytest == [executable |-> "pytest", whole |-> TRUE]
curl == [executable |-> "curl", whole |-> TRUE]

MCPrefixesOf == [pytest |-> {"pytest", "py"}, curl |-> {}]

Policy(repository, cap) ==
    [repository |-> repository, maxReward |-> cap, mandatory |-> {ci}, grader |-> {tests},
     prefixes |-> {"pytest"}, maxHours |-> 2]

MCPolicies == {Policy("buyer", 1), Policy("other", 2)}

Draft(allowed, reward) ==
    [allowed |-> allowed, protected |-> {ci, <<>>}, commands |-> {pytest}, reward |-> reward,
     hours |-> 1]

Usdc(n) == [amount |-> n, plain |-> TRUE]

MCDrafts ==
    {Draft({src, <<".github", "*">>}, Usdc(1)), Draft({all}, Usdc(2)),
     Draft({src, test}, Usdc(1)), Draft({src, someTests}, Usdc(1)),
     Draft({<<>>}, Usdc(1)),
     Draft({src}, [amount |-> 1, plain |-> FALSE]),
     [Draft({src}, Usdc(1)) EXCEPT !.commands = {curl}],
     [Draft({src}, Usdc(1)) EXCEPT !.hours = 3],
     [Draft({src}, Usdc(1)) EXCEPT !.protected = {}]}

Direct(allowed, visibility) ==
    [repository |-> "buyer", pinned |-> TRUE, commands |-> {pytest}, allowed |-> allowed,
     protected |-> {ci}, grader |-> {tests}, reward |-> Usdc(2), hours |-> 9,
     visibility |-> visibility]

MCDirectTerms ==
    {Direct({all}, "PUBLISHED_GRADER"), Direct({src, ci}, "HASH_ONLY"),
     Direct({src}, "THIRD_PARTY_ESCROWED_GRADER")}

dotted == <<"src", ".", "calc.py">>
climbing == <<"src", "..", "deploy.yml">>

driven == <<"C:calc.py">>
dottedDriven == <<".", "C:calc.py">>

MCName == {calc, dotted, dottedDriven, climbing, deploy, readme}

MCOpinions ==
    {[files |-> {dotted, calc}, rating |-> "HIGH"], [files |-> {climbing, deploy}, rating |-> "LOW"],
     [files |-> {calc, dottedDriven}, rating |-> ""]}

MCPlans ==
    {[files |-> {calc, readme}, abandon |-> FALSE], [files |-> {calc, deploy}, abandon |-> FALSE],
     [files |-> {calc, readme}, abandon |-> TRUE]}

\* Which of them is rejected depends on the contract, but for the test.
MCCommit == {{calc, readme}, {calc, deploy}, {test}, {driven}}

=============================================================================
