------------------------------ MODULE Drafting ------------------------------
(***************************************************************************)
(* From a model's proposal to terms a buyer can sign,                       *)
(* mergegate/drafting.py. The model is external: whatever has the shape of  *)
(* the schema may come back from it, or nothing. A policy is the buyer      *)
(* organisation's. Amounts are in units of 0.000001 USDC.                   *)
(***************************************************************************)
EXTENDS Contract, Integers

CONSTANTS
    NoAnswer,   \* no key, no package, an error, a timeout, or no JSON object
    NoDraft,    \* ContractDraft.unavailable
    PrefixesOf  \* of an executable: what its base name starts with

\* generate_json never raises: any failure is one more answer.
GenerateJson(answers) == answers \cup {NoAnswer}

\* _report, without the strings that are blank.
Report(answer) ==
    IF answer = NoAnswer THEN NoDraft
    ELSE [answer EXCEPT !.allowed = @ \ {<<>>}, !.protected = @ \ {<<>>}]

\* A path for a pattern: each "*" or "**" becomes "x", also beside other characters.
Probe(pattern) ==
    [i \in DOMAIN pattern |->
        IF pattern[i] \in {"*", "**"} THEN "x"
        ELSE IF pattern[i] \in DOMAIN Partial THEN Partial[pattern[i]].probe
        ELSE pattern[i]]

\* _paths_reaching_grader.
PathsReachingGrader(writable, graderPaths) ==
    LET terms == [allowed |-> writable, protected |-> {}, grader |-> graderPaths] IN
    {pattern \in writable : Classify(terms, Probe(pattern)) # "accepted"}

\* _command_allowed.
CommandAllowed(command, prefixes) == PrefixesOf[command.executable] \cap prefixes # {}

\* What no draft becomes a contract without: validate_draft.
ValidateDraft(draft, policy) ==
    /\ draft # NoDraft
    /\ 0 < draft.reward.amount /\ draft.reward.amount <= policy.maxReward
    /\ policy.mandatory \subseteq draft.protected
    /\ draft.allowed # {}
    /\ draft.allowed \cap draft.protected = {}
    /\ PathsReachingGrader(draft.allowed, policy.grader) = {}
    /\ draft.commands # {}
    /\ \A command \in draft.commands : CommandAllowed(command, policy.prefixes)
    /\ 0 < draft.hours /\ draft.hours <= policy.maxHours

\* The terms contract_from_draft makes of a draft, whose own repository is not asked.
TermsOf(draft, policy, pinned) ==
    [repository |-> policy.repository, pinned |-> pinned,
     commands |-> draft.commands, allowed |-> draft.allowed,
     protected |-> draft.protected \cup policy.mandatory, grader |-> policy.grader,
     reward |-> draft.reward, hours |-> draft.hours, visibility |-> "HASH_ONLY"]

=============================================================================
