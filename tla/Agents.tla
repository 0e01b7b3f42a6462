------------------------------- MODULE Agents -------------------------------
(***************************************************************************)
(* The agents on both sides of a contract and the models that advise them.  *)
(* A buyer's agent drafts terms, signs and funds them (mergegate/mcp.py,    *)
(* drafting.py, contract.py); a provider's agent has the contract assessed  *)
(* (feasibility.py), pushes commits and, after a FAIL, asks for a plan      *)
(* (retry.py) that the demo runner stored beside the receipt (demo.py,      *)
(* advise). No advice binds anyone: whatever it says, any commit may come.  *)
(***************************************************************************)
EXTENDS Drafting, FiniteSets

CONSTANTS
    Policies,       \* what a draft is held to: the buyer's policies, and those of tool calls
    Drafts,         \* what a model may propose
    DirectTerms,    \* terms a buyer writes without a draft
    Name,           \* names a model may write for a file
    Opinions,       \* what a model may say of a contract
    Plans,          \* and of a failure
    Commit,         \* commits a provider may push: the paths each changes
    MaxContracts,   \* bound on the contracts funded
    MaxAttempts,    \* bound on the commits pushed
    NoTerms, NoPolicy, NoAdvice, NoReceipt, NoAttempt

Drafted == UNION {{TermsOf(Report(a), p, TRUE) : a \in Drafts} : p \in Policies}

Terms == Drafted \cup DirectTerms

Rating == {"HIGH", "MEDIUM", "LOW", ""}

ASSUME AgentsAssumption ==
    /\ MaxContracts \in Nat /\ MaxAttempts \in Nat
    /\ NoTerms \notin Terms /\ NoPolicy \notin Policies
    /\ NoAnswer \notin Drafts \cup Opinions \cup Plans
    /\ NoDraft \notin {Report(a) : a \in Drafts}
    /\ Name \subseteq Seq(STRING)
    /\ \A o \in Opinions : o.files \subseteq Name /\ o.rating \in Rating
    /\ \A o \in Plans : o.files \subseteq Name /\ o.abandon \in BOOLEAN

VARIABLES
    draft,      \* the draft the buyer's agent has
    fundable,   \* policy_verdict.may_be_funded, as the tool reported it
    signed,     \* the terms it signed, and the policy they were made under
    funded,     \* funded contracts, in the contract store
    advice,     \* what the provider's agent goes by
    attempt,    \* the latest evaluation
    receipts,   \* by task and commit: the contract and the verdict
    plans,      \* the advisory record of the same id
    attempts    \* commits pushed

buyer == <<draft, fundable, signed, funded>>

provider == <<advice, attempt, receipts, plans, attempts>>

vars == <<buyer, provider>>

-----------------------------------------------------------------------------

Init ==
    /\ draft = NoDraft /\ fundable = FALSE
    /\ signed = [terms |-> NoTerms, policy |-> NoPolicy]
    /\ funded = {}
    /\ advice = NoAdvice
    /\ attempt = NoAttempt
    /\ receipts = [c \in Commit |-> NoReceipt]
    /\ plans = [c \in Commit |-> NoAdvice]
    /\ attempts = 0

\* mergegate_draft_task: the policy of the call is its caller's.
DraftTask(answer, policy) ==
    /\ signed.terms = NoTerms /\ Cardinality(funded) < MaxContracts
    /\ draft' = Report(answer)
    /\ fundable' = ValidateDraft(draft', policy)
    /\ UNCHANGED <<signed, funded, provider>>

\* Mutant: what the tool said is taken for the check.
MutantContractFromDraft(policy, pinned) ==
    /\ signed.terms = NoTerms /\ draft # NoDraft
    /\ fundable
    /\ ValidTerms(TermsOf(draft, policy, pinned))
    /\ signed' = [terms |-> TermsOf(draft, policy, pinned), policy |-> policy]
    /\ draft' = NoDraft /\ fundable' = FALSE
    /\ UNCHANGED <<funded, provider>>

\* contract_from_draft. It raises, and nothing changes, unless the draft satisfies the
\* policy and TaskContract accepts the terms.
ContractFromDraft(policy, pinned) ==
    /\ signed.terms = NoTerms
    /\ ValidateDraft(draft, policy)
    /\ ValidTerms(TermsOf(draft, policy, pinned))
    /\ signed' = [terms |-> TermsOf(draft, policy, pinned), policy |-> policy]
    /\ draft' = NoDraft /\ fundable' = FALSE
    /\ UNCHANGED <<funded, provider>>

\* build_contract, of terms no model has proposed.
BuildContract(terms) ==
    /\ signed.terms = NoTerms /\ Cardinality(funded) < MaxContracts
    /\ ValidTerms(terms)
    /\ signed' = [terms |-> terms, policy |-> NoPolicy]
    /\ draft' = NoDraft /\ fundable' = FALSE
    /\ UNCHANGED <<funded, provider>>

\* fund() seals the contract and puts its terms in the contract store. There is no
\* step back: amend() always raises.
Fund ==
    /\ signed.terms # NoTerms
    /\ funded' = funded \cup {[sealed |-> Seal(signed.terms), policy |-> signed.policy]}
    /\ signed' = [terms |-> NoTerms, policy |-> NoPolicy]
    /\ UNCHANGED <<draft, fundable, provider>>

-----------------------------------------------------------------------------
(* Advice *)

CriteriaVisible(terms) == terms.visibility = "PUBLISHED_GRADER"

\* _downgrade_for_hidden_criteria.
Downgrade(rating, terms) ==
    IF rating = "HIGH" /\ ~CriteriaVisible(terms) THEN "MEDIUM" ELSE rating

\* Mutant: the guard is replaced by the list of what is writable.
MutantPermitted(files, terms) ==
    \A f \in files : MatchAny(NormalizePath(f), terms.allowed)

\* What check_assessment and check_plan ask the guard of the contract.
Permitted(files, terms) == \A f \in files : Classify(terms, f) = "accepted"

Advice(terms, files, rating, ok) ==
    [terms |-> terms, files |-> files, rating |-> rating, ok |-> ok]

\* assess_contract and check_assessment: an assessment that could not be made is not ok.
Assessment(terms, answer) ==
    IF answer = NoAnswer THEN Advice(terms, {}, "", FALSE)
    ELSE Advice(terms, answer.files, Downgrade(answer.rating, terms),
                Permitted(answer.files, terms))

\* plan_retry and check_plan.
RetryPlan(terms, answer) ==
    IF answer = NoAnswer THEN Advice(terms, {}, "", FALSE)
    ELSE Advice(terms, answer.files, "",
                /\ ~answer.abandon /\ answer.files # {}
                /\ Permitted(answer.files, terms))

\* mergegate_assess_contract, of the terms in the contract store.
Assess(f, answer) ==
    /\ advice' = Assessment(f.sealed.contract, answer)
    /\ UNCHANGED <<buyer, attempt, receipts, plans, attempts>>

\* mergegate_get_retry_plan: the plan beside a receipt that failed.
GetRetryPlan(c) ==
    /\ receipts[c] # NoReceipt /\ receipts[c].verdict = "FAIL"
    /\ plans[c] # NoAdvice
    /\ advice' = plans[c]
    /\ UNCHANGED <<buyer, attempt, receipts, plans, attempts>>

-----------------------------------------------------------------------------
(* Evaluations *)

Stage == IF attempt = NoAttempt THEN "over" ELSE attempt.stage

\* A commit comes for a contract, on advice or not.
Submit(f, c) ==
    /\ Stage = "over"
    /\ attempts < MaxAttempts
    /\ attempts' = attempts + 1
    /\ attempt' = [stage |-> "pushed", sealed |-> f.sealed, commit |-> c, verdict |-> "none",
                   rejected |-> FALSE]
    /\ UNCHANGED <<buyer, advice, receipts, plans>>

Violates(terms, c) == \E p \in c : Classify(terms, p) # "accepted"

\* evaluate(), handed the contract that was funded or one with other terms: a rejection
\* is a FAIL, and otherwise the pinned commands decide.
Evaluate(terms, verdict) ==
    /\ Stage = "pushed"
    /\ AssertIntact([contract |-> terms, hash |-> attempt.sealed.hash])
    /\ Violates(terms, attempt.commit) => verdict = "FAIL"
    /\ attempt' = [attempt EXCEPT !.stage = "graded", !.verdict = verdict,
                                  !.rejected = Violates(terms, attempt.commit)]
    /\ UNCHANGED <<buyer, advice, receipts, plans, attempts>>

\* Mutant: the error is caught, and the evaluation goes on without a verdict.
MutantEvaluateRaises(terms) ==
    /\ Stage = "pushed"
    /\ ~AssertIntact([contract |-> terms, hash |-> attempt.sealed.hash])
    /\ attempt' = [attempt EXCEPT !.stage = "graded"]
    /\ UNCHANGED <<buyer, advice, receipts, plans, attempts>>

\* ContractError: there is no manifest.
EvaluateRaises(terms) ==
    /\ Stage = "pushed"
    /\ ~AssertIntact([contract |-> terms, hash |-> attempt.sealed.hash])
    /\ attempt' = [attempt EXCEPT !.stage = "over"]
    /\ UNCHANGED <<buyer, advice, receipts, plans, attempts>>

\* settle() leaves a receipt, in the place of an earlier one of the same commit.
Settle ==
    /\ Stage = "graded"
    /\ attempt' = [attempt EXCEPT !.stage = "settled"]
    /\ receipts' = [receipts EXCEPT ![attempt.commit] =
                        [hash |-> attempt.sealed.hash, verdict |-> attempt.verdict]]
    /\ UNCHANGED <<buyer, advice, plans, attempts>>

\* advise(), after settle(): a FAIL gets a plan, checked against its contract.
Advise(answer) ==
    /\ Stage = "settled"
    /\ attempt' = [attempt EXCEPT !.stage = "over"]
    /\ plans' = [plans EXCEPT ![attempt.commit] =
                    IF attempt.verdict = "FAIL" THEN RetryPlan(attempt.sealed.contract, answer)
                    ELSE NoAdvice]
    /\ UNCHANGED <<buyer, advice, receipts, attempts>>

\* No key, no store, or an exception: the record stays as it was.
AdviseSkips ==
    /\ Stage = "settled"
    /\ attempt' = [attempt EXCEPT !.stage = "over"]
    /\ UNCHANGED <<buyer, advice, receipts, plans, attempts>>

Buy ==
    \/ \E answer \in GenerateJson(Drafts), p \in Policies : DraftTask(answer, p)
    \/ \E p \in Policies, pinned \in BOOLEAN : ContractFromDraft(p, pinned)
    \/ \E terms \in DirectTerms : BuildContract(terms)
    \/ Fund

Provide ==
    \/ \E f \in funded, answer \in GenerateJson(Opinions) : Assess(f, answer)
    \/ \E c \in Commit : GetRetryPlan(c)
    \/ \E f \in funded, c \in Commit : Submit(f, c)

Run ==
    \/ \E f \in funded, verdict \in {"PASS", "FAIL"} : Evaluate(f.sealed.contract, verdict)
    \/ \E f \in funded : EvaluateRaises(f.sealed.contract)
    \/ Settle
    \/ \E answer \in GenerateJson(Plans) : Advise(answer)
    \/ AdviseSkips

Next == Buy \/ Provide \/ Run

Spec == Init /\ [][Next]_vars

-----------------------------------------------------------------------------
(* Properties *)

AdviceType ==
    [terms : Terms, files : SUBSET Name, rating : Rating, ok : BOOLEAN] \cup {NoAdvice}

AttemptType ==
    [stage : {"pushed", "graded", "settled", "over"}, sealed : {Seal(t) : t \in Terms},
     commit : Commit, verdict : {"none", "PASS", "FAIL"}, rejected : BOOLEAN] \cup {NoAttempt}

ReceiptType == [hash : {HashOf(t) : t \in Terms}, verdict : {"PASS", "FAIL"}] \cup {NoReceipt}

\* Types of the variables.
TypeOK ==
    /\ draft \in {Report(a) : a \in Drafts} \cup {NoDraft}
    /\ fundable \in BOOLEAN
    /\ signed \in [terms : Terms \cup {NoTerms}, policy : Policies \cup {NoPolicy}]
    /\ funded \subseteq [sealed : {Seal(t) : t \in Terms}, policy : Policies \cup {NoPolicy}]
    /\ advice \in AdviceType
    /\ attempt \in AttemptType
    /\ receipts \in [Commit -> ReceiptType]
    /\ plans \in [Commit -> AdviceType]
    /\ attempts \in 0 .. MaxAttempts

\* The policy allows the terms.
Within(terms, policy) ==
    /\ terms.repository = policy.repository
    /\ 0 < terms.reward.amount /\ terms.reward.amount <= policy.maxReward
    /\ 0 < terms.hours /\ terms.hours <= policy.maxHours
    /\ \A command \in terms.commands : CommandAllowed(command, policy.prefixes)

\* A path of the commit is one that the policy keeps from providers.
Reaches(terms, c, policy) ==
    \E p \in c :
        MatchAny(NormalizePath(p), policy.mandatory \cup policy.grader)

\* drafting.py:17-22, "the thing that holds when the model is wrong": whatever was drafted,
\* whatever the tool said of it and under which policy, a contract made of a draft is
\* within the policy it was signed under, and no commit that reaches what this policy
\* protects, or the grader, gets a receipt for a PASS.
PolicyIsKept ==
    \A f \in funded :
        f.policy # NoPolicy =>
            /\ Within(f.sealed.contract, f.policy)
            /\ \A c \in Commit :
                   /\ receipts[c] # NoReceipt
                   /\ receipts[c].hash = f.sealed.hash /\ receipts[c].verdict = "PASS"
                   => ~Reaches(f.sealed.contract, c, f.policy)

\* A commit that changes the files the advice names, and no others, and none that the
\* guard refuses for its form: "./C:f" may be cleared, and git then has the path "C:f".
Follows(c, a) == \A p \in c : ~UnsafePath(p) /\ \E f \in a.files : NormalizePath(f) = p

\* "A checker that says yes where the evaluator says no is worse than no checker": no
\* commit that keeps to the files of cleared advice is rejected under the contract it was
\* cleared for; and no rating but that of readable criteria is HIGH when it arrives.
AdviceHolds ==
    \A a \in ({advice} \cup {plans[c] : c \in Commit}) \ {NoAdvice} :
        /\ a.ok /\ attempt # NoAttempt /\ attempt.sealed.contract = a.terms /\ attempt.rejected
              => ~Follows(attempt.commit, a)
        /\ a.rating = "HIGH" => CriteriaVisible(a.terms)

-----------------------------------------------------------------------------
(* The inductive invariant of AgentsProofs *)

\* What contract_from_draft made of a policy.
MadeUnder(terms, policy) ==
    policy # NoPolicy =>
        /\ Within(terms, policy)
        /\ policy.mandatory \subseteq terms.protected /\ terms.grader = policy.grader

\* A contract keeps what it was made under from the signature on.
ContractsOK ==
    /\ signed.terms # NoTerms => MadeUnder(signed.terms, signed.policy)
    /\ \A f \in funded : MadeUnder(f.sealed.contract, f.policy)

\* An evaluation is of the contract that was funded.
AttemptOK ==
    attempt # NoAttempt =>
        /\ attempt.stage \in {"graded", "settled"} => attempt.verdict # "none"
        /\ attempt.verdict = "PASS" => ~Violates(attempt.sealed.contract, attempt.commit)
        /\ attempt.rejected => Violates(attempt.sealed.contract, attempt.commit)

ReceiptsOK ==
    \A c \in Commit :
        receipts[c] # NoReceipt /\ receipts[c].verdict = "PASS" => ~Violates(receipts[c].hash, c)

Checked(a) ==
    a # NoAdvice =>
        /\ a.ok => Permitted(a.files, a.terms)
        /\ a.rating = "HIGH" => CriteriaVisible(a.terms)

AdviceOK == Checked(advice) /\ \A c \in Commit : Checked(plans[c])

IInv == TypeOK /\ ContractsOK /\ AttemptOK /\ ReceiptsOK /\ AdviceOK

=============================================================================
