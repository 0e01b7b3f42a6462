---------------------------- MODULE AgentsProofs ----------------------------
(***************************************************************************)
(* Proofs about Agents for every set of policies, drafts, contracts,        *)
(* opinions and commits. IInv carries the policy from the signature to the  *)
(* receipt, and the check of an advice to the evaluation it is about.       *)
(***************************************************************************)
EXTENDS Agents, PathsProofs

-----------------------------------------------------------------------------
(* The guard *)

\* A path that a contract accepts is under none of its protected or grader globs.
LEMMA AcceptedIsUnguarded ==
    ASSUME NEW t, NEW p, Classify(t, p) = "accepted"
    PROVE  /\ ~UnsafePath(p)
           /\ ~MatchAny(NormalizePath(p), t.protected)
           /\ ~MatchAny(NormalizePath(p), t.grader)
           /\ MatchAny(NormalizePath(p), t.allowed)
  BY DEF Classify

\* And what normalize_path makes of a name is accepted with it, unless that is refused for
\* its form.
LEMMA NormalIsAccepted ==
    ASSUME NEW t \in Terms, NEW f \in Name, Classify(t, f) = "accepted",
           ~UnsafePath(NormalizePath(f))
    PROVE  Classify(t, NormalizePath(f)) = "accepted"
  BY AcceptedIsUnguarded, AgentsAssumption, OneVerdictPerFile

\* A commit that keeps to permitted files violates nothing.
LEMMA FollowingIsPermitted ==
    ASSUME NEW a, a.terms \in Terms, a.files \subseteq Name, Permitted(a.files, a.terms),
           NEW c, Follows(c, a)
    PROVE  ~Violates(a.terms, c)
  <1>1. SUFFICES ASSUME NEW p \in c
                 PROVE  Classify(a.terms, p) = "accepted"
    BY DEF Violates
  <1>2. PICK f \in a.files : NormalizePath(f) = p /\ ~UnsafePath(p)
    BY DEF Follows
  <1>3. Classify(a.terms, f) = "accepted"
    BY DEF Permitted
  <1>4. QED
    BY <1>2, <1>3, NormalIsAccepted

\* The policy check is asked of paths, not of strings: a file or directory that a valid draft
\* makes writable, however it is spelled, is in nothing the policy keeps for grading
\* (drafting.py:320-323, where a literal comparison let tests/test_calc.py through).
THEOREM DraftedFileIsUngraded ==
    ASSUME NEW S, NEW d, NEW p, ValidateDraft(d, p),
           NEW pattern \in d.allowed, pattern \in Seq(S),
           Segments(pattern) \cap Wild = {}
    PROVE  ~UnsafePath(pattern) /\ ~MatchAny(NormalizePath(pattern), p.grader)
  <1>1. Probe(pattern) = pattern
    BY DEF Probe, Segments, Wild
  <1>2. PathsReachingGrader(d.allowed, p.grader) = {}
    BY DEF ValidateDraft
  <1> DEFINE terms == [allowed |-> d.allowed, protected |-> {}, grader |-> p.grader]
  <1>3. Classify(terms, pattern) = "accepted"
    BY <1>1, <1>2 DEF PathsReachingGrader
  <1>4. terms.grader = p.grader
    OBVIOUS
  <1> HIDE DEF terms
  <1>5. QED
    BY <1>3, <1>4, AcceptedIsUnguarded

\* A commit that a contract accepts reaches nothing its policy guards.
LEMMA AcceptedReachesNothing ==
    ASSUME NEW t, NEW p, p # NoPolicy, MadeUnder(t, p), NEW c, ~Violates(t, c)
    PROVE  ~Reaches(t, c, p)
  <1>1. SUFFICES ASSUME NEW q \in c,
                        MatchAny(NormalizePath(q), p.mandatory \cup p.grader)
                 PROVE  FALSE
    BY DEF Reaches
  <1>2. /\ ~MatchAny(NormalizePath(q), t.protected)
        /\ ~MatchAny(NormalizePath(q), t.grader)
    BY AcceptedIsUnguarded DEF Violates
  <1>3. QED
    BY <1>1, <1>2 DEF MadeUnder, MatchAny

-----------------------------------------------------------------------------
(* Contracts *)

\* Terms that contract_from_draft returns are terms, within the policy.
LEMMA SignedTerms ==
    ASSUME NEW d \in {Report(a) : a \in Drafts} \cup {NoDraft}, NEW p \in Policies,
           NEW pinned \in BOOLEAN, ValidateDraft(d, p), ValidTerms(TermsOf(d, p, pinned))
    PROVE  TermsOf(d, p, pinned) \in Terms /\ MadeUnder(TermsOf(d, p, pinned), p)
  <1>1. d \in {Report(a) : a \in Drafts}
    BY DEF ValidateDraft
  <1>2. pinned = TRUE
    BY DEF ValidTerms, TermsOf
  <1>3. TermsOf(d, p, pinned) \in Terms
    <2> DEFINE under == {TermsOf(Report(a), p, TRUE) : a \in Drafts}
    <2>1. PICK a \in Drafts : d = Report(a)
      BY <1>1
    <2>2. TermsOf(d, p, TRUE) \in under
      BY <2>1
    <2>3. under \in {{TermsOf(Report(x), y, TRUE) : x \in Drafts} : y \in Policies}
      OBVIOUS
    <2> HIDE DEF under
    <2>4. TermsOf(d, p, TRUE) \in Drafted
      BY <2>2, <2>3 DEF Drafted
    <2>5. TermsOf(d, p, pinned) = TermsOf(d, p, TRUE)
      BY <1>2
    <2>6. QED
      BY <2>4, <2>5 DEF Terms
  <1>4. MadeUnder(TermsOf(d, p, pinned), p)
    BY DEF MadeUnder, Within, ValidateDraft, TermsOf
  <1>5. QED
    BY <1>3, <1>4

\* What the initial states and the steps of Buy keep.
LEMMA BuyKeeps == IInv /\ Buy => IInv'
  <1>1. SUFFICES ASSUME IInv, Buy PROVE IInv'
    OBVIOUS
  <1>2. TypeOK /\ ContractsOK
    BY <1>1 DEF IInv
  <1>3. UNCHANGED provider => (AttemptOK /\ ReceiptsOK /\ AdviceOK)'
    BY <1>1 DEF IInv, AttemptOK, ReceiptsOK, AdviceOK, Checked, provider
  <1>4. ASSUME NEW answer \in GenerateJson(Drafts), NEW p \in Policies, DraftTask(answer, p)
        PROVE  IInv'
    <2>1. Report(answer) \in {Report(a) : a \in Drafts} \cup {NoDraft}
      BY DEF GenerateJson, Report
    <2>2. ValidateDraft(draft', p) \in BOOLEAN
      BY DEF ValidateDraft
    <2>3. TypeOK'
      BY <1>2, <1>4, <2>1, <2>2 DEF TypeOK, DraftTask, provider
    <2>4. ContractsOK'
      BY <1>2, <1>4 DEF ContractsOK, DraftTask
    <2>5. QED
      BY <1>3, <1>4, <2>3, <2>4 DEF IInv, DraftTask
  <1>5. ASSUME NEW p \in Policies, NEW pinned \in BOOLEAN, ContractFromDraft(p, pinned)
        PROVE  IInv'
    <2>1. TermsOf(draft, p, pinned) \in Terms /\ MadeUnder(TermsOf(draft, p, pinned), p)
      BY <1>2, <1>5, SignedTerms DEF TypeOK, ContractFromDraft
    <2>2. TypeOK'
      BY <1>2, <1>5, <2>1 DEF TypeOK, ContractFromDraft, provider
    <2>3. ContractsOK'
      BY <1>2, <1>5, <2>1 DEF ContractsOK, ContractFromDraft
    <2>4. QED
      BY <1>3, <1>5, <2>2, <2>3 DEF IInv, ContractFromDraft
  <1>6. ASSUME NEW terms \in DirectTerms, BuildContract(terms)
        PROVE  IInv'
    <2>1. TypeOK'
      BY <1>2, <1>6 DEF TypeOK, BuildContract, provider, Terms
    <2>2. ContractsOK'
      BY <1>2, <1>6 DEF ContractsOK, BuildContract, MadeUnder
    <2>3. QED
      BY <1>3, <1>6, <2>1, <2>2 DEF IInv, BuildContract
  <1>7. CASE Fund
    <2>1. TypeOK'
      BY <1>2, <1>7 DEF TypeOK, Fund, provider
    <2>2. ContractsOK'
      BY <1>2, <1>7 DEF ContractsOK, Fund, Seal, MadeUnder
    <2>3. QED
      BY <1>3, <1>7, <2>1, <2>2 DEF IInv, Fund
  <1>8. QED
    BY <1>1, <1>4, <1>5, <1>6, <1>7 DEF Buy

-----------------------------------------------------------------------------
(* Advice *)

\* An assessment is what Checked asks of it.
LEMMA AssessmentChecked ==
    ASSUME NEW t \in Terms, NEW answer \in GenerateJson(Opinions)
    PROVE  Assessment(t, answer) \in AdviceType /\ Checked(Assessment(t, answer))
  <1>1. CASE answer = NoAnswer
    BY <1>1 DEF Assessment, Advice, AdviceType, Rating, Checked
  <1>2. CASE answer # NoAnswer
    <2>1. answer.files \subseteq Name /\ answer.rating \in Rating
      BY <1>2, AgentsAssumption DEF GenerateJson
    <2>2. Downgrade(answer.rating, t) \in Rating
      BY <2>1 DEF Downgrade, Rating
    <2>3. Permitted(answer.files, t) \in BOOLEAN
      BY DEF Permitted
    <2>4. Assessment(t, answer) =
            [terms |-> t, files |-> answer.files, rating |-> Downgrade(answer.rating, t),
             ok |-> Permitted(answer.files, t)]
      BY <1>2 DEF Assessment, Advice
    <2>5. Downgrade(answer.rating, t) = "HIGH" => CriteriaVisible(t)
      BY DEF Downgrade
    <2>6. QED
      BY <2>1, <2>2, <2>3, <2>4, <2>5 DEF AdviceType, Checked
  <1>3. QED
    BY <1>1, <1>2

\* So is a plan.
LEMMA PlanChecked ==
    ASSUME NEW t \in Terms, NEW answer \in GenerateJson(Plans)
    PROVE  RetryPlan(t, answer) \in AdviceType /\ Checked(RetryPlan(t, answer))
  <1>1. CASE answer = NoAnswer
    BY <1>1 DEF RetryPlan, Advice, AdviceType, Rating, Checked
  <1>2. CASE answer # NoAnswer
    <2>1. answer.files \subseteq Name
      BY <1>2, AgentsAssumption DEF GenerateJson
    <2> DEFINE ok == ~answer.abandon /\ answer.files # {} /\ Permitted(answer.files, t)
    <2>2. RetryPlan(t, answer) = [terms |-> t, files |-> answer.files, rating |-> "", ok |-> ok]
      BY <1>2 DEF RetryPlan, Advice
    <2>3. ok \in BOOLEAN /\ (ok => Permitted(answer.files, t))
      OBVIOUS
    <2> HIDE DEF ok
    <2> DEFINE plan == [terms |-> t, files |-> answer.files, rating |-> "", ok |-> ok]
    <2>4. plan \in AdviceType
      BY <2>1, <2>3 DEF AdviceType, Rating
    <2>5. Checked(plan)
      <3>1. plan.ok = ok /\ plan.files = answer.files /\ plan.terms = t /\ plan.rating = ""
        OBVIOUS
      <3> HIDE DEF plan
      <3>2. QED
        BY <2>3, <3>1 DEF Checked
    <2>6. QED
      BY <2>2, <2>4, <2>5
  <1>3. QED
    BY <1>1, <1>2

\* What is funded are sealed terms.
LEMMA FundedTerms ==
    ASSUME TypeOK, NEW f \in funded
    PROVE  /\ f.sealed \in {Seal(t) : t \in Terms}
           /\ f.sealed.contract \in Terms /\ f.sealed.hash = f.sealed.contract
  BY DEF TypeOK, Seal, HashOf

\* The steps of a provider's agent.
LEMMA ProvideKeeps == IInv /\ Provide => IInv'
  <1>1. SUFFICES ASSUME IInv, Provide PROVE IInv'
    OBVIOUS
  <1>2. TypeOK /\ ContractsOK /\ AttemptOK /\ ReceiptsOK /\ AdviceOK
    BY <1>1 DEF IInv
  <1>3. UNCHANGED buyer => ContractsOK'
    BY <1>2 DEF ContractsOK, buyer
  <1>4. ASSUME NEW f \in funded, NEW answer \in GenerateJson(Opinions), Assess(f, answer)
        PROVE  IInv'
    <2>1. advice' \in AdviceType /\ Checked(advice')
      BY <1>2, <1>4, FundedTerms, AssessmentChecked DEF Assess
    <2>2. TypeOK'
      BY <1>2, <1>4, <2>1 DEF TypeOK, Assess, buyer
    <2>3. AttemptOK' /\ ReceiptsOK'
      BY <1>2, <1>4 DEF AttemptOK, ReceiptsOK, Assess
    <2>4. AdviceOK'
      BY <1>2, <1>4, <2>1 DEF AdviceOK, Checked, Assess
    <2>5. QED
      BY <1>3, <1>4, <2>2, <2>3, <2>4 DEF IInv, Assess
  <1>5. ASSUME NEW c \in Commit, GetRetryPlan(c)
        PROVE  IInv'
    <2>1. advice' \in AdviceType /\ Checked(advice')
      BY <1>2, <1>5 DEF GetRetryPlan, TypeOK, AdviceOK
    <2>2. TypeOK'
      BY <1>2, <1>5, <2>1 DEF TypeOK, GetRetryPlan, buyer
    <2>3. AttemptOK' /\ ReceiptsOK'
      BY <1>2, <1>5 DEF AttemptOK, ReceiptsOK, GetRetryPlan
    <2>4. AdviceOK'
      BY <1>2, <1>5, <2>1 DEF AdviceOK, Checked, GetRetryPlan
    <2>5. QED
      BY <1>3, <1>5, <2>2, <2>3, <2>4 DEF IInv, GetRetryPlan
  <1>6. ASSUME NEW f \in funded, NEW c \in Commit, Submit(f, c)
        PROVE  IInv'
    <2>1. attempt' \in AttemptType
      BY <1>2, <1>6, FundedTerms DEF Submit, AttemptType
    <2>2. attempts' \in 0 .. MaxAttempts
      BY <1>2, <1>6, AgentsAssumption DEF Submit, TypeOK
    <2>3. TypeOK'
      BY <1>2, <1>6, <2>1, <2>2 DEF TypeOK, Submit, buyer
    <2>4. AttemptOK'
      BY <1>6 DEF AttemptOK, Submit
    <2>5. ReceiptsOK' /\ AdviceOK'
      BY <1>2, <1>6 DEF ReceiptsOK, AdviceOK, Checked, Submit
    <2>6. QED
      BY <1>3, <1>6, <2>3, <2>4, <2>5 DEF IInv, Submit
  <1>7. QED
    BY <1>1, <1>4, <1>5, <1>6 DEF Provide

-----------------------------------------------------------------------------
(* Evaluations *)

\* An attempt that is under way.
LEMMA AttemptUnderWay ==
    ASSUME TypeOK, Stage # "over"
    PROVE  /\ attempt # NoAttempt /\ Stage = attempt.stage
           /\ attempt \in [stage : {"pushed", "graded", "settled", "over"},
                           sealed : {Seal(t) : t \in Terms}, commit : Commit,
                           verdict : {"none", "PASS", "FAIL"}, rejected : BOOLEAN]
           /\ attempt.sealed.contract \in Terms
           /\ attempt.sealed.hash = attempt.sealed.contract
  <1>1. attempt # NoAttempt /\ Stage = attempt.stage
    BY DEF Stage
  <1>2. attempt \in [stage : {"pushed", "graded", "settled", "over"},
                     sealed : {Seal(t) : t \in Terms}, commit : Commit,
                     verdict : {"none", "PASS", "FAIL"}, rejected : BOOLEAN]
    BY <1>1 DEF TypeOK, AttemptType
  <1>3. QED
    BY <1>1, <1>2 DEF Seal, HashOf

\* The steps of an evaluation and what follows it.
LEMMA RunKeeps == IInv /\ Run => IInv'
  <1>1. SUFFICES ASSUME IInv, Run PROVE IInv'
    OBVIOUS
  <1>2. TypeOK /\ ContractsOK /\ AttemptOK /\ ReceiptsOK /\ AdviceOK
    BY <1>1 DEF IInv
  <1>3. UNCHANGED buyer => ContractsOK'
    BY <1>2 DEF ContractsOK, buyer
  <1>4. ASSUME NEW terms, NEW verdict \in {"PASS", "FAIL"}, Evaluate(terms, verdict)
        PROVE  IInv'
    <2>1. Stage # "over"
      BY <1>4 DEF Evaluate
    <2>2. terms = attempt.sealed.contract
      BY <1>2, <1>4, <2>1, AttemptUnderWay DEF Evaluate, AssertIntact, HashOf
    <2>3. Violates(terms, attempt.commit) \in BOOLEAN
      BY DEF Violates
    <2>4. attempt' \in AttemptType /\ attempt'.stage = "graded" /\ attempt'.verdict = verdict
          /\ attempt'.rejected = Violates(terms, attempt.commit)
          /\ attempt'.sealed = attempt.sealed /\ attempt'.commit = attempt.commit
      BY <1>2, <1>4, <2>1, <2>3, AttemptUnderWay DEF Evaluate, AttemptType
    <2>5. TypeOK'
      BY <1>2, <1>4, <2>4 DEF TypeOK, Evaluate, buyer
    <2>6. AttemptOK'
      <3>1. verdict = "PASS" => ~Violates(terms, attempt.commit)
        BY <1>4 DEF Evaluate
      <3>2. QED
        BY <2>2, <2>4, <3>1 DEF AttemptOK
    <2>7. ReceiptsOK' /\ AdviceOK'
      BY <1>2, <1>4 DEF ReceiptsOK, AdviceOK, Checked, Evaluate
    <2>8. QED
      BY <1>3, <1>4, <2>5, <2>6, <2>7 DEF IInv, Evaluate
  <1>5. ASSUME NEW terms, EvaluateRaises(terms)
        PROVE  IInv'
    <2>1. Stage # "over"
      BY <1>5 DEF EvaluateRaises
    <2>2. attempt' \in AttemptType /\ attempt'.stage = "over"
          /\ attempt'.verdict = attempt.verdict /\ attempt'.rejected = attempt.rejected
          /\ attempt'.sealed = attempt.sealed /\ attempt'.commit = attempt.commit
      BY <1>2, <1>5, <2>1, AttemptUnderWay DEF EvaluateRaises, AttemptType
    <2>3. TypeOK'
      BY <1>2, <1>5, <2>2 DEF TypeOK, EvaluateRaises, buyer
    <2>4. AttemptOK'
      BY <1>2, <2>1, <2>2, AttemptUnderWay DEF AttemptOK
    <2>5. ReceiptsOK' /\ AdviceOK'
      BY <1>2, <1>5 DEF ReceiptsOK, AdviceOK, Checked, EvaluateRaises
    <2>6. QED
      BY <1>3, <1>5, <2>3, <2>4, <2>5 DEF IInv, EvaluateRaises
  <1>6. CASE Settle
    <2>1. Stage = "graded"
      BY <1>6 DEF Settle
    <2>2. attempt' \in AttemptType /\ attempt'.stage = "settled"
          /\ attempt'.verdict = attempt.verdict /\ attempt'.rejected = attempt.rejected
          /\ attempt'.sealed = attempt.sealed /\ attempt'.commit = attempt.commit
      BY <1>2, <1>6, <2>1, AttemptUnderWay DEF Settle, AttemptType
    <2>3. attempt.verdict \in {"PASS", "FAIL"}
      BY <1>2, <2>1, AttemptUnderWay DEF AttemptOK
    <2> DEFINE r == [hash |-> attempt.sealed.hash, verdict |-> attempt.verdict]
    <2>4. r \in ReceiptType
      BY <1>2, <2>1, <2>3, AttemptUnderWay DEF ReceiptType, HashOf
    <2>5. receipts' = [receipts EXCEPT ![attempt.commit] = r]
      BY <1>6 DEF Settle
    <2>6. TypeOK'
      BY <1>2, <1>6, <2>2, <2>4, <2>5 DEF TypeOK, Settle, buyer
    <2>7. AttemptOK'
      BY <1>2, <2>1, <2>2, AttemptUnderWay DEF AttemptOK
    <2>8. ReceiptsOK'
      <3>1. r.verdict = "PASS" => ~Violates(r.hash, attempt.commit)
        BY <1>2, <2>1, AttemptUnderWay DEF AttemptOK
      <3> HIDE DEF r
      <3>2. QED
        BY <1>2, <2>5, <3>1 DEF ReceiptsOK, TypeOK
    <2>9. AdviceOK'
      BY <1>2, <1>6 DEF AdviceOK, Checked, Settle
    <2>10. QED
      BY <1>3, <1>6, <2>6, <2>7, <2>8, <2>9 DEF IInv, Settle
  <1>7. ASSUME NEW answer \in GenerateJson(Plans), Advise(answer)
        PROVE  IInv'
    <2>1. Stage = "settled"
      BY <1>7 DEF Advise
    <2>2. attempt' \in AttemptType /\ attempt'.stage = "over"
          /\ attempt'.verdict = attempt.verdict /\ attempt'.rejected = attempt.rejected
          /\ attempt'.sealed = attempt.sealed /\ attempt'.commit = attempt.commit
      BY <1>2, <1>7, <2>1, AttemptUnderWay DEF Advise, AttemptType
    <2> DEFINE a == IF attempt.verdict = "FAIL" THEN RetryPlan(attempt.sealed.contract, answer)
                    ELSE NoAdvice
    <2>3. a \in AdviceType /\ Checked(a)
      <3>1. RetryPlan(attempt.sealed.contract, answer) \in AdviceType
            /\ Checked(RetryPlan(attempt.sealed.contract, answer))
        BY <1>2, <2>1, AttemptUnderWay, PlanChecked
      <3>2. NoAdvice \in AdviceType /\ Checked(NoAdvice)
        BY DEF AdviceType, Checked
      <3>3. QED
        BY <3>1, <3>2
    <2>4. plans' = [plans EXCEPT ![attempt.commit] = a]
      BY <1>7 DEF Advise
    <2> HIDE DEF a
    <2>5. TypeOK'
      BY <1>2, <1>7, <2>2, <2>3, <2>4 DEF TypeOK, Advise, buyer
    <2>6. AttemptOK'
      BY <1>2, <2>1, <2>2, AttemptUnderWay DEF AttemptOK
    <2>7. ReceiptsOK'
      BY <1>2, <1>7 DEF ReceiptsOK, Advise
    <2>8. AdviceOK'
      <3>1. Checked(advice)'
        BY <1>2, <1>7 DEF AdviceOK, Checked, Advise
      <3>2. ASSUME NEW c \in Commit PROVE Checked(plans'[c])
        BY <1>2, <2>3, <2>4 DEF AdviceOK, TypeOK
      <3>3. QED
        BY <3>1, <3>2 DEF AdviceOK, Checked
    <2>9. QED
      BY <1>3, <1>7, <2>5, <2>6, <2>7, <2>8 DEF IInv, Advise
  <1>8. CASE AdviseSkips
    <2>1. Stage = "settled"
      BY <1>8 DEF AdviseSkips
    <2>2. attempt' \in AttemptType /\ attempt'.stage = "over"
          /\ attempt'.verdict = attempt.verdict /\ attempt'.rejected = attempt.rejected
          /\ attempt'.sealed = attempt.sealed /\ attempt'.commit = attempt.commit
      BY <1>2, <1>8, <2>1, AttemptUnderWay DEF AdviseSkips, AttemptType
    <2>3. TypeOK'
      BY <1>2, <1>8, <2>2 DEF TypeOK, AdviseSkips, buyer
    <2>4. AttemptOK'
      BY <1>2, <2>1, <2>2, AttemptUnderWay DEF AttemptOK
    <2>5. ReceiptsOK' /\ AdviceOK'
      BY <1>2, <1>8 DEF ReceiptsOK, AdviceOK, Checked, AdviseSkips
    <2>6. QED
      BY <1>3, <1>8, <2>3, <2>4, <2>5 DEF IInv, AdviseSkips
  <1>9. QED
    BY <1>1, <1>4, <1>5, <1>6, <1>7, <1>8 DEF Run

-----------------------------------------------------------------------------
(* Theorems *)

\* IInv holds at the start, and every step keeps it.
THEOREM Invariance == Spec => []IInv
  <1>1. Init => IInv
    <2>1. SUFFICES ASSUME Init PROVE IInv
      OBVIOUS
    <2>2. TypeOK
      <3>1. /\ draft = NoDraft /\ fundable = FALSE /\ funded = {}
            /\ signed \in [terms : Terms \cup {NoTerms}, policy : Policies \cup {NoPolicy}]
        BY <2>1 DEF Init
      <3>2. attempts \in 0 .. MaxAttempts
        BY <2>1, AgentsAssumption DEF Init
      <3>3. NoAdvice \in AdviceType /\ NoAttempt \in AttemptType /\ NoReceipt \in ReceiptType
        BY DEF AdviceType, AttemptType, ReceiptType
      <3>4. /\ advice \in AdviceType /\ attempt \in AttemptType
            /\ receipts \in [Commit -> ReceiptType] /\ plans \in [Commit -> AdviceType]
        BY <2>1, <3>3 DEF Init
      <3>5. QED
        BY <3>1, <3>2, <3>4 DEF TypeOK
    <2>3. ContractsOK /\ AttemptOK /\ ReceiptsOK /\ AdviceOK
      BY <2>1 DEF Init, ContractsOK, AttemptOK, ReceiptsOK, AdviceOK, Checked
    <2>4. QED
      BY <2>2, <2>3 DEF IInv
  <1>2. IInv /\ [Next]_vars => IInv'
    <2>1. IInv /\ UNCHANGED vars => IInv'
      BY DEF IInv, TypeOK, ContractsOK, AttemptOK, ReceiptsOK, AdviceOK, Checked, MadeUnder,
             vars, buyer, provider
    <2>2. QED
      BY <2>1, BuyKeeps, ProvideKeeps, RunKeeps DEF Next
  <1>3. QED
    BY <1>1, <1>2, PTL DEF Spec

\* The variables keep their types.
THEOREM TypeCorrect == Spec => []TypeOK
  <1>1. IInv => TypeOK
    BY DEF IInv
  <1>2. QED
    BY <1>1, Invariance, PTL

\* Whatever a model proposes and a tool reports, a drafted contract stays within the policy
\* it was signed under, and no commit that reaches what this policy guards passes.
THEOREM PolicyHolds == Spec => []PolicyIsKept
  <1>1. IInv => PolicyIsKept
    <2>1. SUFFICES ASSUME IInv, NEW f \in funded, f.policy # NoPolicy
                   PROVE  /\ Within(f.sealed.contract, f.policy)
                          /\ \A c \in Commit :
                                /\ receipts[c] # NoReceipt
                                /\ receipts[c].hash = f.sealed.hash
                                /\ receipts[c].verdict = "PASS"
                                => ~Reaches(f.sealed.contract, c, f.policy)
      BY DEF PolicyIsKept
    <2>2. MadeUnder(f.sealed.contract, f.policy) /\ f.sealed.hash = f.sealed.contract
      BY <2>1, FundedTerms DEF IInv, ContractsOK
    <2>3. ASSUME NEW c \in Commit, receipts[c] # NoReceipt, receipts[c].hash = f.sealed.hash,
                 receipts[c].verdict = "PASS"
          PROVE  ~Reaches(f.sealed.contract, c, f.policy)
      <3>1. ~Violates(f.sealed.contract, c)
        BY <2>1, <2>2, <2>3 DEF IInv, ReceiptsOK
      <3>2. QED
        BY <2>1, <2>2, <3>1, AcceptedReachesNothing
    <2>4. QED
      BY <2>1, <2>2, <2>3 DEF MadeUnder
  <1>2. QED
    BY <1>1, Invariance, PTL

\* A commit that keeps to the files of cleared advice is not rejected under the contract
\* the advice is about.
THEOREM ClearedIsAccepted == Spec => []AdviceHolds
  <1>1. IInv => AdviceHolds
    <2>1. SUFFICES ASSUME IInv,
                          NEW a \in ({advice} \cup {plans[c] : c \in Commit}) \ {NoAdvice}
                   PROVE  /\ /\ a.ok /\ attempt # NoAttempt
                             /\ attempt.sealed.contract = a.terms /\ attempt.rejected
                             => ~Follows(attempt.commit, a)
                          /\ a.rating = "HIGH" => CriteriaVisible(a.terms)
      BY DEF AdviceHolds
    <2>2. Checked(a) /\ a \in AdviceType
      BY <2>1 DEF IInv, AdviceOK, TypeOK
    <2>3. /\ a.ok => Permitted(a.files, a.terms)
          /\ a.rating = "HIGH" => CriteriaVisible(a.terms)
          /\ a.terms \in Terms /\ a.files \subseteq Name
      BY <2>1, <2>2 DEF Checked, AdviceType
    <2>4. ASSUME a.ok, attempt # NoAttempt, attempt.sealed.contract = a.terms, attempt.rejected,
                 Follows(attempt.commit, a)
          PROVE  FALSE
      <3>1. Violates(a.terms, attempt.commit)
        BY <2>1, <2>4 DEF IInv, AttemptOK
      <3>2. QED
        BY <2>3, <2>4, <3>1, FollowingIsPermitted
    <2>5. QED
      BY <2>3, <2>4
  <1>2. QED
    BY <1>1, Invariance, PTL

=============================================================================
