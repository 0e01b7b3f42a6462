# Verification of MergeGate

MergeGate puts a bounty in escrow against a *contract* (a base commit, a grader
bundle, the commands that decide, a deadline, a mandate) and pays the provider
when a sealed evaluation of the submitted commit passes, or refunds the buyer.
This directory holds TLA+ models of the parts of `mergegate/` that decide who is
paid and for what, TLC runs that check them on small instances, and TLAPS proofs of
the properties that matter most for every value of the constants.

    tlc -workers 2 -config settlement.cfg MCSettlement.tla     # a run
    tlapm SettlementProofs.tla                                 # the proofs

`PROJECT.json` lists, in machine-readable form, the runs, the theorems, a source
line range for every definition, the hazards of the code, and for each property a
mutant of the code it catches.

## 1. Inventory

| Component | State it keeps | Operations | What is hard about it | What makes it correct |
|---|---|---|---|---|
| Task state machine (`settlement.py`) | state, head, superseded heads, verified commit, consumed key, transaction, seen deliveries | five event handlers, `record_settlement_tx` | events redelivered, reordered, stale; settlement against expiry | one terminal action; a verdict binds one commit; terminal is final |
| Mandate (`mandate.py`) | none (immutable) | `execute_mandate`, `expire_mandate` | the deadline from both sides | pays on PASS by the deadline, else refunds |
| Task store (`store.py`) | one document per task; receipts, contracts, advisory records | `get`, `put`, `apply` | concurrent transactions, re-runs, crashes | no event lost, no directive twice |
| Webhook (`webhook.py`, `app.py`) | none; reaches the task through `resolve` | `handle`, push dispositions | redelivery, an answer that promises durability | what is answered 202 is recorded |
| Demo runner (`demo.py`) | base and work trees, last execution id, last funding transaction, the stores | `fund`, `submit`, `evaluate`, `settle`, `remediate`, `advise` | several stores and a payment per call, each may fail; two contracts on one runner | the money moves once and the record agrees |
| Executor, rails (`payments/`) | ledger by idempotency key | `execute`, `transfer` | a timeout after which the transfer may have been made | one payout per settlement, fee after payout |
| Receipt (`receipt.py`) | none (immutable) | `build_receipt`, `verify_receipt` | binds data produced at different times | names what happened |
| Sealed evaluation (`verifier/dispatch.py`, `job.py`, `evaluate.py`, `runner.py`, `manifest.py`) | volume prefix per evaluation, local result directory, Cloud Run executions | `run_sealed_evaluation`, `run_job` | timeouts that leave executions running, files written one by one, nothing cleared | no verdict that was not graded |
| Workspace (`verifier/workspace.py`, `git_source.py`) | the graded tree | `assemble_workspace` | the order of its passes; trees where a file meets a directory | the buyer's bytes grade, the provider's are confined |
| Paths (`paths.py`) | none | normalisation, globs, classification | normalisation, precedence | no guarded path slips through |
| Retry (`retry.py`, `demo.py`) | none (immutable records) | plan, check of a plan, files to revert | git's view of a change against the guard's | the second submission meets the terms and keeps the work |
| x402 (`x402.py`, `x402_settle.py`, `app.py`) | none; the relayer's nonce is the chain's | verify, settle | concurrent requests, failing node calls, an answer before inclusion | a fee answered 200 is accounted for; no request hangs |
| Contract (`contract.py`) | terms and their hash | validation, seal, `assert_intact` | terms that differ from those funded | grading is on the funded terms |
| Drafting and feasibility (`drafting.py`, `feasibility.py`, `gemini.py`, tools of `mcp.py`) | none; the agents hold the result | draft, policy check, assessment, check | a model that may say anything; verdicts held across calls | the policy holds whatever the model says |
| Spending policy, web, other MCP tools, screening, forensics, CLI, sandbox request | none of their own | presentation, I/O | - | decide nothing |

How they interact. A push reaches the machine through the webhook and `resolve()`;
a verdict through `DemoRunner.evaluate` and the sealed job; settlement through
`DemoRunner.settle`, which drives the machine, executes the directive over a rail,
stores the machine and issues a receipt. The machine is shared state: the store
says how instances share it. The volume prefix is shared by every execution of one
evaluation. The rail's idempotency key is what ties repeated payments together. The
contracts of one repository share the task document, the escrow wallet and the ids
of receipts and advisory records. One relayer account serves every x402 request.
`PathGuard` is the one classifier: the evaluator, the drafts' policy check, the
assessment, the retry plan and the remediation all ask it.

## 2. The modules

| Module | Models | State |
|---|---|---|
| `Mandate` | `execute_mandate`, `expire_mandate` | - |
| `TaskMachine` | `TaskStateMachine`: each handler as an operator from a machine to a machine | - |
| `Settlement` | one task driven by any sequence of events, with clock and verifier | `machine clock reports directives grade` |
| `Escrow` | the abstract promise: an artifact, its result, one payment | `artifact result funds time` |
| `AtomicTask` | the abstract promise of a store: an event is run at one instant | `task outcomes answered directed` |
| `TaskStore` | `FirestoreTaskStore` under concurrent handlers, and the webhook's path | `doc step event snapshot stale attempts acked handed` |
| `Receipt` | `build_receipt`, `verify_receipt` | - |
| `Payout` | `fund` and `settle` for several contracts over a rail and a store | `store saved live stage job clock lastFundingTx funded payouts fees receipts` |
| `SealedEvaluation` | `run_sealed_evaluation`, `run_job`, the volume | `bundle inputs outputs local dispatch jobs accepted` |
| `Paths` | `PathGuard`, `normalize_path`, the globs | - |
| `Workspace` | `assemble_workspace`, one action per pass | `base head bundle phase tree hooks applied quarantined purged injected guardRoots` |
| `RetryFlow` | the runner from funding over a FAIL to the second settlement | those, `attempt verdict escrow submitted hidden` |
| `X402` | `/x402/verify` for concurrent requests, and the chain | `deployment clock stage shown read answer tx mined spent moved` |
| `Contract` | terms, validation, hash, seal | - |
| `Drafting` | `drafting.py`: report, policy check, terms of a draft | - |
| `Agents` | buyer's and provider's agents, advice, evaluations on funded terms | `draft fundable signed funded advice attempt receipts plans attempts` |
| `SettlementProofs`, `TaskStoreProofs`, `SealedProofs`, `PayoutProofs`, `X402Proofs`, `PathsProofs`, `RetryProofs`, `AgentsProofs` | theorems and proofs | |
| `MC*` | small instances | |

There are two points of composition. `TaskMachine` is driven by `Settlement`,
`TaskStore` and `Payout`: the same handlers, one event at a time, through a
transaction, and inside `settle()`. `Paths` is used by `Workspace` (and, through it,
`RetryFlow`) and by `Contract`, `Drafting` and `Agents`; a guard is an argument of
`Classify`, a record of globs, so that every contract and policy has its own.
`PathsProofs` is likewise used by `RetryProofs` and `AgentsProofs`.

**TaskMachine.** A handler is `Handle(m, applies, after, d)`: a delivery id that
was seen gives back the machine; otherwise the id is remembered and, if the guard
(`SubmissionApplies`, `VerificationApplies`, `SettlementApplies`,
`DeadlineApplies`) holds, the fields change as `Submitted`, `Settled` and so on
say. The three exits of the code (duplicate, refused, applied) are the three cases.
`on_settlement` may raise out of `execute_mandate`, before anything but the id has
changed: `SettlementRaises`. Abstractions: a settlement key is the record of its
parts (its hash is domain-separated and length-prefixed, so injective); `superseded`
is a set, since nothing reads its order; `OneShot` stands for a delivery id that
nobody repeats and is not remembered, so that an unlimited number of fresh ids
costs no state.

**Settlement.** One action per handler, plus `Report` (the verifier produces a
manifest), `Tick`, and the history variable `grade` (when and as what the present
head was graded). `Reproducible` says that two gradings of one commit agree; the
code does not guarantee it (a command that times out is a FAIL), so the main run
leaves it FALSE.

**Escrow** is what the buyer and the provider are promised: while the money is
held an artifact may be offered and judged; then it is released for a PASS by the
limit, or returned for a FAIL, or after the limit. `Settlement!KeepsPromise` is the
refinement mapping: artifact = head, result = the state while it is a grade and
the key's verdict afterwards, funds = where the terminal state sends the money.

**TaskStore.** A request handler receives an event (any event, any number of
times), reads the document, and commits, retries or fails. Firestore is external:
`CanCommit` holds if nobody wrote the document since the read; `MaxAttempts` is the
library's bound. The handler's effect is `Effect(snapshot, event)`, the same
operator the machine uses. `Crash(w)` drops a request at any step. Events in
`WebhookEvent` take the path of `app.py`: `store.get`, the handler on the copy, the
answer; nothing is written.

**AtomicTask** is what the requests are promised, whatever the store is built on: `Serve`
runs an event on the task as it stands, in one step that also decides what the caller is
told; `Tell` tells it, `Lose` is a request that dies first. There are no reads,
attempts or conflicts in it. `TaskStore!AtomicEvents` is the refinement mapping: task =
the document; outcomes = what the requests past their commit are about to answer;
answered and directed = what callers were told (pushes apart, which run nothing).

**Payout** and **Receipt.** `fund()` is `FundTransfer`, `FundPut`, `FundRecord` (with
`FundFails`), `settle()` is `Settle` (four handler calls on one machine, up to the
directive), `Pay`, `PayFails`, `Fee`, `RecordAndPut`, `IssueReceipt`, in the code's
order. `M(c)` is the machine of contract `c`, an instance of `TaskMachine`. Any
contract may be funded at any time, and then its machine replaces the task's
document, whose id is the repository's name; the escrow wallet is one, and a
transfer needs what it holds (`Holds`); a receipt is stored by commit, so a second
one takes the first one's place; `lastFundingTx` is the runner's field. With a memory
store the machine in hand *is* the stored one (`Keep`), with Firestore it is a copy.
`PayFails` covers a refusal and a timeout after which the transfer was made; `Raises`
and `Restart` may strike between any two steps. `ReproducibleAssumption` is made of
the manifests here, as in `settlement_promise`.

**SealedEvaluation.** `BuildRequest` and `PackInputs` read the grader bundle
separately; `StageInput` and `Download` move one file each; `GcloudFails` ends the
call at any gcloud call and undoes nothing; the execution it left goes on. The job
loads, grades or refuses, and writes manifest and status one after the other; it may
be killed at any step. Of a manifest are kept the fields `verify_result` compares
(contract, commit and task are the evaluation; the base follows from the contract),
the verdict, and as history the bundle it was graded against and its execution.
`TimeoutExpired` and `VerdictUnavailableError` are alike here: both leave the call.

**Paths, Workspace, RetryFlow.** A path is the sequence of its segments, a tree a
function from paths to bytes. `Classify` normalises, then asks the protected, the
grader and the allowed globs in this order; `Matches` is the glob language with `*`
for a segment and `**` for any number of them: a path fits a glob if it can be cut into
as many pieces as the glob has segments (`IsCut`). A glob segment with a wildcard beside
other characters (`test_*.py`) is a name in `Partial`, with the names it stands for.
The regular expressions have two habits that a reader of the globs would not expect, and
both are modelled: a `.*` passes no line break, so a `**` (except one that begins the
glob) stands for no name that is `Broken`; and the `$` matches before a line break that
ends the path, so a path is also read without it (`Readings`, `Chomped`).
The properties of the workspace speak of what the globs match in this sense.
`UnsafePath` looks for a drive letter where the raw path begins and for white space in
all of it, as the code does, and not in the normal form. `LiteralHead` is cut at the
first `*` of the string, in the middle of a segment if it stands there (`Stem`).
`Workspace` takes one action per pass
of `assemble_workspace`: reject, copy the base, apply the submission, quarantine the
provider's hooks, purge the grader's paths, inject the bundle, strip `.git` and
collect the runtime guard's roots. A file over a directory, or a directory under a
file, makes `unlink` or `mkdir` fail: `ApplyRaises`, `InjectRaises`. `RetryFlow` puts
`demo.py`'s `main` and `_retry_flow` around it: two contracts on the same terms, and
between them `Remediate`, which restores what `files_to_revert` names. What it is
given is what `git diff --name-only` prints: a name that git quotes is no path
(`Printed`), and rename detection may print a deletion by its new name only
(`hidden`, any choice that `Renameable` allows).

**X402.** A request is `Present`, `CheckSignature`, `ReadNonce`, `Build`, `Send`, each
a step of its own because node calls come between; `NodeFails` may end it at the
calls of `settle_payment`. A header with a number that `int()` raises on, where nothing
catches it, is answered with a 500 (`OddNumber`). The chain is external: it includes the relayer's
transactions by nonce, lets one replace another of its nonce, and may drop one;
the token moves an authorization once and only strictly inside its window.
`RelayElsewhere` and `Spoil` are what others may do with an authorization.

**Contract, Drafting, Agents.** Terms are a record of the fields that a check, the
guard or a policy reads; a hash is the terms it is of. A model answers with anything
of its schema's shape, or nothing (`GenerateJson`). `DraftTask` is the MCP tool: it
reports `may_be_funded` under the policy *of the call*. `ContractFromDraft` checks
again, under the policy it is given, and raises (is not enabled) otherwise.
`BuildContract` is a contract without a draft, held to `ValidTerms` only. The
provider's side has any funded contract assessed, pushes any commit whatever the
advice, is evaluated on the funded terms (`Evaluate`; other terms raise,
`EvaluateRaises`), and after a FAIL may get the plan `advise()` stored
beside the receipt. `policy` in a funded contract and `rejected` in an attempt are
history. Two gradings of one commit may differ here.

## 3. The runs

| Run | Instance | Shows |
|---|---|---|
| `settlement` | 2 commits, 2 redelivered ids and fresh ones, both verdicts per commit, a PASS for another contract, deadline 1, clock to 3 | at most one directive, and exactly one when closed; no verdict inherited; a release is earned; the key names what was settled; closed for good |
| `settlement_promise` | the same with reproducible grading, clock to 2, fairness | the settlement executes the verdict on record; the machine implements `Escrow`; every task is closed |
| `settlement_record` | `Reproducible = FALSE` | **violated**: the verdict on record and the one settled differ |
| `taskstore` | 2 handlers, 2 attempts, 7 events: two pushes, a result, three settlement calls, a poll | the store implements `AtomicTask`; what was answered is durable; one directive, which the document records; every request ends |
| `webhook_push` | the same | **violated**: a push answered 202 is not in the document |
| `payout` | 2 contracts (due at 0 and at 1), 2 commits (one passes for the first, the other fails there and passes for the second), 2 prefixes, both stores, one tick; escrow that cannot pay everything twice | only a PASS pays the provider; a second payout straddles the deadline; a stored settlement was paid; a stored receipt is true; an escrow is forgotten only in the ways of `GivenUp` |
| `payout_twice` | one commit that passes | **violated**: escrow pays a commit twice |
| `sealed` | 2 evaluations, 2 executions, 2 bundles, fairness | a returned verdict was graded against the pinned bundle; success has a result; every call ends |
| `sealed_execution` | the same | **violated**: the receipt names another execution than the one that produced the verdict |
| `x402` | 2 requests, 8 payments (good ones, each check failed, contract signers), no header and one that raises, 3 deployments, clock to 2, fairness | no nonce gap; a fee answered 200 is accounted for; every request is answered |
| `retry` | 12 paths, 2 bases, 2 bundles, every submission over these paths | the grader is the buyer's; the provider is confined; no silent fix-up; a retry keeps the permitted work |
| `agents` | 2 policies, 8 drafts, 3 contracts without one, 3 commits, 2 opinions, 3 plans; 2 contracts funded, 2 commits pushed | a drafted contract and every PASS under it keep to the policy; cleared advice is not rejected under its contract |

The violated runs are divergences of section 6: each checks one sentence that
a docstring, a comment or a test of the repository states.

**Bounds, and why they are enough.** Two commits give a head and one it
superseded, and with a third event the way back to the first. The clock needs a
value at the deadline, one before and one after; `settlement` has two after, so
that a result may be reported, and then settled, late. Two redelivered ids
allow a redelivery with another event in between; fresh ones are unlimited
(`OneShot`). The retry contract's manifest is the only way for a manifest of the
same repository and commit not to be covered. Two handlers suffice for a
lost update, and two attempts for one re-run and for its exhaustion. In `Payout`
two contracts are enough for one to overwrite the other's document, receipt or
funding, two prefixes give a repeated and an independent call, and a deadline of 0
with one tick gives calls on either side. In `SealedEvaluation` two executions overlap
on one prefix, or run on two with the local directory between them; `Execution` also
bounds the dispatches (no call begins once every execution has been started). Two
x402 requests contend for one nonce or one authorization; more only repeat it.
`retry`'s paths hold one of each kind: a source, a directory in its place, a
hook, a quoted name, a protected file that the allow-list names too, one beside it
with a line break in its name, a grader file outside and one inside the sources that a
glob names in part (`r*.py`), a file outside every term, one of `.git`.
`agents` has a draft per check of the policy that fails, two that pass one policy and
not the other, a name that normalises to one that begins like a drive, and two contracts under which the same commit fares differently;
`MaxContracts` and `MaxAttempts` are 2 so that a plan of one contract can meet an
evaluation of the other.

**Deadlock** is checked in every run but `x402`, which stops once every request is
answered. The others always have something left to do: an event to redeliver
(`Settlement`, `TaskStore`, `Payout`), a bundle to edit (`SealedEvaluation`), a contract to
draft or to assess (`Agents`); `RetryFlow` stutters when its flow is over (`Finished`).

**Fairness.** `Settlement!FairSpec` asks for the clock and for a caller that
polls `on_deadline` and settles what is graded (`Close`). `on_deadline` is written for a poller, but nothing
in `mergegate/` calls it: `EventuallyClosed` is a property of the machine *under
such a caller*, and says that no state of the machine defeats it.
`TaskStore!FairSpec` asks that a handler which has begun goes on (`Work`) unless its
instance crashes; it asks nothing of deliveries. `SealedEvaluation!FairSpec` asks that
the orchestrator goes on, which `_gcloud`'s timeout justifies; an execution may
hang for ever. `X402!FairSpec` asks that a request which has begun goes on, since
every node call has the provider's timeout; the fairness of `Include` is the chain's,
and `RequestAnswered` does not depend on it.

## 4. What is proved

For every set of commits, ids, manifests, handlers, events, executions, bundles,
contracts, payments, trees, policies and opinions, every deadline and every bound:

| Theorem | Property |
|---|---|
| `SettlementProofs!TypeCorrect` | `TypeOK` |
| `AtMostOneDirective` | `OneTerminalAction` |
| `NoInheritedVerdict` | `VerdictBinding` |
| `OnlyEarnedRelease` | `ReleaseIsEarned` |
| `OnlyUngradedExpires` | `ExpiryOwesNothing` (in no run) |
| `KeyOfTheRecord` | `KeyNamesTheSettlement` |
| `SettlementFollowsRecord` | `Reproducible => SettlesOnRecord` |
| `ClosedForGood` | `TerminalIsFinal` |
| `KeepsThePromise` | `Reproducible` implies the refinement of `Escrow` |
| `TaskStoreProofs!TypeCorrect`, `NoEventLost`, `OneDirective`, `Atomicity` | `TypeOK`, `AppliedIsDurable`, `OneDirectiveHanded`, `AtomicEvents` (the refinement of `AtomicTask`) |
| `SealedProofs!TypeCorrect`, `NoManufacturedVerdict`, `NoSuccessWithoutResult` | `TypeOK`, `VerdictIsGraded`, `SuccessHasResult` |
| `PayoutProofs!TypeCorrect`, `OnlyPassPaysProvider`, `AtMostOnePerSide`, `ClosedIsPaid`, `ReceiptsAreTrue`, `NoEscrowForgotten` | `TypeOK`, `ProviderPaidOnPass`, `SecondPayoutStraddlesDeadline`, `StoredSettlementIsPaid`, `ReceiptIsTrue`, `NothingForgotten` |
| `NobodyPaidTwice`, `FeeIsEarned` | `OnePayoutPerParty`, `FeeFollowsPayout` (in no run) |
| `X402Proofs!TypeCorrect`, `RelayerNeverStuck`, `OnlyQuotedFees`, `EverySettledFee` | `TypeOK`, `NoNonceGap`, `RelayedFeeIsQuoted` (in no run), `SettledIsAccountedFor` |
| `PathsProofs!OneVerdictPerFile`, `SubtreeGlob`, `ProtectedSubtree` | facts about the guard, for every path, glob and guard |
| `RetryProofs!TypeCorrect`, `BuyersGrader`, `ConfinedProvider`, `EveryFixupIsReported`, `WorkIsKept` | `TypeOK`, `GraderIsBuyers`, `ProviderConfined`, `NoSilentFixup`, `RetryKeepsTheWork` |
| `LiteralHeadIsPrefix`, `GuardedGrader` | a fact about globs; `GraderIsGuarded` (in no run) |
| `AgentsProofs!TypeCorrect`, `PolicyHolds`, `ClearedIsAccepted` | `TypeOK`, `PolicyIsKept`, `AdviceHolds` |
| `DraftedFileIsUngraded` | what `validate_draft` says of a writable file or directory |

The theorems about `Spec` follow from an inductive invariant `IInv`, proved to hold
initially and to be kept by every action, one lemma per action or conjunct; those of
`PathsProofs`, `LiteralHeadIsPrefix` and `DraftedFileIsUngraded` are about operators.

- *Settlement.* The safety properties are not inductive by themselves.
  `OneTerminalAction` needs a key to be there exactly in the settled states
  (`KeyNamesTheSettlement`), or a closed task might be settled again. `ReleaseIsEarned`
  needs the verdict on record to have been reported (`VerdictReported`), and a
  recorded verdict to be the state while the task is open (`GradeIsState`).
  `SettlesOnRecord` needs `ReportsAgree`: the manifest that is settled and the one
  that was recorded are of one commit and one contract, so they agree. The proof
  first says what each handler does to a machine (`SubmissionMoves`, `SettleMoves`,
  ...), then that each action keeps `IInv`.
- *Refinement.* Every action of `Settlement` is `Offer`, `Judge`, `Release`,
  `Return`, `Advance` or a stutter of `Escrow`; under `IInv` the mapped result is the
  verdict of `grade` (`ResultIsGrade`), which is what makes a second result of a
  graded commit a stutter.
- *TaskStore.* The core is `SnapshotFresh`: what a transaction read is still the
  document unless the transaction is stale. `seen` only grows, a closed task keeps its
  state and key, and a directive comes only from an event that closes an open document
  (`EffectRemembers`). `OneDirectiveHanded` needs the same said of a directive that is
  committed and not yet answered (`OneDirectivePending`).
- *Refinement of AtomicTask.* A commit is `Serve` of the event, since the snapshot is the
  document (`CommitServes`); a reply is `Tell`, a crash after the commit is `Lose`
  (`OutcomeLeaves`); reads, re-runs, failures, earlier crashes and pushes are stutters
  (`HiddenStep`).
- *Paths.* `NormalizePath` and `Matches` are about sequences of any length. Induction
  is on the set of lengths at which a claim holds (`Induction`, from the well-foundedness
  of the naturals), since an induction theorem with an operator parameter cannot be
  used. `NormalSegments` says what the loop of `normalize_path` keeps, `NormalIsFixed`
  that it leaves a normal path alone; `HeadIsPrefix` that the segments of a glob before
  its first wildcard are how every path it matches begins. `OneVerdictPerFile` says that
  a path and its normal form are judged alike, and names the one exception
  (`./C:notes`). `SubtreeGlob` says that `dir`, `dir/` and `dir/**` match what is in the
  directory, *unless a name below it has a line break in it* (`InSubtree`), and
  `ProtectedSubtree` that the allow-list opens nothing of that. `LiteralHeadIsPrefix` and
  `GuardedGrader` hold of globs whose head is made of whole names (`Anchored`): a file
  of the bundle that such a glob matches has a root of the runtime guard at it or above
  it. Of `tests/test_*.py`, whose head is `tests/test_`, nothing is claimed.
- *SealedEvaluation.* A produced manifest stays produced, because nothing changes
  what an execution graded once it has begun to write (`JobsStep`,
  `ProducedStays`); what remains are the steps that put a manifest somewhere.
- *Payout.* The invariant says what `settle()` has in hand at each stage and how
  every transfer was decided: by a manifest of its contract and commit, in time for a
  release (`TransferredIsDecided`). Two transfers decided on one side of the deadline
  then have one key (`OneSideOneKey`), as have two to one party (`OnePartyOneKey`), and
  the rail keeps one. `NothingForgotten` is an action property: what holds an escrow (the books, the document, the call) is
  handed over, step by step (`HeldBy...`).
- *X402.* `CountIsLatest`: a count that was read is never ahead of the chain, and at
  most one transaction waits, with the chain's next nonce. The gap cannot open
  because `get_transaction_count` counts the included ones.
- *RetryFlow.* The tree after each pass is written down (`Quarantined`, `Purged`,
  `Injected`, `Stripped`), each from the one before; the properties are then about
  the last one. `RemediatedTree` says what the restored tree holds.
- *Agents.* `MadeUnder` carries a policy from the signature to the funded contract,
  `ReceiptsOK` the guard's answer to the receipt, `Checked` that of an advice to
  whoever goes by it. `PolicyIsKept` follows since the guard denies what matches a
  protected or a grader glob whatever the allow-list says (`AcceptedIsUnguarded`).
  Nothing about the models' answers is used.

The proofs assume the named assumptions of the modules only, and TLC evaluates
them in the runs: an absent value is not a value (`MachineAssumption`,
`KeyAssumption`, `SealedAssumption`, `FileAssumption`, parts of `PayoutAssumption`,
`X402Assumption` and `AgentsAssumption`), events carry what their kind needs
(`StoreAssumption`), bounds are numbers (`SettlementAssumption`), grading is
reproducible where it says so (`ReproducibleAssumption`; only `AtMostOnePerSide` of the
theorems about `Payout` uses it), git prints no path with an empty or a `.`
segment and a bundle has no file where the repository may have a directory
(`WorkspaceAssumption`), a segment with a wildcard beside other characters is neither
`*` nor `**` nor empty (`PathsAssumption`), and submissions are trees git can hold (`RetryAssumption`).

**Only model-checked**: the liveness properties (`EventuallyClosed`, `RequestEnds`,
`DispatchEnds`, `RequestAnswered`), which are beyond the prover. Everything else a
passing run checks is also proved.

**Stated and in no run**: `ExpiryOwesNothing`, `RelayedFeeIsQuoted`, `OnePayoutPerParty`,
`FeeFollowsPayout` and `GraderIsGuarded` hold of the instances of `settlement`, `x402`,
`payout` and `retry`, and are proved; `PaidIsNotUndone`, `RemediatedIsAccepted` and `NothingStranded`
do not hold, and section 6 says why. Each can be added to its run's configuration.

## 5. What is not modelled

- `TaskStore`: `put` against `apply`, and the encoding of document ids.
- The webhook before a push reaches `on_submission`: signature, ping, branch and
  repository dispositions.
- The scripted content of the demo's commits and its console output.
- Workspace: symbolic links, empty directories, the executable bit, the tree hash,
  what the runtime guard refuses while the commands run.
- Globs with `**` beside other characters in a segment, or that end in more than one
  slash; grader globs that are absolute, climb, or have an empty segment before the end
  (their head is taken to end there).
- Sealed evaluation: the base tree and the submission's contents, the digests of the
  image and of the outputs.
- x402: encodings, the challenge's body, gas prices.
- Retry: `RetryBudget`, which nothing outside the tests calls.
- Contracts: addresses, wording, the bundle's hash (taken as right; a bundle that
  changes is `SealedEvaluation`'s matter). Hashes are injective on what they hash.
- The other MCP tools, web pages, screening and forensics, spending policy, CLI,
  sandbox request, egress probe: presentation or I/O that no verdict and no
  payment depends on.

## 6. Divergences found

Shown by a run:

1. `on_settlement` executes the verdict of the manifest it is passed, not the one
   recorded (`settlement_record`).
2. The webhook drives a copy of the task that nothing stores, against the comments in
   `app.py` and `webhook.py` (`webhook_push`).
3. `settle()` builds the rail's key from the outcome of this call, so that a retry
   past the deadline carries another key and the rail pays again (`payout_twice`).
4. `execution_id` names the execution this dispatch started; the verdict may be of
   an earlier one of the same evaluation (`sealed_execution`).

Seen in the models, without a run of their own:

5. A PASS evaluated before the deadline and settled after it is refunded.
6. With a memory store `settle()` closes the stored machine itself before the
   transfer (`demo.py:603`); a transfer that fails leaves a closed task and the money
   in escrow, and `settle()` refuses to be repeated (`Payout!NothingStranded`, the
   sentence of `tests/test_demo.py:151`).
7. A crash between `store.put` and the receipt (`demo.py:607`): the task is closed,
   `settle()` refuses, and no receipt is ever issued.
8. A receipt's id is of task and commit. `store.py:243-250` says a receipt is written
   once; a settlement of the same commit under another contract overwrites it.
9. `last_funding_tx` is the runner's: when the contract store fails or the process is
   restarted, the next receipt names another contract's funding transaction, or none.
   `ReceiptIsTrue` admits that; `last_execution_id` (`demo.py:563`) is of the same kind
   and is not modelled.
10. `settle()` reads and writes the task with `get` and `put`, not in the
    transaction that `store.py:11` describes: an event that `apply` commits in
    between is overwritten.
11. A transaction that waits can be replaced by a later request that read the same
    nonce: a caller told 200 has not paid (`X402!PaidIsNotUndone`, `app.py:263-265`).
12. `remediate()` takes `git diff --name-only` for the list of changed paths. A
    deletion that git takes for a rename stays (`RetryFlow!RemediatedIsAccepted`,
    `retry.py:274`); a file that was added, or a name that git quotes, makes
    `git checkout` fail after the refund (`demo.py:498`).
13. A submission that puts a file where the base has a directory passes the guard and
    makes assembly raise (`workspace.py:222`; in injection, 319) where a rejection is
    promised (line 130): there is no verdict.
14. `_existing_roots` gives the runtime guard no root for a glob that begins with
    a wildcard, nor for one with a wildcard inside a segment: the head of
    `tests/test_*.py` is `tests/test_`, which does not exist, and `?` is left in the
    head. Only `Anchored` globs are sure of their roots.
15. `drafting.py:190` says its check "matches what the evaluator will enforce". The
    probe of `**` is one segment, so a draft with a writable `**` passes although it
    covers the grader; the guard refuses the edit at the evaluation (`PolicyIsKept`).
16. `may_be_funded` does not mean that a contract can be made: a reward such as
    `1e-1`, or with seven decimals, or an empty argument of a command, passes the
    policy and `TaskContract` refuses it.
17. A plan is stored by task and commit: an actionable one may be served for a
    receipt of the same commit under another contract, whose guard may reject it.
    `AdviceHolds` speaks of the contract the plan was cleared for, and not of this.
18. A caller whose transaction was taken by the node, whose answer was lost, is told
    "not settled" while its fee moves (`X402!Send`, `x402_settle.py:409`).
19. `paths.py:131` says that a trailing `/` means "this directory and everything under
    it". A name below the directory with a line break in it is not matched (line 148),
    git lists such names (`-z`), and an allow-list with `**/*` accepts them; one that
    ends in a line break is matched by the globs of the name without it.
20. `./C:notes` passes the guard, and its normal form `C:notes`, which is how git has the
    file, is refused: a path cleared by a check may be rejected by the evaluation. The
    advice of `AdviceHolds` is therefore followed with names that are not refused.
21. A header whose `x402Version` is not a number, or whose `value` or `validAfter` is
    infinite, is answered with a 500 and not with the 402 that `decode_payment` gives
    for malformed input (`x402_settle.py:162`, 113, 330).

## 7. What is left

1. `put` against `apply` in `TaskStore`, with a run that shows item 10, and a caller that
   reads the closed document when the answer that held the directive was lost.
2. `WebhookReceiver.handle` with its dispositions and a deliverer that retries; a
   result that overtakes the push of its commit loses its delivery id.
3. `SealedEvaluation` composed with `Payout`: `evaluate()` and its execution id on
   the runner beside `settle()`, two contracts interleaved.
4. A receipt for every stored settlement, as liveness under repeated calls, once
   `settle()` can be repeated after a crash.
5. What the runtime guard refuses while the pinned commands run.
6. Abstract specifications of the payments (`Payout`: an account per contract) and of the
   sealed evaluation (an oracle that answers or does not), with proofs that the modules
   implement them.
