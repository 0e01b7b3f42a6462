----------------------------- MODULE Settlement -----------------------------
(***************************************************************************)
(* One funded task driven by events in any order: pushes, verification     *)
(* results, settlement calls and deadline polls, each of them possibly     *)
(* redelivered, together with the clock and with what the sealed verifier  *)
(* has reported so far. TaskMachine says what each handler does; here each *)
(* handler is an action.                                                   *)
(*                                                                         *)
(* The handlers run one at a time: the machine is "not thread-safe on its  *)
(* own", and module TaskStore shows the transaction that protects it.      *)
(***************************************************************************)
EXTENDS TaskMachine, Sequences

CONSTANTS
    MaxTime,        \* bound on the clock
    Reproducible    \* TRUE: grading a commit twice cannot give two verdicts

ASSUME SettlementAssumption ==
    /\ MaxTime \in Nat
    /\ Reproducible \in BOOLEAN

VARIABLES
    machine,        \* the TaskStateMachine
    clock,          \* the time the callers pass as "now"
    reports,        \* verification manifests the verifier has produced
    directives,     \* settlement directives handed to the executor, in order
    grade           \* history: the result accepted for the present head

vars == <<machine, clock, reports, directives, grade>>

Directive == [action : Action, sha : Sha \cup {NoSha}, at : Nat]
NoGrade == [verdict |-> "NONE", at |-> 0]
Grade == [verdict : Verdict, at : Nat] \cup {NoGrade}

-----------------------------------------------------------------------------

Init ==
    /\ machine = NewMachine
    /\ clock = 0
    /\ reports = {}
    /\ directives = <<>>
    /\ grade = NoGrade

Submission(sha, d) ==
    /\ machine' = OnSubmission(machine, sha, d)
    /\ grade' = IF d \notin machine.seen /\ SubmissionApplies(machine, sha)
                THEN NoGrade ELSE grade
    /\ UNCHANGED <<clock, reports, directives>>

VerificationStarted(sha, d) ==
    /\ machine' = OnVerificationStarted(machine, sha, d)
    /\ UNCHANGED <<clock, reports, directives, grade>>

\* Results and settlement calls carry manifests the verifier really produced.
VerificationCompleted(manifest, d) ==
    /\ manifest \in reports
    /\ machine' = OnVerificationCompleted(machine, manifest, d)
    /\ grade' = IF d \notin machine.seen /\ VerificationApplies(machine, manifest)
                THEN [verdict |-> manifest.verdict, at |-> clock] ELSE grade
    /\ UNCHANGED <<clock, reports, directives>>

Issue(action, sha) ==
    directives' = Append(directives, [action |-> action, sha |-> sha, at |-> clock])

Settle(manifest, d) ==
    /\ manifest \in reports
    /\ machine' = OnSettlement(machine, manifest, clock, d)
    /\ IF d \notin machine.seen /\ SettlementApplies(machine, manifest)
       THEN Issue(ExecuteMandate(manifest, clock), manifest.sha)
       ELSE UNCHANGED directives
    /\ UNCHANGED <<clock, reports, grade>>

\* expire_mandate's directive names no commit.
DeadlinePoll(d) ==
    /\ machine' = OnDeadline(machine, clock, d)
    /\ IF d \notin machine.seen /\ DeadlineApplies(machine, clock)
       THEN Issue("refund", NoSha)
       ELSE UNCHANGED directives
    /\ UNCHANGED <<clock, reports, grade>>

RecordTx(tx) ==
    /\ machine' = RecordSettlementTx(machine, tx)
    /\ UNCHANGED <<clock, reports, directives, grade>>

\* The sealed verifier finishes an evaluation, of whichever commit and
\* contract. Nothing tells it to report a verdict only once.
Report(manifest) ==
    /\ Reproducible =>
         \A r \in reports :
            r.sha = manifest.sha /\ r.contract = manifest.contract
                => r.verdict = manifest.verdict
    /\ reports' = reports \cup {manifest}
    /\ UNCHANGED <<machine, clock, directives, grade>>

Tick ==
    /\ clock < MaxTime
    /\ clock' = clock + 1
    /\ UNCHANGED <<machine, reports, directives, grade>>

Next ==
    \/ \E sha \in Sha, d \in DeliveryId : Submission(sha, d)
    \/ \E sha \in Sha, d \in DeliveryId : VerificationStarted(sha, d)
    \/ \E mf \in Manifest, d \in DeliveryId : VerificationCompleted(mf, d)
    \/ \E mf \in Manifest, d \in DeliveryId : Settle(mf, d)
    \/ \E d \in DeliveryId : DeadlinePoll(d)
    \/ \E tx \in Tx : RecordTx(tx)
    \/ \E mf \in Manifest : Report(mf)
    \/ Tick

Spec == Init /\ [][Next]_vars

\* The caller on_deadline is written for: it keeps asking, under fresh delivery
\* ids, and closes a graded task through on_settlement.
Close ==
    \/ \E mf \in Manifest : Settle(mf, OneShot)
    \/ DeadlinePoll(OneShot)

FairSpec == Spec /\ WF_vars(Tick) /\ WF_vars(Close)

-----------------------------------------------------------------------------
(* Properties *)

\* Types of the variables; the machine's fields are those of TaskStateMachine.
TypeOK ==
    /\ machine \in Machine
    /\ clock \in Nat
    /\ reports \subseteq Manifest
    /\ directives \in Seq(Directive)
    /\ grade \in Grade

\* "exactly one terminal settlement": whatever is redelivered or reordered, and
\* whichever of settlement and expiry comes first, at most one directive ever
\* reaches the executor, and there is one exactly when the task is closed.
OneTerminalAction == Len(directives) = IF IsTerminal(machine) THEN 1 ELSE 0

\* A verdict is attached to the present head or to nothing: a force-push never
\* inherits the previous commit's result (settlement.py, defense 2).
VerdictBinding ==
    /\ machine.state \in Graded \cup {"SETTLED", "REFUNDED"} <=> machine.verified # NoSha
    /\ machine.verified # NoSha => machine.verified = machine.eligible
    /\ machine.verified # NoSha <=> grade # NoGrade

\* The provider is paid only for the commit that is still the head, which the
\* verifier reported as a PASS of this very contract, by the deadline.
ReleaseIsEarned ==
    \A i \in DOMAIN directives :
        directives[i].action = "release" =>
            /\ directives[i].sha = machine.eligible
            /\ directives[i].at <= Deadline
            /\ grade # NoGrade /\ grade.at <= directives[i].at
            /\ \E r \in reports :
                  r.sha = directives[i].sha /\ r.verdict = "PASS" /\ MandateCovers(r)

\* A task expires only with the deadline behind it and nothing graded for its
\* head, and without consuming a settlement key (on_deadline's docstring).
ExpiryOwesNothing ==
    machine.state = "EXPIRED" =>
        clock > Deadline /\ grade = NoGrade /\ machine.key = NoKey

\* A settlement key is consumed exactly by a settlement, and names the artifact
\* and the verdict that were on record when it was consumed.
KeyNamesTheSettlement ==
    /\ machine.key # NoKey <=> machine.state \in {"SETTLED", "REFUNDED"}
    /\ machine.key # NoKey =>
          machine.key = SettlementKey(machine.verified, grade.verdict)

Decision(m) == <<m.state, m.eligible, m.verified, m.key, m.superseded>>

\* Terminal means terminal: no later event changes what was settled, for which
\* commit, or what it paid; a recorded transaction is never replaced.
TerminalIsFinal ==
    [][/\ IsTerminal(machine) =>
             Decision(machine') = Decision(machine) /\ directives' = directives
       /\ machine.tx # NoTx => machine'.tx = machine.tx]_vars

\* The settlement executes the verdict on record: a task whose recorded verdict
\* is FAIL is refunded, never released, and one recorded PASS is released
\* unless the deadline has passed (settlement.py:8, one verification result,
\* one terminal settlement action).
SettlesOnRecord ==
    machine.key # NoKey =>
        (machine.state = "SETTLED"
            <=> machine.key.verdict = "PASS" /\ directives[1].at <= Deadline)

\* A caller that keeps polling closes every task: none is left holding escrow.
EventuallyClosed == <>IsTerminal(machine)

-----------------------------------------------------------------------------
(* The inductive invariant of SettlementProofs: what the properties above need *)
(* to carry over a step.                                                       *)

\* While a task is open, its recorded verdict is its state.
GradeIsState == machine.state \in Graded => grade.verdict = machine.state

\* A recorded verdict was reported by the verifier, for this contract.
VerdictReported ==
    grade # NoGrade =>
        \E r \in reports :
            /\ r.sha = machine.verified
            /\ r.contract = ContractHash
            /\ r.verdict = grade.verdict

\* Reproducible grading, as a state predicate.
ReportsAgree ==
    Reproducible =>
        \A r, s \in reports :
            r.sha = s.sha /\ r.contract = s.contract => r.verdict = s.verdict

\* The one directive of a closed task is the one its state names, and no
\* transaction is on record before.
ClosedAs ==
    /\ grade.at <= clock
    /\ machine.tx # NoTx => IsTerminal(machine)
    /\ machine.state = "SETTLED" => directives[1].action = "release"
    /\ machine.state \in {"REFUNDED", "EXPIRED"} => directives[1].action = "refund"

IInv ==
    /\ TypeOK
    /\ OneTerminalAction
    /\ VerdictBinding
    /\ ReleaseIsEarned
    /\ ExpiryOwesNothing
    /\ KeyNamesTheSettlement
    /\ GradeIsState
    /\ VerdictReported
    /\ ReportsAgree
    /\ ClosedAs
    /\ Reproducible => SettlesOnRecord

-----------------------------------------------------------------------------
(* Refinement *)

\* The grade a machine stands by: the state while it is open, afterwards the
\* verdict its settlement key names.
RecordedResult ==
    CASE machine.state \in Graded -> machine.state
      [] machine.key # NoKey -> machine.key.verdict
      [] OTHER -> "NONE"

Payee ==
    CASE machine.state = "SETTLED" -> "PROVIDER"
      [] machine.state \in {"REFUNDED", "EXPIRED"} -> "BUYER"
      [] OTHER -> "HELD"

Promise == INSTANCE Escrow WITH
    Artifact <- Sha, NoArtifact <- NoSha, Limit <- Deadline, Horizon <- MaxTime,
    artifact <- machine.eligible, result <- RecordedResult, funds <- Payee, time <- clock

\* With reproducible grading every step of the machine is a step of the escrow
\* promise or changes nothing it speaks of.
KeepsPromise == Promise!EscrowSpec

=============================================================================
