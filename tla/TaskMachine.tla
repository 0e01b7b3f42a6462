---------------------------- MODULE TaskMachine ----------------------------
(***************************************************************************)
(* TaskStateMachine of mergegate/settlement.py: the settlement state of    *)
(* one funded task, as the value a store keeps, and what each event        *)
(* handler makes of it.                                                    *)
(*                                                                         *)
(* A machine is a record. Each handler is an operator from a machine and   *)
(* an event to the machine afterwards, and has a predicate that says when  *)
(* it APPLIES (EventOutcome.applied). The three ways of not applying       *)
(* (DUPLICATE, STALE, REJECTED) leave the same machine behind and differ   *)
(* only in wording.                                                        *)
(***************************************************************************)
EXTENDS Mandate

CONSTANTS
    Sha,        \* commits a provider may submit
    NoSha,      \* the empty string: no submission, nothing verified
    Delivery,   \* delivery ids that may arrive more than once
    OneShot,    \* a delivery id that no other call ever carries
    Tx,         \* transaction hashes
    NoTx,
    NoKey,
    Manifest    \* the verification results there can be

ASSUME MachineAssumption ==
    /\ NoSha \notin Sha
    /\ NoTx \notin Tx
    /\ OneShot \notin Delivery
    /\ \A mf \in Manifest : mf.sha \in Sha /\ mf.verdict \in Verdict

DeliveryId == Delivery \cup {OneShot}

Graded == {"PASS", "FAIL"}
Terminal == {"SETTLED", "REFUNDED", "EXPIRED"}
TaskState == {"FUNDED", "SUBMITTED", "VERIFYING"} \cup Graded \cup Terminal

IsTerminal(m) == m.state \in Terminal

\* settlement_key() hashes length-prefixed parts, so that distinct parts give
\* distinct keys: the key is the record of its parts.
SettlementKey(sha, verdict) ==
    [task |-> Task, sha |-> sha, contract |-> ContractHash, verdict |-> verdict]

Key == [task : {Task}, sha : Sha, contract : {ContractHash}, verdict : Verdict]

ASSUME KeyAssumption == NoKey \notin Key

\* _superseded is kept as the set of its members: the code reads it only to
\* word a refusal.
Machine ==
    [state : TaskState,
     eligible : Sha \cup {NoSha},
     verified : Sha \cup {NoSha},
     tx : Tx \cup {NoTx},
     key : Key \cup {NoKey},
     seen : SUBSET Delivery,
     superseded : SUBSET Sha]

NewMachine ==
    [state |-> "FUNDED", eligible |-> NoSha, verified |-> NoSha, tx |-> NoTx,
     key |-> NoKey, seen |-> {}, superseded |-> {}]

-----------------------------------------------------------------------------
(* Helpers *)

\* _check_duplicate records a delivery it has not seen, whatever becomes of
\* the event. OneShot is never looked up again and need not be recorded.
Record(m, d) == [m EXCEPT !.seen = @ \cup ({d} \cap Delivery)]

\* Mutant: only a delivery that changed the task is remembered.
MutantRecordsApplied(m, d, applies, after) ==
    IF d \notin m.seen /\ applies THEN Record(after, d) ELSE m

\* Every handler opens with _check_duplicate.
Handle(m, d, applies, after) ==
    CASE d \in m.seen -> m
      [] d \notin m.seen /\ applies -> Record(after, d)
      [] d \notin m.seen /\ ~applies -> Record(m, d)

\* _check_stale: an event must name a commit, and the eligible one.
IsCurrent(m, sha) == sha # NoSha /\ sha = m.eligible

-----------------------------------------------------------------------------
(* Event handlers *)

\* Mutant: a closed task takes a new commit.
MutantSubmissionReopens(m, sha) == sha # m.eligible

\* A commit that is already eligible is "not a new artifact".
SubmissionApplies(m, sha) == ~IsTerminal(m) /\ sha # m.eligible

\* Mutant: the superseded commit's verdict stays.
MutantSubmittedKeepsVerdict(m, sha) ==
    [m EXCEPT !.superseded = @ \cup ({m.eligible} \cap Sha),
              !.eligible = sha, !.state = "SUBMITTED"]

\* A new head supersedes the old one and takes its verdict with it.
Submitted(m, sha) ==
    LET replaces == m.eligible # NoSha
    IN  [m EXCEPT
            !.superseded = IF replaces THEN @ \cup {m.eligible} ELSE @,
            !.verified = IF replaces /\ m.state \in Graded THEN NoSha ELSE @,
            !.eligible = sha,
            !.state = "SUBMITTED"]

OnSubmission(m, sha, d) ==
    Handle(m, d, SubmissionApplies(m, sha), Submitted(m, sha))

VerificationStartApplies(m, sha) ==
    ~IsTerminal(m) /\ IsCurrent(m, sha) /\ m.state = "SUBMITTED"

OnVerificationStarted(m, sha, d) ==
    Handle(m, d, VerificationStartApplies(m, sha), [m EXCEPT !.state = "VERIFYING"])

\* Mutant: a late result reopens a closed task.
MutantVerificationReopens(m, manifest) ==
    IsCurrent(m, manifest.sha) /\ manifest.contract = ContractHash

\* No state is excluded but the terminal ones: a result is taken straight from
\* SUBMITTED, and a second result replaces the first.
VerificationApplies(m, manifest) ==
    /\ ~IsTerminal(m)
    /\ IsCurrent(m, manifest.sha)
    /\ manifest.contract = ContractHash

OnVerificationCompleted(m, manifest, d) ==
    Handle(m, d, VerificationApplies(m, manifest),
           [m EXCEPT !.verified = manifest.sha, !.state = manifest.verdict])

\* What on_settlement checks before it asks the mandate.
MaySettle(m, manifest) ==
    /\ m.state \in Graded
    /\ IsCurrent(m, manifest.sha)
    /\ manifest.sha = m.verified

SettlementApplies(m, manifest) ==
    MaySettle(m, manifest) /\ MandateCovers(manifest) /\ m.key = NoKey

\* MandateError leaves on_settlement as an exception, after the delivery was
\* recorded: in memory the record stays, in a transaction it is rolled back.
SettlementRaises(m, manifest, d) ==
    d \notin m.seen /\ MaySettle(m, manifest) /\ ~MandateCovers(manifest)

\* Mutants: the key is computed after the state was overwritten; the key takes
\* its verdict from the manifest of this call.
MutantKeyAfterState(m, manifest, now) ==
    LET closed == IF ExecuteMandate(manifest, now) = "release"
                  THEN "SETTLED" ELSE "REFUNDED"
    IN  [m EXCEPT !.key = SettlementKey(manifest.sha, closed), !.state = closed]
MutantKeyOfManifest(m, manifest, now) ==
    [m EXCEPT !.key = SettlementKey(manifest.sha, manifest.verdict),
              !.state = IF ExecuteMandate(manifest, now) = "release"
                        THEN "SETTLED" ELSE "REFUNDED"]

\* The key names the verdict the machine recorded; the action comes from the
\* manifest the caller passes now.
Settled(m, manifest, now) ==
    [m EXCEPT
        !.key = SettlementKey(manifest.sha, m.state),
        !.state = IF ExecuteMandate(manifest, now) = "release"
                  THEN "SETTLED" ELSE "REFUNDED"]

OnSettlement(m, manifest, now, d) ==
    Handle(m, d, SettlementApplies(m, manifest), Settled(m, manifest, now))

\* Mutant: a task nobody submitted to does not expire.
MutantExpireSubmittedOnly(m, now) ==
    m.state \in {"SUBMITTED", "VERIFYING"} /\ MandateExpired(now)

\* Expiry is refused while a verdict exists, and consumes no settlement key.
DeadlineApplies(m, now) ==
    m.state \notin Terminal \cup Graded /\ MandateExpired(now)

OnDeadline(m, now, d) ==
    Handle(m, d, DeadlineApplies(m, now), [m EXCEPT !.state = "EXPIRED"])

\* record_settlement_tx raises unless the task is closed and no other
\* transaction was recorded.
RecordTxApplies(m, tx) == IsTerminal(m) /\ m.tx \in {NoTx, tx}

RecordSettlementTx(m, tx) == IF RecordTxApplies(m, tx) THEN [m EXCEPT !.tx = tx] ELSE m

=============================================================================
