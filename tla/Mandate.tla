------------------------------ MODULE Mandate ------------------------------
(***************************************************************************)
(* The buyer's pre-signed payment mandate: mergegate/mandate.py.           *)
(*                                                                         *)
(* A mandate names one task, one contract hash and one deadline. Amounts,  *)
(* assets and addresses are data nothing here branches on: the recipient   *)
(* is the provider exactly when the action is a release.                   *)
(***************************************************************************)
EXTENDS Naturals

CONSTANTS
    Task,           \* mandate.task_id: the repository's full name
    ContractHash,   \* mandate.contract_hash, also the machine's
    Deadline        \* mandate.deadline

ASSUME DeadlineAssumption == Deadline \in Nat

Verdict == {"PASS", "FAIL"}

Action == {"release", "refund"}

\* The two integrity checks before anything is decided. When they fail the
\* code raises MandateError, so there is no directive at all.
MandateCovers(manifest) ==
    /\ manifest.contract = ContractHash
    /\ manifest.task = Task

\* Mutants: the clock is not consulted; a PASS on the deadline is too late.
MutantLatePassReleases(manifest, now) ==
    IF manifest.verdict = "PASS" THEN "release" ELSE "refund"
MutantDeadlineExclusive(manifest, now) ==
    IF now < Deadline /\ manifest.verdict = "PASS" THEN "release" ELSE "refund"

\* The deadline is consulted before the verdict: "a PASS that arrives late
\* still fails the condition".
ExecuteMandate(manifest, now) ==
    IF now <= Deadline /\ manifest.verdict = "PASS" THEN "release" ELSE "refund"

\* Mutant: the deadline itself counts as passed.
MutantExpiredAtDeadline(now) == now >= Deadline

\* expire_mandate raises on a live deadline and otherwise knows one outcome.
MandateExpired(now) == now > Deadline

=============================================================================
