------------------------------ MODULE RetryFlow ------------------------------
(***************************************************************************)
(* The retry flow of the demo runner (mergegate/demo.py, main and           *)
(* _retry_flow): fund, submit, evaluate, settle and, after a FAIL,          *)
(* remediate by reverting what the path guard rejects (mergegate/retry.py), *)
(* fund a second contract on the same terms and evaluate again. The         *)
(* evaluation is that of Workspace; what one settlement does to the money   *)
(* is Settlement's and Payout's matter, here it pays or refunds.            *)
(***************************************************************************)
EXTENDS Workspace, Functions

CONSTANTS
    Submissions,  \* trees a provider may push
    QuotedNames   \* segments git quotes when it prints a path

ASSUME RetryAssumption == Submissions \subseteq Commits /\ "quoted" \in Illegal

VARIABLES
    attempt,    \* 1, or 2 for the contract that is retry_of the first
    verdict,    \* of the manifest of this attempt
    escrow,     \* what each contract's escrow has become
    submitted,  \* the tree of the first submission
    hidden      \* what rename detection kept out of remediate's list

flow == <<attempt, verdict, escrow, submitted, hidden>>

vars == <<inputs, phase, workspace, flow>>

Attempt == {1, 2}

Init ==
    /\ base \in Bases /\ head = base /\ bundle \in Bundles
    /\ phase = "fund"
    /\ tree = base /\ hooks = <<>>
    /\ applied = {} /\ quarantined = {} /\ purged = {} /\ injected = {} /\ guardRoots = {}
    /\ attempt = 1 /\ verdict = "none"
    /\ escrow = [a \in Attempt |-> "none"]
    /\ submitted = base /\ hidden = {}

\* build_contract and fund: each attempt has a contract, and an escrow, of its own.
Fund ==
    /\ phase = "fund"
    /\ escrow' = [escrow EXCEPT ![attempt] = "held"]
    /\ phase' = IF attempt = 1 THEN "submit" ELSE "evaluate"
    /\ UNCHANGED <<inputs, workspace, attempt, verdict, submitted, hidden>>

\* A commit of the provider's; the runner's own submit pushes one of two. git refuses a
\* commit without a change.
Submit(t) ==
    /\ phase = "submit" /\ t # base
    /\ head' = t /\ submitted' = t
    /\ phase' = "evaluate"
    /\ UNCHANGED <<base, bundle, workspace, attempt, verdict, escrow, hidden>>

\* evaluate: FAIL on a rejection, and otherwise what the pinned commands' exits say.
Judge(v) ==
    /\ \/ phase = "assembled"
       \/ phase = "rejected" /\ v = "FAIL"
    /\ verdict' = v
    /\ phase' = "settle"
    /\ UNCHANGED <<inputs, workspace, attempt, escrow, submitted, hidden>>

\* settle and what main does next. A PASS that comes late is refunded, and not retried:
\* _retry_flow looks at the verdict of the manifest.
Settle(late) ==
    /\ phase = "settle"
    /\ escrow' = [escrow EXCEPT ![attempt] =
                     IF verdict = "PASS" /\ ~late THEN "released" ELSE "refunded"]
    /\ phase' = IF attempt = 1 /\ verdict = "FAIL" THEN "remediate" ELSE "done"
    /\ UNCHANGED <<inputs, workspace, attempt, verdict, submitted, hidden>>

\* Deleted files that git may print as renamed, by the new name only.
Added == {p \in Touched : base[p] = Absent}

Renameable ==
    {p \in Touched : head[p] = Absent /\ \E q \in Added : head[q] = base[p]}

Hides(paths) ==
    \E rename \in Injection(paths, Added) : \A p \in paths : head[rename[p]] = base[p]

\* Without -z, git prints an unusual name in quotes and with backslashes.
Printed(p) == IF Segments(p) \cap QuotedNames # {} THEN <<"quoted">> ELSE p

\* What the guard says of each path as it was printed.
GuardedAsPrinted == [p \in Path |-> Classify(ContractGuard, Printed(p))]

\* Mutant: the files of the submission are reverted if any of them is rejected.
MutantFilesToRevert(changed) ==
    IF \E p \in changed : GuardedAsPrinted[p] # "accepted" THEN changed ELSE {}

\* files_to_revert, of the paths as they were printed.
FilesToRevert(changed) == {p \in changed : GuardedAsPrinted[p] # "accepted"}

\* git checkout base_sha -- path: fails for a path the base does not have.
CheckoutFails(paths) == \E p \in paths : base[p] = Absent \/ Printed(p) # p

\* Mutant: what a restored file displaces is left beside it.
MutantReverted(paths) == [p \in Path |-> IF p \in paths THEN base[p] ELSE head[p]]

\* A file that is restored displaces what stands above or below it.
Reverted(paths) ==
    [p \in Path |->
        CASE p \in paths -> base[p]
          [] p \notin paths /\ (\E q \in paths : Inside(p, q) \/ Inside(q, p)) -> Absent
          [] OTHER -> head[p]]

\* remediate. Nothing to revert ends the flow, and so does an error of git.
Remediate(renamed) ==
    LET changed == Touched \ renamed
        toRevert == FilesToRevert(changed)
    IN
    /\ phase = "remediate" /\ Hides(renamed)
    /\ hidden' = renamed
    /\ IF toRevert = {} \/ CheckoutFails(toRevert)
       THEN /\ phase' = IF toRevert = {} THEN "done" ELSE "raised"
            /\ UNCHANGED <<head, attempt>>
       ELSE /\ head' = Reverted(toRevert)
            /\ attempt' = 2
            /\ phase' = "fund"
    /\ UNCHANGED <<base, bundle, workspace, verdict, escrow, submitted>>

Finished == phase \in {"done", "raised"} /\ UNCHANGED vars

Next ==
    \/ Fund
    \/ \E t \in Submissions : Submit(t)
    \/ Assemble /\ UNCHANGED flow
    \/ \E v \in {"PASS", "FAIL"} : Judge(v)
    \/ \E late \in BOOLEAN : Settle(late)
    \/ \E renamed \in SUBSET Renameable : Remediate(renamed)
    \/ Finished

Spec == Init /\ [][Next]_vars

-----------------------------------------------------------------------------
(* Properties *)

\* Types of the variables.
TypeOK ==
    /\ base \in Bases /\ head \in Commits /\ bundle \in Bundles /\ submitted \in Commits
    /\ phase \in Phase
    /\ tree \in [Path -> Content \cup {Absent}]
    /\ DOMAIN hooks \subseteq Path /\ hooks \in [DOMAIN hooks -> Content]
    /\ applied \subseteq Path /\ quarantined \subseteq Path
    /\ purged \subseteq Path /\ injected \subseteq Path
    /\ guardRoots \subseteq {LiteralHead(pattern) : pattern \in GraderPaths}
    /\ attempt \in Attempt
    /\ verdict \in {"none", "PASS", "FAIL"}
    /\ escrow \in [Attempt -> {"none", "held", "released", "refunded"}]
    /\ hidden \subseteq Path

\* p stands where a file that the contract guards was restored.
Displaced(p) ==
    \E q \in FilesOf(head) :
        Guarded[q] # "accepted" /\ submitted[q] = Absent /\ (Inside(p, q) \/ Inside(q, p))

\* retry.py:274, "revert everything the contract's own guard rejects, keep everything it
\* permits": on the paths it may write, the second submission is the first one, but for
\* what stands in place of a restored file; and unless git hid a deletion behind a
\* rename the guard accepts it.
RetryKeepsTheWork ==
    attempt = 2 =>
        /\ escrow[1] = "refunded"
        /\ \A p \in Path :
               IF Guarded[p] = "accepted"
               THEN head[p] = submitted[p] \/ Displaced(p)
               ELSE head[p] = base[p] \/ p \in hidden
        /\ hidden = {} => Violations = {} /\ phase # "rejected"

\* The same without the exception for renames.
RemediatedIsAccepted == attempt = 2 => phase # "rejected"

-----------------------------------------------------------------------------
(* What makes them inductive *)

\* The first attempt's tree is HEAD until it is remediated.
FirstAttempt ==
    /\ attempt = 1 =>
          /\ hidden # {} => phase \in {"done", "raised"}
          /\ phase \notin {"fund", "submit"} => head = submitted
          /\ phase = "remediate" => escrow[1] = "refunded"
          /\ phase \in {"fund", "submit"} => head = base
    /\ attempt = 2 => phase \notin {"submit", "remediate"}

IInv == TypeOK /\ AssemblyInv /\ FirstAttempt /\ RetryKeepsTheWork

=============================================================================
