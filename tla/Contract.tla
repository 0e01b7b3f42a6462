------------------------------ MODULE Contract ------------------------------
(***************************************************************************)
(* The pinned terms of a task, mergegate/contract.py. A hash stands for the *)
(* canonical terms it is taken of: terms with one hash are the same terms.  *)
(* Addresses, wording and the time of day are left out; the deadline is the *)
(* number of hours a contract gives. Terms are their own path guard: they    *)
(* have its globs among their fields.                                       *)
(***************************************************************************)
EXTENDS Paths

\* _validate. Pinned: the commit, the grader and the image are named by whole digests.
ValidTerms(terms) ==
    /\ terms.pinned
    /\ terms.commands # {} /\ \A command \in terms.commands : command.whole
    /\ terms.allowed # {} /\ terms.grader # {}
    /\ terms.reward.plain
    /\ terms.visibility # "THIRD_PARTY_ESCROWED_GRADER"
    /\ terms.protected \cap terms.allowed = {}
    /\ terms.grader \cap terms.allowed = {}

\* contract_hash: to_canonical_dict sorts its paths, so it is of sets of them.
HashOf(terms) == terms

\* TaskContract.seal.
Seal(terms) == [contract |-> terms, hash |-> HashOf(terms)]

\* SealedContract.assert_intact.
AssertIntact(sealed) == HashOf(sealed.contract) = sealed.hash

=============================================================================
