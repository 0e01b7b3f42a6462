------------------------------ MODULE Receipt ------------------------------
(***************************************************************************)
(* The settlement receipt (mergegate/receipt.py): what build_receipt binds *)
(* and what verify_receipt asks of it. A receipt embeds the manifest and   *)
(* the mandate whole. Digests are injective, so one agrees with what it    *)
(* digests exactly when the digested things are equal, and signatures are  *)
(* valid. A mandate is named by the contract it covers, a party by its     *)
(* role: the parties of every mandate of a runner are the same.            *)
(***************************************************************************)

Action == {"release", "refund"}

\* execute_mandate's recipient.
Recipient(action) == IF action = "release" THEN "provider" ELSE "buyer"

\* settlement_key() of the bound fields.
BoundKey(binding) ==
    [task |-> binding.task, sha |-> binding.sha,
     contract |-> binding.contract, verdict |-> binding.decision]

\* build_receipt. The grader, tree, image and output digests are of the manifest, like
\* result_digest; funding_tx and settlement_tx rest on the signature alone.
BuildReceipt(manifest, mandate, action, tx, feePaid, fundingTx) ==
    LET graded ==
            [task |-> manifest.task, contract |-> manifest.contract,
             sha |-> manifest.sha, decision |-> manifest.verdict]
    IN  [manifest |-> manifest,
         mandate |-> mandate,
         graded |-> graded,
         result |-> manifest,
         mandateHash |-> mandate,
         key |-> BoundKey(graded),
         action |-> action,
         recipient |-> Recipient(action),
         tx |-> tx,
         feePaid |-> feePaid,
         fundingTx |-> fundingTx]

\* verify_receipt: the digests, the artifact, the mandate, the key, and last the
\* recipient and the decision of the action.
VerifyReceipt(r) ==
    /\ r.result = r.manifest
    /\ r.graded = [task |-> r.manifest.task, contract |-> r.manifest.contract,
                   sha |-> r.manifest.sha, decision |-> r.manifest.verdict]
    /\ r.mandateHash = r.mandate
    /\ r.mandate = r.graded.contract
    /\ r.key = BoundKey(r.graded)
    /\ r.action \in Action
    /\ r.recipient = Recipient(r.action)
    /\ r.action = "release" => r.graded.decision = "PASS"

=============================================================================
