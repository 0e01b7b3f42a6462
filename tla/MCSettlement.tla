---------------------------- MODULE MCSettlement ----------------------------
(***************************************************************************)
(* Settlement on a small instance: two commits, one redelivered delivery   *)
(* id beside the one-shot ones, both verdicts for both commits, and a      *)
(* result for the retry contract of the same repository (same task id,     *)
(* another contract hash).                                                 *)
(***************************************************************************)
EXTENDS Settlement

CONSTANTS RetryHash

MCManifest ==
    [task : {Task}, contract : {ContractHash}, sha : Sha, verdict : Verdict]
        \cup [task : {Task}, contract : {RetryHash}, sha : {CHOOSE s \in Sha : TRUE},
              verdict : {"PASS"}]

=============================================================================
