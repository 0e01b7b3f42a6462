---------------------------- MODULE MCTaskStore -----------------------------
(***************************************************************************)
(* TaskStore with a push through apply and one through the webhook, a      *)
(* result, a settlement call that is redelivered, another caller's and one *)
(* for the retry contract (which raises), and a deadline poll, each        *)
(* delivered any number of times to two handlers.                          *)
(***************************************************************************)
EXTENDS TaskStore

CONSTANTS a, b, d1, d2, d3, RetryHash

Pass(hash) == [task |-> Task, contract |-> hash, sha |-> a, verdict |-> "PASS"]

MCManifest == {Pass(ContractHash), Pass(RetryHash)}

Push(sha, d) == [kind |-> "submission", sha |-> sha, now |-> 0, id |-> d]
Result == [kind |-> "result", manifest |-> Pass(ContractHash), now |-> 0, id |-> OneShot]
SettleCall(hash, d) == [kind |-> "settle", manifest |-> Pass(hash), now |-> 0, id |-> d]
DeadlinePoll == [kind |-> "deadline", now |-> Deadline + 1, id |-> OneShot]

\* OneShot is a fresh id at each delivery: the verifier's answer, a poll, or a
\* caller that was not told of the other's settlement.
MCEvent ==
    {Push(a, d1), Push(b, d2), Result, SettleCall(ContractHash, d3),
     SettleCall(ContractHash, OneShot), SettleCall(RetryHash, OneShot), DeadlinePoll}

\* The push of b comes in through the webhook, that of a through apply.
MCWebhookEvent == {Push(b, d2)}

=============================================================================
