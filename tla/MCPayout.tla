------------------------------ MODULE MCPayout ------------------------------
(***************************************************************************)
(* Payout with two contracts of one task. Of the first a commit passes and *)
(* another fails; of the second, funded later and due later, the commit    *)
(* that failed passes. Each may be settled under two delivery prefixes.    *)
(***************************************************************************)
EXTENDS Payout

CONSTANTS a, b, first, second, p1, p2

Report(c, sha, verdict) ==
    [task |-> Task, contract |-> c, sha |-> sha, verdict |-> verdict]

TwoContracts ==
    {Report(first, a, "PASS"), Report(first, b, "FAIL"), Report(second, b, "PASS")}

OnePass == {Report(first, a, "PASS")}

MCDeadlineOf == [c \in Contract |-> IF c = first THEN 0 ELSE 1]

MCDelivery == Prefix \X Event

\* The keys of settlements.
MCTx == [task : {Task}, sha : Sha, contract : Contract, verdict : {"SETTLED", "REFUNDED"}]

=============================================================================
