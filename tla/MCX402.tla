------------------------------- MODULE MCX402 -------------------------------
(***************************************************************************)
(* X402 with two payments of one authorization-issuing key, one of a        *)
(* contract account, and payments that each fail one check.                 *)
(***************************************************************************)
EXTENDS X402

CONSTANTS n1, n2

Good(id) ==
    [id |-> id, declared |-> TRUE, to |-> "fee wallet", value |-> 1,
     after |-> -1, before |-> 2, signer |-> "key"]

MCPayment ==
    {Good(n1), Good(n2),
     [Good(n1) EXCEPT !.value = 0],
     [Good(n1) EXCEPT !.after = 0],
     [Good(n2) EXCEPT !.to = "other"],
     [Good(n2) EXCEPT !.signer = "forged"],
     [Good(n2) EXCEPT !.signer = "contract", !.value = 2],
     [Good(n2) EXCEPT !.signer = "contract65", !.before = 1]}

=============================================================================
