-------------------------------- MODULE X402 --------------------------------
(***************************************************************************)
(* The verifier fee over x402: GET /x402/verify (mergegate/app.py) with the *)
(* two halves of mergegate/x402_settle.py. A client presents an EIP-3009    *)
(* authorization; its terms are compared with the quote, its signature is   *)
(* checked, and one relayer account submits it. Requests run concurrently,  *)
(* every node call may fail, and the answer is given when the node has      *)
(* taken the transaction, before it is included.                            *)
(*                                                                         *)
(* The chain is external: one transaction per relayer nonce, in order; a    *)
(* waiting one may be replaced by another of its nonce, or dropped; the     *)
(* token moves an authorization once, strictly inside its window.           *)
(***************************************************************************)
EXTENDS Integers, FiniteSets

CONSTANTS
    Request,    \* calls of the endpoint
    Id,         \* EIP-3009 nonces, with the account that signs them
    Payment,    \* what X-PAYMENT may hold
    NoPayment,  \* no header, or one that does not decode
    OddNumber,  \* a header with a number that int() raises on where nothing catches it
    Price,      \* amount_units of the quote
    Deployment, \* which of the settings this deployment may have
    MaxTime     \* bound of the clock

PaymentType ==
    [id : Id,
     declared : BOOLEAN,            \* names scheme exact and this network
     to : {"fee wallet", "other"}, value : Int,
     after : Int, before : Int,     \* -1 and -1 when they do not parse
     signer : {"key", "contract", "contract65", "forged"}]

ASSUME X402Assumption ==
    /\ Payment \subseteq PaymentType
    /\ NoPayment \notin PaymentType /\ OddNumber \notin PaymentType
    /\ NoPayment # OddNumber
    /\ Price \in Int /\ MaxTime \in Nat
    /\ Deployment \subseteq {"unpriced", "verify only", "relayer"}

VARIABLES
    deployment, \* no fee wallet; a fee wallet; a fee wallet and a relayer key
    clock,
    stage,      \* where each request is
    shown,      \* the payment it presents
    read,       \* the transaction count it read for the relayer
    answer,     \* what it was answered
    tx,         \* the fate of the transaction it sent
    mined,      \* the relayer's transactions included so far
    spent,      \* authorizations that can move no more
    moved       \* the payments that moved, and when

vars == <<deployment, clock, stage, shown, read, answer, tx, mined, spent, moved>>

chain == <<mined, spent, moved>>

Stage == {"idle", "signature", "settle", "build", "send", "done"}

\* 503; 500; 402 with the challenge, a failed check, or verified but not settled; 200.
Answer == {"none", "unavailable", "error", "challenge", "rejected", "unsettled", "settled"}

Fate == {"none", "pending", "moved", "reverted", "replaced", "evicted"}

-----------------------------------------------------------------------------

Init ==
    /\ deployment \in Deployment
    /\ clock = 0
    /\ stage = [r \in Request |-> "idle"]
    /\ shown = [r \in Request |-> NoPayment]
    /\ read = [r \in Request |-> 0]
    /\ answer = [r \in Request |-> "none"]
    /\ tx = [r \in Request |-> "none"]
    /\ mined = 0 /\ spent = {} /\ moved = {}

Reply(r, a) ==
    /\ stage' = [stage EXCEPT ![r] = "done"]
    /\ answer' = [answer EXCEPT ![r] = a]

Goto(r, s) ==
    /\ stage' = [stage EXCEPT ![r] = s]
    /\ UNCHANGED answer

\* The comparisons of verify_payment.
TermsMatch(p, now) ==
    /\ p.declared
    /\ p.to = "fee wallet"
    /\ p.value >= Price
    /\ p.after <= now /\ now < p.before

\* The request up to the signature: configuration, header, decoding, terms. Every
\* check runs whatever failed before, so a bad term rejects in the end; x402Version, or an
\* infinite number, may raise before that, and nothing catches it.
Present(r, p) ==
    /\ stage[r] = "idle"
    /\ shown' = [shown EXCEPT ![r] = p]
    /\ CASE deployment = "unpriced" -> Reply(r, "unavailable")
         [] deployment # "unpriced" /\ p = NoPayment -> Reply(r, "challenge")
         [] deployment # "unpriced" /\ p = OddNumber -> Reply(r, "error")
         [] OTHER -> IF TermsMatch(p, clock) THEN Goto(r, "signature") ELSE Reply(r, "rejected")
    /\ UNCHANGED <<deployment, clock, read, tx, chain>>

\* A key's signature is recovered offline; anything else is asked of the payer's
\* contract, by a node call that may fail.
CheckSignature(r) ==
    /\ stage[r] = "signature"
    /\ \/ shown[r].signer # "forged" /\ Goto(r, "settle")
       \/ shown[r].signer # "key" /\ Reply(r, "rejected")
    /\ UNCHANGED <<deployment, clock, shown, read, tx, chain>>

\* Mutant: the transactions that wait are counted too.
MutantTransactionCount == mined + Cardinality({r \in Request : tx[r] = "pending"})

\* Mutant: the nonce of the last transaction, for that of the next.
MutantLastNonce == mined - 1

\* get_transaction_count: the latest block's.
TransactionCount == mined

\* settle_payment up to the nonce. Without a relayer key, or with a signature that is
\* not 65 bytes, there is nothing to submit.
ReadNonce(r) ==
    /\ stage[r] = "settle"
    /\ IF deployment = "relayer" /\ shown[r].signer # "contract"
       THEN /\ read' = [read EXCEPT ![r] = TransactionCount]
            /\ Goto(r, "build")
       ELSE /\ Reply(r, "unsettled")
            /\ UNCHANGED read
    /\ UNCHANGED <<deployment, clock, shown, tx, chain>>

\* The token's conditions for a transfer, at the time of the latest block.
Transferable(p) ==
    /\ p.signer # "forged"
    /\ p.id \notin spent
    /\ p.after < clock /\ clock < p.before

\* Mutant: the gas limit is given, and nothing is estimated.
MutantBuild(r) ==
    /\ stage[r] = "build"
    /\ Goto(r, "send")
    /\ UNCHANGED <<deployment, clock, shown, read, tx, chain>>

\* build_transaction estimates the gas, which fails if the call would revert.
Build(r) ==
    /\ stage[r] = "build"
    /\ IF Transferable(shown[r]) THEN Goto(r, "send") ELSE Reply(r, "unsettled")
    /\ UNCHANGED <<deployment, clock, shown, read, tx, chain>>

\* Mutant: an error other than a refusal leaves the call unanswered.
MutantNodeFails(r) ==
    /\ stage[r] = "build"
    /\ Reply(r, "unsettled")
    /\ UNCHANGED <<deployment, clock, shown, read, tx, chain>>

\* A node call of settle_payment raises; nothing was sent.
NodeFails(r) ==
    /\ stage[r] \in {"settle", "build", "send"}
    /\ deployment = "relayer" /\ shown[r].signer # "contract"
    /\ Reply(r, "unsettled")
    /\ UNCHANGED <<deployment, clock, shown, read, tx, chain>>

\* The node takes r's transaction, in place of one that waits with its nonce.
Accepted(r) ==
    tx' = [s \in Request |->
              CASE s = r -> "pending"
                [] s # r /\ tx[s] = "pending" /\ read[s] = read[r] -> "replaced"
                [] OTHER -> tx[s]]

\* send_raw_transaction: taken and answered 200, or taken and the node's answer lost.
\* Refusals (nonce too low, replacement underpriced, already known) are NodeFails.
Send(r) ==
    /\ stage[r] = "send"
    /\ read[r] >= mined
    /\ Accepted(r)
    /\ Reply(r, "settled") \/ Reply(r, "unsettled")
    /\ UNCHANGED <<deployment, clock, shown, read, chain>>

Moved(p) ==
    /\ spent' = spent \cup {p.id}
    /\ moved' = moved \cup {[payment |-> p, at |-> clock]}

\* The chain includes the relayer's next transaction.
Include(r) ==
    /\ tx[r] = "pending" /\ read[r] = mined
    /\ mined' = mined + 1
    /\ IF Transferable(shown[r])
       THEN Moved(shown[r]) /\ tx' = [tx EXCEPT ![r] = "moved"]
       ELSE UNCHANGED <<spent, moved>> /\ tx' = [tx EXCEPT ![r] = "reverted"]
    /\ UNCHANGED <<deployment, clock, stage, shown, read, answer>>

\* A waiting transaction is dropped by the nodes.
Evict(r) ==
    /\ tx[r] = "pending"
    /\ tx' = [tx EXCEPT ![r] = "evicted"]
    /\ UNCHANGED <<deployment, clock, stage, shown, read, answer, chain>>

\* Anyone may relay an authorization.
RelayElsewhere(p) ==
    /\ Transferable(p)
    /\ Moved(p)
    /\ UNCHANGED <<deployment, clock, stage, shown, read, answer, tx, mined>>

\* The payer cancels the authorization, or spends what it would move.
Spoil(p) ==
    /\ p.id \notin spent
    /\ spent' = spent \cup {p.id}
    /\ UNCHANGED <<deployment, clock, stage, shown, read, answer, tx, mined, moved>>

Tick ==
    /\ clock < MaxTime
    /\ clock' = clock + 1
    /\ UNCHANGED <<deployment, stage, shown, read, answer, tx, chain>>

\* A step of the endpoint for a request it has begun.
Work(r) == CheckSignature(r) \/ ReadNonce(r) \/ Build(r) \/ NodeFails(r) \/ Send(r)

Next ==
    \/ \E r \in Request :
           \/ \E p \in Payment \cup {NoPayment, OddNumber} : Present(r, p)
           \/ Work(r) \/ Include(r) \/ Evict(r)
    \/ \E p \in Payment : RelayElsewhere(p) \/ Spoil(p)
    \/ Tick

Spec == Init /\ [][Next]_vars

\* Every node call returns or times out (HTTPProvider has a timeout), so a request
\* that has begun goes on; the chain includes what waits at its turn.
FairSpec == Spec /\ \A r \in Request : WF_vars(Work(r)) /\ WF_vars(Include(r))

-----------------------------------------------------------------------------
(* Properties *)

\* Types of the variables.
TypeOK ==
    /\ deployment \in Deployment
    /\ clock \in 0 .. MaxTime
    /\ stage \in [Request -> Stage]
    /\ shown \in [Request -> Payment \cup {NoPayment, OddNumber}]
    /\ read \in [Request -> Nat]
    /\ answer \in [Request -> Answer]
    /\ tx \in [Request -> Fate]
    /\ mined \in Nat
    /\ spent \subseteq Id
    /\ moved \subseteq [payment : Payment, at : Nat]

\* The relayer is never stuck behind a gap: whatever waits is next, or follows
\* another that waits, however requests overlap and transactions are dropped.
NoNonceGap ==
    \A r \in Request :
        tx[r] = "pending" =>
            \A n \in mined .. read[r] - 1 : \E s \in Request : tx[s] = "pending" /\ read[s] = n

\* Whatever the relayer moves is the quoted fee, to the fee wallet, and the request
\* it was moved for was told so unless the node's answer was lost.
RelayedFeeIsQuoted ==
    \A r \in Request :
        tx[r] \in {"pending", "moved"} \/ answer[r] = "settled" =>
            /\ shown[r] \in Payment /\ shown[r].to = "fee wallet" /\ shown[r].value >= Price
            /\ answer[r] \in {"settled", "unsettled"}

\* What a 200 is worth: its fee moved or waits, or else a concurrent request took its
\* nonce, or it was dropped, or the authorization expired or was used while it waited.
SettledIsAccountedFor ==
    \A r \in Request :
        answer[r] = "settled" =>
            \/ tx[r] \in {"pending", "moved", "evicted"}
            \/ tx[r] = "replaced"
               /\ \E s \in Request \ {r} : read[s] = read[r] /\ tx[s] # "none"
            \/ tx[r] = "reverted"
               /\ (shown[r].id \in spent \/ shown[r].before <= clock)

\* A 200 is not undone by the endpoint itself: app.py:263, "a caller told "paid" when
\* nothing moved is worse off than one told "verified but not settled"".
PaidIsNotUndone == \A r \in Request : answer[r] = "settled" => tx[r] # "replaced"

\* Every request that has begun is answered: whatever the node refuses, the call
\* returns an error instead of hanging on a nonce that has passed.
RequestAnswered == \A r \in Request : stage[r] # "idle" ~> stage[r] = "done"

-----------------------------------------------------------------------------
(* What makes the safety properties inductive *)

Quoted(p) == p \in Payment /\ p.to = "fee wallet" /\ p.value >= Price

\* A request past the terms presents the quoted fee, and past the signature a genuine
\* authorization.
InHand ==
    \A r \in Request :
        /\ stage[r] \in {"signature", "settle", "build", "send"} =>
              Quoted(shown[r]) /\ tx[r] = "none" /\ answer[r] = "none"
        /\ stage[r] \in {"settle", "build", "send"} => shown[r].signer # "forged"
        /\ stage[r] = "idle" => tx[r] = "none" /\ answer[r] = "none"

\* A transaction was sent by a request that is done, for an authorization that was
\* genuine, quoted and valid from before the submission on.
Sent ==
    \A r \in Request :
        /\ answer[r] = "settled" => tx[r] # "none"
        /\ tx[r] # "none" =>
              /\ stage[r] = "done" /\ answer[r] \in {"settled", "unsettled"}
              /\ Quoted(shown[r]) /\ shown[r].signer # "forged"
        /\ stage[r] = "send" \/ tx[r] # "none" => shown[r].after < clock

\* A count that was read is not ahead of the chain, and what waits is next.
CountIsLatest ==
    /\ \A r \in Request : stage[r] \in {"build", "send"} => read[r] <= mined
    /\ \A r \in Request : tx[r] = "pending" => read[r] = mined
    /\ \A r, s \in Request : tx[r] = "pending" /\ tx[s] = "pending" => r = s

IInv ==
    TypeOK /\ InHand /\ Sent /\ CountIsLatest /\ SettledIsAccountedFor

=============================================================================
