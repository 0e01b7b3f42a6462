------------------------------- MODULE Payout -------------------------------
(***************************************************************************)
(* DemoRunner.fund and DemoRunner.settle (mergegate/demo.py) over a        *)
(* settlement rail (mergegate/payments), for the contracts funded one      *)
(* after the other on one repository. fund() moves the reward and the fee  *)
(* into escrow and puts a new machine; settle() drives the machine to a    *)
(* directive, executes it, records the transaction, puts the machine and   *)
(* issues the receipt. A transfer may fail having moved nothing or having  *)
(* moved everything, a store may fail, the process may be restarted        *)
(* between any two steps, and either call may be made again.               *)
(*                                                                         *)
(* The contracts share what the code shares: the document of the task (its *)
(* id is the repository's name), the escrow wallet, and the receipt id,    *)
(* which is of the commit. With a memory store the machine settle() drives *)
(* is the stored object itself; with FirestoreTaskStore it is a copy,      *)
(* stored at the end.                                                      *)
(*                                                                         *)
(* The rail is external: it sends at most one transfer per idempotency     *)
(* key, a repeated key gets the original transaction, and a wallet cannot  *)
(* send what it does not hold.                                             *)
(***************************************************************************)
EXTENDS Receipt, Naturals, FiniteSets

CONSTANTS
    Task, Sha, NoSha, Delivery, OneShot, Tx, NoTx, NoKey, Manifest,  \* of TaskMachine
    Contract,   \* the contracts of the task, by hash
    DeadlineOf, \* the deadline of each
    Reward,     \* amount_usdc of every mandate
    FeeAmount,  \* verifier_fee_usdc
    Prefix,     \* delivery_prefix of a settle() call
    Stores,     \* the kinds of task store in use
    NoDocument, \* nothing stored, or no machine in hand
    NoReceipt,
    MaxTime     \* bound of the clock

\* The machine of a contract.
M(c) == INSTANCE TaskMachine WITH ContractHash <- c, Deadline <- DeadlineOf[c]

Event == {"sub", "start", "done", "settle"}

Party == {"provider", "buyer"}

DocumentOf(c) == [contract : {c}, machine : M(c)!Machine]

IsDocument(document) == \E c \in Contract : document \in DocumentOf(c)

\* The rail's idempotency keys of settlements, and the transactions they stand for.
RailKey == {M(c)!SettlementKey(sha, state) :
                c \in Contract, sha \in Sha, state \in {"SETTLED", "REFUNDED"}}

ASSUME PayoutAssumption ==
    /\ DeadlineOf \in [Contract -> Nat]
    /\ Reward \in Nat /\ FeeAmount \in Nat /\ MaxTime \in Nat
    /\ IsFiniteSet(Contract) /\ IsFiniteSet(Sha)
    /\ Delivery = Prefix \X Event
    /\ Stores \subseteq {"memory", "firestore"}
    /\ Tx = RailKey
    /\ ~IsDocument(NoDocument)
    /\ NoTx \notin Contract \cup Tx
    /\ NoSha \notin Sha
    /\ OneShot \notin Delivery
    /\ \A mf \in Manifest :
           mf.task = Task /\ mf.contract \in Contract
                          /\ mf.sha \in Sha /\ mf.verdict \in {"PASS", "FAIL"}
    /\ \A c \in Contract : NoKey \notin M(c)!Key

\* Grading is reproducible: two verdicts of a commit under one contract are the same.
ASSUME ReproducibleAssumption ==
    \A x, y \in Manifest : x.contract = y.contract /\ x.sha = y.sha => x.verdict = y.verdict

VARIABLES
    store,      \* the store this deployment uses
    saved,      \* the document it holds
    live,       \* the document in hand
    stage,      \* where the runner is
    job,        \* what settle() has in hand beside it
    clock,
    lastFundingTx,  \* the runner's last_funding_tx: the contract whose it is
    funded,     \* the contracts whose transfer into escrow was made
    payouts,    \* the settlement transfers that were made
    fees,       \* the settlements whose verifier fee was transferred
    receipts    \* by the commit they are of

money == <<funded, payouts, fees>>

vars == <<store, saved, live, stage, job, clock, lastFundingTx, money, receipts>>

NoJob == [action |-> "none"]

Job == [manifest : Manifest, mandate : Contract, action : Action, at : Nat, feePaid : BOOLEAN]

\* What escrow holds: nothing else is paid into it.
Sum(amount, transfers) == amount * Cardinality(transfers)

Holds(amount) ==
    Sum(Reward + FeeAmount, funded) >= Sum(Reward, payouts) + Sum(FeeAmount, fees) + amount

-----------------------------------------------------------------------------

Init ==
    /\ store \in Stores
    /\ saved = NoDocument /\ live = NoDocument
    /\ stage = "idle" /\ job = NoJob
    /\ clock = 0
    /\ lastFundingTx = NoTx
    /\ funded = {} /\ payouts = {} /\ fees = {}
    /\ receipts = [sha \in Sha |-> NoReceipt]

\* A call is left: what it had in hand is gone.
Drop ==
    /\ stage' = "idle"
    /\ live' = NoDocument
    /\ job' = NoJob

\* fund(): the transfer carries the mandate's hash, so a second one for the same
\* contract moves nothing.
FundTransfer(c) ==
    /\ stage = "idle"
    /\ funded' = funded \cup {c}
    /\ live' = [contract |-> c, machine |-> M(c)!NewMachine]
    /\ stage' = "funded"
    /\ UNCHANGED <<store, saved, job, clock, lastFundingTx, payouts, fees, receipts>>

\* RailError leaves fund(). The money may have moved all the same.
FundFails(c) ==
    /\ stage = "idle"
    /\ funded' = funded \cup {c}
    /\ UNCHANGED <<store, saved, live, stage, job, clock, lastFundingTx, payouts, fees, receipts>>

\* A new machine is put, whatever the store held for the task.
FundPut ==
    /\ stage = "funded"
    /\ saved' = live
    /\ stage' = "stored"
    /\ UNCHANGED <<store, live, job, clock, lastFundingTx, money, receipts>>

\* The contract store has the terms; last of all the runner keeps the transaction.
FundRecord ==
    /\ stage = "stored"
    /\ lastFundingTx' = live.contract
    /\ Drop
    /\ UNCHANGED <<store, saved, clock, money, receipts>>

\* The machine settle() reaches before it asks for the settlement.
Driven(document, manifest, prefix) ==
    LET c == document.contract
        submitted == M(c)!OnSubmission(document.machine, manifest.sha, <<prefix, "sub">>)
        started == M(c)!OnVerificationStarted(submitted, manifest.sha, <<prefix, "start">>)
    IN  M(c)!OnVerificationCompleted(started, manifest, <<prefix, "done">>)

\* Mutant: the machine is stored as soon as it is settled, before the money moves.
MutantKeepEarly(document) == document

\* What the store holds once the machine in hand has become this one.
Keep(document) == IF store = "memory" THEN document ELSE saved

\* settle(), up to the directive. Without one it raises, and a copy is dropped.
Settle(manifest, mandate, prefix) ==
    LET d == <<prefix, "settle">>
        c == saved.contract
        graded == Driven(saved, manifest, prefix)
        after == [contract |-> c, machine |-> M(c)!OnSettlement(graded, manifest, clock, d)]
        directed == d \notin graded.seen /\ M(c)!SettlementApplies(graded, manifest)
    IN  /\ stage = "idle" /\ saved # NoDocument
        /\ saved' = Keep(after)
        /\ IF directed
           THEN /\ live' = after
                /\ stage' = "pay"
                /\ job' = [manifest |-> manifest, mandate |-> mandate, at |-> clock,
                           action |-> M(c)!ExecuteMandate(manifest, clock),
                           feePaid |-> FALSE]
           ELSE UNCHANGED <<live, stage, job>>
        /\ UNCHANGED <<store, clock, lastFundingTx, money, receipts>>

\* Mutants: the key tells one call from another; it does not tell a release from a
\* refund; it is the one the receipt carries.
MutantKeyPerCall(document, manifest) ==
    M(document.contract)!SettlementKey(manifest.sha, document.machine.seen)
MutantKeyOfCommit(document, manifest) ==
    M(document.contract)!SettlementKey(manifest.sha, "SETTLED")
MutantKeyOfVerdict(document, manifest) ==
    M(document.contract)!SettlementKey(manifest.sha, manifest.verdict)

\* The idempotency key: computed from the state the machine is in after the
\* settlement, and so not the key the machine and the receipt carry.
PayoutKey(document, manifest) ==
    LET m == document.machine
    IN  M(document.contract)!SettlementKey(manifest.sha,
            IF m.state \in {"SETTLED", "REFUNDED"} THEN m.state ELSE manifest.verdict)

CurrentKey == PayoutKey(live, job.manifest)

IsRepeated(key) == \E p \in payouts : p.key = key

\* The rail's side of the settlement: a repeated key moves nothing.
Transferred ==
    IF IsRepeated(CurrentKey)
    THEN payouts
    ELSE payouts \cup {[key |-> CurrentKey, to |-> Recipient(job.action), at |-> job.at]}

MayTransfer == IsRepeated(CurrentKey) \/ Holds(Reward)

\* SettlementExecutor.execute: the settlement first.
Pay ==
    /\ stage = "pay" /\ MayTransfer
    /\ payouts' = Transferred
    /\ stage' = "fee"
    /\ UNCHANGED <<store, saved, live, job, clock, lastFundingTx, funded, fees, receipts>>

\* Mutant: a failed settlement is swallowed as a failed fee is.
MutantPayFails ==
    /\ stage = "pay"
    /\ stage' = "fee"
    /\ UNCHANGED <<store, saved, live, job, clock, lastFundingTx, money, receipts>>

\* RailError leaves settle(), and the machine in hand is gone. A timed-out transfer
\* may have been submitted.
PayFails ==
    /\ stage = "pay"
    /\ payouts' \in {payouts} \cup (IF MayTransfer THEN {Transferred} ELSE {})
    /\ Drop
    /\ UNCHANGED <<store, saved, clock, lastFundingTx, funded, fees, receipts>>

\* Then the fee, under a key of its own. It is skipped where none is configured, and
\* a RailError is swallowed: then the receipt names no fee, moved or not.
Fee ==
    /\ stage = "fee"
    /\ fees' \in {fees} \cup (IF Holds(FeeAmount) THEN {fees \cup {CurrentKey}} ELSE {})
    /\ \E feePaid \in BOOLEAN :
           /\ feePaid => CurrentKey \in fees'
           /\ job' = [job EXCEPT !.feePaid = feePaid]
    /\ stage' = "record"
    /\ UNCHANGED <<store, saved, live, clock, lastFundingTx, funded, payouts, receipts>>

\* record_settlement_tx and store.put.
RecordAndPut ==
    LET document ==
            [live EXCEPT !.machine = M(live.contract)!RecordSettlementTx(@, CurrentKey)]
    IN  /\ stage = "record"
        /\ live' = document /\ saved' = document
        /\ stage' = "receipt"
        /\ UNCHANGED <<store, job, clock, lastFundingTx, money, receipts>>

ReceiptInHand ==
    BuildReceipt(job.manifest, job.mandate, job.action, CurrentKey, job.feePaid, lastFundingTx)

\* The receipt is built, signed and verified, and stored under an id made of the
\* task and the commit: over the one that was there.
IssueReceipt ==
    /\ stage = "receipt" /\ VerifyReceipt(ReceiptInHand)
    /\ receipts' = [receipts EXCEPT ![job.manifest.sha] = ReceiptInHand]
    /\ Drop
    /\ UNCHANGED <<store, saved, clock, lastFundingTx, money>>

\* An exception of a store, of the signing key or of the receipt's own verification.
Raises ==
    /\ \/ stage \in {"stored", "receipt"}
       \/ stage \in {"funded", "record"} /\ store = "firestore"
    /\ Drop
    /\ UNCHANGED <<store, saved, clock, lastFundingTx, money, receipts>>

\* The process stops and another is started. A memory store goes with it.
Restart ==
    /\ Drop
    /\ lastFundingTx' = NoTx
    /\ saved' = IF store = "memory" THEN NoDocument ELSE saved
    /\ UNCHANGED <<store, clock, money, receipts>>

Tick ==
    /\ clock < MaxTime
    /\ clock' = clock + 1
    /\ UNCHANGED <<store, saved, live, stage, job, lastFundingTx, money, receipts>>

Next ==
    \/ \E c \in Contract : FundTransfer(c) \/ FundFails(c)
    \/ FundPut \/ FundRecord
    \/ \E manifest \in Manifest, mandate \in funded, prefix \in Prefix :
           Settle(manifest, mandate, prefix)
    \/ Pay \/ PayFails \/ Fee \/ RecordAndPut \/ IssueReceipt
    \/ Raises \/ Restart \/ Tick

Spec == Init /\ [][Next]_vars

-----------------------------------------------------------------------------
(* Properties *)

PayoutsOf(c) == {p \in payouts : p.key.contract = c}

\* Types of the variables.
TypeOK ==
    /\ store \in Stores
    /\ \A document \in {saved, live} : document = NoDocument \/ IsDocument(document)
    /\ stage \in {"idle", "funded", "stored", "pay", "fee", "record", "receipt"}
    /\ job \in Job \cup {NoJob}
    /\ clock \in 0 .. MaxTime
    /\ lastFundingTx \in Contract \cup {NoTx}
    /\ funded \subseteq Contract
    /\ payouts \subseteq [key : RailKey, to : Party, at : Nat]
    /\ fees \subseteq RailKey
    /\ DOMAIN receipts = Sha

\* The provider is paid for a commit only on a PASS of that commit under that
\* contract, decided by its deadline; no crash or repetition makes it a payment of
\* anything else.
ProviderPaidOnPass ==
    \A p \in payouts :
        p.to = "provider" =>
            /\ p.at <= DeadlineOf[p.key.contract]
            /\ \E mf \in Manifest :
                   /\ mf.contract = p.key.contract /\ mf.sha = p.key.sha
                   /\ mf.verdict = "PASS"

\* The rail stops every second payout of a commit but one: after a call decided
\* by the deadline and one decided after it, which carry different keys.
SecondPayoutStraddlesDeadline ==
    \A c \in Contract : \A p, q \in PayoutsOf(c) :
        p.key.sha = q.key.sha /\ (p.at <= DeadlineOf[c] <=> q.at <= DeadlineOf[c]) => p = q

\* A task Firestore holds as closed was paid, by the transaction it records and to
\* the party its state speaks of: the machine is stored after the money moved.
StoredSettlementIsPaid ==
    store = "firestore" /\ saved # NoDocument /\ M(saved.contract)!IsTerminal(saved.machine) =>
        \E p \in PayoutsOf(saved.contract) :
            /\ p.key = saved.machine.tx
            /\ p.to = IF saved.machine.state = "SETTLED" THEN "provider" ELSE "buyer"

\* A stored receipt verifies, and what nothing inside it can tell is true of the rail:
\* the settlement it names was made for its contract, to its recipient, and so was its
\* fee. It always verifies when settle() was given the mandate that fund() returned.
ReceiptIsTrue ==
    /\ \A sha \in Sha :
           LET r == receipts[sha]
           IN  r # NoReceipt =>
                   /\ VerifyReceipt(r)
                   /\ r.graded.sha = sha
                   /\ \E p \in PayoutsOf(r.mandate) : p.key = r.tx /\ p.to = r.recipient
                   /\ r.feePaid => r.tx \in fees
                   /\ r.fundingTx \in funded \cup {NoTx}
    /\ stage = "receipt" /\ job.mandate = job.manifest.contract => VerifyReceipt(ReceiptInHand)

\* The reward of a contract was paid out, or is still the business of a stored machine
\* or of a settle() call.
IsHeld(c) ==
    \/ PayoutsOf(c) # {}
    \/ saved # NoDocument /\ saved.contract = c /\ ~M(c)!IsTerminal(saved.machine)
    \/ stage = "pay" /\ live.contract = c

\* What the code offers no way back from: another contract is funded on the task; a
\* memory store is lost, or closed a task it did not pay.
GivenUp(c) ==
    \/ saved' # NoDocument /\ saved'.contract # c
    \/ store = "memory" /\ stage' = "idle"

\* An escrow that is looked after is given up in no other way; an error or a restart
\* at any point of fund() or settle() leaves it to be settled by another call.
NothingForgotten == [][\A c \in Contract : IsHeld(c) => IsHeld(c)' \/ GivenUp(c)]_vars

\* One payout per commit: payments/base.py:13-18, "even if the state machine were
\* somehow driven twice, the rail sees a repeated key".
OnePayoutPerCommit ==
    \A p, q \in payouts : p.key.sha = q.key.sha /\ p.key.contract = q.key.contract => p = q

\* Of a commit each party is paid once: a second payout is never a second release, nor a
\* second refund, but the other of the two.
OnePayoutPerParty ==
    \A c \in Contract : \A p, q \in PayoutsOf(c) :
        p.key.sha = q.key.sha /\ p.to = q.to => p = q

\* The fee is taken only of a settlement whose transfer was made: executor.py:55-56, "the
\* reverse ordering would risk taking our fee out of an escrow that then failed to pay".
FeeFollowsPayout == \A key \in fees : \E p \in payouts : p.key = key

\* A closed task at rest was paid: tests/test_demo.py:151, "Nothing should be
\* stranded in escrow after a terminal settlement".
NothingStranded ==
    stage = "idle" /\ saved # NoDocument /\ M(saved.contract)!IsTerminal(saved.machine) =>
        PayoutsOf(saved.contract) # {}

=============================================================================
