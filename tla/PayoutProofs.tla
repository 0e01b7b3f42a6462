---------------------------- MODULE PayoutProofs ----------------------------
(***************************************************************************)
(* Proofs about Payout for every set of contracts, commits, manifests and  *)
(* delivery prefixes, every deadline and amount, and either store. The     *)
(* inductive invariant IInv says what settle() has in hand at each stage,  *)
(* that every transfer carries the key of its decision, and that no open   *)
(* task has a transaction.                                                 *)
(***************************************************************************)
EXTENDS Payout, TLAPS

\* The state a decision leaves a machine in.
StateOf(action) == IF action = "release" THEN "SETTLED" ELSE "REFUNDED"

-----------------------------------------------------------------------------
(* The machine of one contract *)

\* What an event before the settlement leaves alone.
SameBooks(m, n) ==
    /\ n.tx = m.tx
    /\ n.key = m.key
    /\ n.state \in {"SETTLED", "REFUNDED", "EXPIRED"}
           <=> m.state \in {"SETTLED", "REFUNDED", "EXPIRED"}

\* A handler that cannot close a task leaves its books alone.
LEMMA HandleKeeps ==
    ASSUME NEW c \in Contract, NEW m \in M(c)!Machine, NEW d \in Delivery,
           NEW applies \in BOOLEAN, NEW after,
           applies => after \in M(c)!Machine /\ SameBooks(m, after)
    PROVE  M(c)!Handle(m, d, applies, after) \in M(c)!Machine
           /\ SameBooks(m, M(c)!Handle(m, d, applies, after))
  <1>1. \A n \in M(c)!Machine : M(c)!Record(n, d) \in M(c)!Machine
                                /\ SameBooks(n, M(c)!Record(n, d))
    BY DEF M!Record, M!Machine, SameBooks
  <1>2. CASE d \in m.seen
    BY <1>2 DEF M!Handle, SameBooks
  <1>3. CASE d \notin m.seen /\ applies
    BY <1>1, <1>3 DEF M!Handle, SameBooks
  <1>4. CASE d \notin m.seen /\ ~applies
    BY <1>1, <1>4 DEF M!Handle, SameBooks
  <1>5. QED
    BY <1>2, <1>3, <1>4

\* Submission, start and completion keep the books.
LEMMA DrivenKeeps ==
    ASSUME NEW document, NEW c \in Contract, document \in DocumentOf(c),
           NEW manifest \in Manifest, NEW prefix \in Prefix
    PROVE  /\ Driven(document, manifest, prefix) \in M(c)!Machine
           /\ SameBooks(document.machine, Driven(document, manifest, prefix))
  <1> DEFINE m == document.machine
             sha == manifest.sha
             x == M(c)!OnSubmission(m, sha, <<prefix, "sub">>)
             y == M(c)!OnVerificationStarted(x, sha, <<prefix, "start">>)
             z == M(c)!OnVerificationCompleted(y, manifest, <<prefix, "done">>)
  <1>1. /\ document.contract = c /\ m \in M(c)!Machine
        /\ sha \in Sha /\ manifest.verdict \in {"PASS", "FAIL"}
        /\ \A e \in Event : <<prefix, e>> \in Delivery
    BY PayoutAssumption DEF DocumentOf, Event
  <1>2. x \in M(c)!Machine /\ SameBooks(m, x)
    <2>1. M(c)!SubmissionApplies(m, sha) \in BOOLEAN
      BY DEF M!SubmissionApplies, M!IsTerminal
    <2> DEFINE w == M(c)!Submitted(m, sha)
    <2>2. M(c)!SubmissionApplies(m, sha) => w \in M(c)!Machine /\ SameBooks(m, w)
      BY <1>1 DEF M!SubmissionApplies, M!Submitted, M!Machine, M!IsTerminal, M!Terminal,
                  M!Graded, M!TaskState, SameBooks
    <2>3. x = M(c)!Handle(m, <<prefix, "sub">>, M(c)!SubmissionApplies(m, sha), w)
      BY DEF M!OnSubmission
    <2>4. <<prefix, "sub">> \in Delivery
      BY <1>1 DEF Event
    <2> HIDE DEF w, x, m
    <2>5. QED
      BY <1>1, <2>1, <2>2, <2>3, <2>4, HandleKeeps
  <1>3. y \in M(c)!Machine /\ SameBooks(x, y)
    <2> DEFINE w == [x EXCEPT !.state = "VERIFYING"]
    <2> HIDE DEF x
    <2>1. M(c)!VerificationStartApplies(x, sha) \in BOOLEAN
      BY DEF M!VerificationStartApplies, M!IsTerminal, M!IsCurrent
    <2>2. M(c)!VerificationStartApplies(x, sha) => w \in M(c)!Machine /\ SameBooks(x, w)
      BY <1>2 DEF M!VerificationStartApplies, M!Machine, M!TaskState, M!IsTerminal,
                  M!Terminal, SameBooks
    <2>3. y = M(c)!Handle(x, <<prefix, "start">>, M(c)!VerificationStartApplies(x, sha), w)
      BY DEF M!OnVerificationStarted
    <2>4. <<prefix, "start">> \in Delivery
      BY <1>1 DEF Event
    <2> HIDE DEF w, y
    <2>5. QED
      BY <1>2, <2>1, <2>2, <2>3, <2>4, HandleKeeps
  <1>4. z \in M(c)!Machine /\ SameBooks(y, z)
    <2> HIDE DEF y
    <2> DEFINE w == [y EXCEPT !.verified = sha, !.state = manifest.verdict]
    <2>1. M(c)!VerificationApplies(y, manifest) \in BOOLEAN
      BY DEF M!VerificationApplies, M!IsTerminal, M!IsCurrent
    <2>2. M(c)!VerificationApplies(y, manifest) => w \in M(c)!Machine /\ SameBooks(y, w)
      BY <1>1, <1>3 DEF M!VerificationApplies, M!Machine, M!TaskState, M!IsTerminal,
                        M!Terminal, M!Graded, SameBooks
    <2>3. z = M(c)!Handle(y, <<prefix, "done">>, M(c)!VerificationApplies(y, manifest), w)
      BY DEF M!OnVerificationCompleted
    <2>4. <<prefix, "done">> \in Delivery
      BY <1>1 DEF Event
    <2> HIDE DEF w, z
    <2>5. QED
      BY <1>3, <2>1, <2>2, <2>3, <2>4, HandleKeeps
  <1>5. Driven(document, manifest, prefix) = z
    BY <1>1 DEF Driven
  <1>6. QED
    BY <1>2, <1>3, <1>4, <1>5 DEF SameBooks

-----------------------------------------------------------------------------
(* What settle() makes of a document *)

\* With a directive the machine is closed as the mandate decides; without one its
\* books are as before.
LEMMA SettlementCases ==
    ASSUME NEW c \in Contract, NEW document, document \in DocumentOf(c),
           NEW manifest \in Manifest, NEW prefix \in Prefix, NEW now \in Nat
    PROVE  LET d == <<prefix, "settle">>
               graded == Driven(document, manifest, prefix)
               n == M(c)!OnSettlement(graded, manifest, now, d)
               directed == d \notin graded.seen /\ M(c)!SettlementApplies(graded, manifest)
           IN  /\ n \in M(c)!Machine
               /\ directed =>
                      /\ manifest.contract = c
                      /\ n.state = StateOf(M(c)!ExecuteMandate(manifest, now))
                      /\ n.tx = document.machine.tx
                      /\ ~M(c)!IsTerminal(document.machine)
               /\ ~directed => SameBooks(document.machine, n)
  <1> DEFINE d == <<prefix, "settle">>
             m == document.machine
             graded == Driven(document, manifest, prefix)
             applies == M(c)!SettlementApplies(graded, manifest)
             w == M(c)!Settled(graded, manifest, now)
             n == M(c)!OnSettlement(graded, manifest, now, d)
  <1>1. graded \in M(c)!Machine /\ SameBooks(m, graded)
    BY DrivenKeeps
  <1>2. d \in Delivery /\ manifest.sha \in Sha /\ manifest.verdict \in {"PASS", "FAIL"}
    BY PayoutAssumption DEF Event
  <1>3. m \in M(c)!Machine
    BY DEF DocumentOf
  <1> HIDE DEF graded, m, d
  <1>4. applies \in BOOLEAN
    BY DEF M!SettlementApplies, M!MaySettle, M!MandateCovers, M!IsCurrent
  <1>5. applies => /\ w \in M(c)!Machine
                   /\ manifest.contract = c
                   /\ w.state = StateOf(M(c)!ExecuteMandate(manifest, now))
                   /\ w.tx = graded.tx
                   /\ ~M(c)!IsTerminal(graded)
    BY <1>1, <1>2 DEF M!SettlementApplies, M!MaySettle, M!MandateCovers, M!Settled, M!Machine,
         M!SettlementKey, M!Key, M!Verdict, M!TaskState, M!Graded, M!Terminal, M!IsTerminal,
         StateOf
  <1>6. applies => ~M(c)!IsTerminal(m)
    BY <1>1, <1>5 DEF SameBooks, M!IsTerminal, M!Terminal
  <1>7. n = M(c)!Handle(graded, d, applies, w)
    BY DEF M!OnSettlement
  <1>8. \A x \in M(c)!Machine : /\ M(c)!Record(x, d) \in M(c)!Machine
                                /\ M(c)!Record(x, d).state = x.state
                                /\ M(c)!Record(x, d).tx = x.tx
                                /\ SameBooks(x, M(c)!Record(x, d))
    BY DEF M!Record, M!Machine, SameBooks
  <1> HIDE DEF w, n, applies
  <1>9. CASE d \notin graded.seen /\ applies
    <2>1. n = M(c)!Record(w, d)
      BY <1>7, <1>9 DEF M!Handle
    <2>2. QED
      BY <1>1, <1>5, <1>6, <1>8, <1>9, <2>1 DEF SameBooks, n, d, graded, applies, m
  <1>10. CASE ~(d \notin graded.seen /\ applies)
    <2>1. n = graded \/ n = M(c)!Record(graded, d)
      BY <1>4, <1>7, <1>10 DEF M!Handle
    <2>2. n \in M(c)!Machine /\ SameBooks(m, n)
      BY <1>1, <1>8, <2>1 DEF SameBooks
    <2>3. QED
      BY <1>10, <2>2 DEF n, d, graded, applies, m
  <1>11. QED
    BY <1>9, <1>10

\* The key of a settlement in hand names its commit, its contract and its decision.
LEMMA KeyInHand ==
    ASSUME NEW document, NEW manifest \in Manifest,
           document \in DocumentOf(manifest.contract),
           document.machine.state \in {"SETTLED", "REFUNDED"}
    PROVE  /\ PayoutKey(document, manifest) \in RailKey
           /\ PayoutKey(document, manifest).contract = manifest.contract
           /\ PayoutKey(document, manifest).sha = manifest.sha
           /\ PayoutKey(document, manifest).verdict = document.machine.state
  <1>1. manifest.contract \in Contract /\ manifest.sha \in Sha
    BY PayoutAssumption
  <1>2. document.contract = manifest.contract
    BY DEF DocumentOf
  <1>3. PayoutKey(document, manifest)
            = M(manifest.contract)!SettlementKey(manifest.sha, document.machine.state)
    BY <1>2 DEF PayoutKey
  <1>4. QED
    BY <1>1, <1>3 DEF RailKey, M!SettlementKey

\* A document says which contract it is of.
LEMMA ContractOfDocument ==
    ASSUME NEW document, IsDocument(document)
    PROVE  document.contract \in Contract /\ document \in DocumentOf(document.contract)
  BY DEF IsDocument, DocumentOf

-----------------------------------------------------------------------------
(* The inductive invariant *)

Settling == {"pay", "fee", "record", "receipt"}

\* A transfer was decided by a report of its commit, at its time, and its key says how.
Decided(p) ==
    /\ p.to = IF p.key.verdict = "SETTLED" THEN "provider" ELSE "buyer"
    /\ \E mf \in Manifest :
           /\ mf.contract = p.key.contract /\ mf.sha = p.key.sha
           /\ p.key.verdict = StateOf(M(mf.contract)!ExecuteMandate(mf, p.at))

\* No transfer has the key of another.
Ledger == (\A p \in payouts : Decided(p)) /\ (\A p, q \in payouts : p.key = q.key => p = q)

\* An open task has no transaction.
NoEarlyTx(document) ==
    ~M(document.contract)!IsTerminal(document.machine) => document.machine.tx = NoTx

\* What a call has in hand at its stage.
InHand ==
    /\ stage = "idle" => live = NoDocument
    /\ stage \in {"funded", "stored"} =>
           live.contract \in funded /\ live \in DocumentOf(live.contract) /\ NoEarlyTx(live)
                                    /\ ~M(live.contract)!IsTerminal(live.machine)
    /\ stage \in Settling =>
           /\ job \in Job
           /\ live \in DocumentOf(job.manifest.contract)
           /\ live.machine.state = StateOf(job.action)
           /\ job.action = M(live.contract)!ExecuteMandate(job.manifest, job.at)
           /\ stage # "receipt" => live.machine.tx = NoTx

\* The document a settlement waits for is open as long as its money has not moved.
StillOpen ==
    stage = "pay" /\ store = "firestore" =>
        /\ saved # NoDocument /\ saved.contract = live.contract
        /\ ~M(saved.contract)!IsTerminal(saved.machine)

\* After its stage the money has moved, and the fee when the receipt will say so.
Moved ==
    /\ stage \in {"fee", "record", "receipt"} =>
           \E p \in payouts : p.key = CurrentKey /\ p.to = Recipient(job.action)
    /\ stage \in Settling /\ job.feePaid => CurrentKey \in fees

IInv ==
    /\ TypeOK
    /\ Ledger
    /\ InHand /\ StillOpen /\ Moved
    /\ saved # NoDocument => NoEarlyTx(saved)
    /\ lastFundingTx \in funded \cup {NoTx}
    /\ StoredSettlementIsPaid
    /\ ReceiptIsTrue

-----------------------------------------------------------------------------
(* Facts about a state *)

\* What is in hand while settle() runs, and its key.
LEMMA WhileSettling ==
    ASSUME IInv, stage \in Settling
    PROVE  /\ job \in Job /\ job.manifest \in Manifest
           /\ live \in DocumentOf(job.manifest.contract)
           /\ live.contract = job.manifest.contract /\ live.contract \in Contract
           /\ live.machine.state = StateOf(job.action)
           /\ live.machine.state \in {"SETTLED", "REFUNDED"}
           /\ CurrentKey \in RailKey
           /\ CurrentKey.contract = live.contract
           /\ CurrentKey.sha = job.manifest.sha
           /\ CurrentKey.verdict = StateOf(job.action)
  <1>1. /\ job \in Job /\ job.manifest \in Manifest
        /\ live \in DocumentOf(job.manifest.contract)
        /\ live.machine.state = StateOf(job.action)
    BY DEF IInv, InHand, Job
  <1>2. live.contract = job.manifest.contract /\ live.contract \in Contract
    BY <1>1, PayoutAssumption DEF DocumentOf
  <1>3. live.machine.state \in {"SETTLED", "REFUNDED"}
    BY <1>1 DEF StateOf
  <1>4. QED
    BY <1>1, <1>2, <1>3, KeyInHand DEF CurrentKey

\* A transfer that is made is decided, and its key is no other's.
LEMMA TransferredIsDecided ==
    ASSUME IInv, stage = "pay"
    PROVE  /\ Transferred \subseteq [key : RailKey, to : Party, at : Nat]
           /\ payouts \subseteq Transferred
           /\ \A p \in Transferred : Decided(p)
           /\ \A p, q \in Transferred : p.key = q.key => p = q
           /\ \E p \in Transferred : p.key = CurrentKey /\ p.to = Recipient(job.action)
  <1> DEFINE new == [key |-> CurrentKey, to |-> Recipient(job.action), at |-> job.at]
  <1>1. /\ job \in Job /\ job.manifest \in Manifest
        /\ live.contract = job.manifest.contract
        /\ CurrentKey \in RailKey
        /\ CurrentKey.contract = live.contract
        /\ CurrentKey.sha = job.manifest.sha
        /\ CurrentKey.verdict = StateOf(job.action)
    BY WhileSettling DEF Settling
  <1>2. job.action = M(job.manifest.contract)!ExecuteMandate(job.manifest, job.at)
    BY <1>1 DEF IInv, InHand, Settling
  <1>3. job.action \in {"release", "refund"} /\ job.at \in Nat
    BY <1>1 DEF Job, Action
  <1>4. /\ payouts \subseteq [key : RailKey, to : Party, at : Nat]
        /\ \A p \in payouts : Decided(p)
        /\ \A p, q \in payouts : p.key = q.key => p = q
    BY DEF IInv, TypeOK, Ledger
  <1>5. new \in [key : RailKey, to : Party, at : Nat]
    BY <1>1, <1>3 DEF Recipient, Party
  <1>6. Decided(new)
    BY <1>1, <1>2, <1>3 DEF Decided, StateOf, Recipient
  <1>7. CASE IsRepeated(CurrentKey)
    <2>1. Transferred = payouts
      BY <1>7 DEF Transferred
    <2>2. PICK p \in payouts : p.key = CurrentKey
      BY <1>7 DEF IsRepeated
    <2>3. p.to = Recipient(job.action)
      BY <1>1, <1>3, <1>4, <2>2 DEF Decided, StateOf, Recipient
    <2>4. QED
      BY <1>4, <2>1, <2>2, <2>3
  <1>8. CASE ~IsRepeated(CurrentKey)
    <2>1. Transferred = payouts \cup {new}
      BY <1>8 DEF Transferred
    <2>2. \A p \in payouts : p.key # new.key
      BY <1>8 DEF IsRepeated
    <2> HIDE DEF new
    <2>3. /\ Transferred \subseteq [key : RailKey, to : Party, at : Nat]
          /\ payouts \subseteq Transferred
          /\ \A p \in Transferred : Decided(p)
      BY <1>4, <1>5, <1>6, <2>1
    <2>4. \A p, q \in Transferred : p.key = q.key => p = q
      BY <1>4, <2>1, <2>2
    <2>5. new \in Transferred /\ new.key = CurrentKey /\ new.to = Recipient(job.action)
      BY <2>1 DEF new
    <2>6. QED
      BY <2>3, <2>4, <2>5
  <1>9. QED
    BY <1>7, <1>8

-----------------------------------------------------------------------------
(* What every step keeps *)

\* The properties survive a step that adds transfers, leaves the document and the
\* receipts alone and does not come to issue a receipt.
LEMMA Kept ==
    ASSUME IInv, TypeOK',
           payouts \subseteq payouts', fees \subseteq fees', funded \subseteq funded',
           UNCHANGED <<store, saved, receipts>>, stage' # "receipt"
    PROVE  /\ (saved # NoDocument => NoEarlyTx(saved))'
           /\ StoredSettlementIsPaid'
           /\ ReceiptIsTrue'
  <1> USE DEF IInv
  <1>1. (saved # NoDocument => NoEarlyTx(saved))'
    BY DEF NoEarlyTx
  <1>2. StoredSettlementIsPaid'
    BY DEF StoredSettlementIsPaid, PayoutsOf
  <1>3. ReceiptIsTrue'
    BY DEF ReceiptIsTrue, PayoutsOf
  <1>4. QED
    BY <1>1, <1>2, <1>3

-----------------------------------------------------------------------------
(* One lemma per step *)

LEMMA NewDocument ==
    ASSUME NEW c \in Contract
    PROVE  LET document == [contract |-> c, machine |-> M(c)!NewMachine]
           IN  /\ document \in DocumentOf(c) /\ IsDocument(document)
               /\ NoEarlyTx(document) /\ ~M(c)!IsTerminal(document.machine)
  <1>1. /\ M(c)!NewMachine \in M(c)!Machine
        /\ M(c)!NewMachine.tx = NoTx
        /\ ~M(c)!IsTerminal(M(c)!NewMachine)
    BY DEF M!NewMachine, M!Machine, M!TaskState, M!IsTerminal, M!Terminal
  <1>2. QED
    BY <1>1 DEF DocumentOf, IsDocument, NoEarlyTx

LEMMA FundTransferKeeps ==
    ASSUME IInv, NEW c \in Contract, FundTransfer(c)
    PROVE  IInv'
  <1> USE DEF FundTransfer
  <1>1. live'.contract = c /\ live' \in DocumentOf(c) /\ IsDocument(live')
        /\ NoEarlyTx(live') /\ ~M(c)!IsTerminal(live'.machine)
    BY NewDocument
  <1>2. TypeOK'
    BY <1>1 DEF IInv, TypeOK
  <1>3. Ledger' /\ StillOpen' /\ Moved'
    BY DEF IInv, Ledger, Decided, StillOpen, Moved, Settling
  <1>4. InHand'
    BY <1>1 DEF IInv, InHand, Settling, NoEarlyTx
  <1>5. lastFundingTx' \in funded' \cup {NoTx}
    BY DEF IInv
  <1>6. QED
    BY <1>2, <1>3, <1>4, <1>5, Kept DEF IInv

LEMMA FundFailsKeeps ==
    ASSUME IInv, NEW c \in Contract, FundFails(c)
    PROVE  IInv'
  <1> USE DEF FundFails
  <1>1. TypeOK'
    BY DEF IInv, TypeOK
  <1>2. Ledger' /\ StillOpen' /\ Moved' /\ InHand'
    BY DEF IInv, Ledger, Decided, StillOpen, Moved, InHand, Settling
  <1>3. lastFundingTx' \in funded' \cup {NoTx}
    BY DEF IInv
  <1>4. QED
    BY <1>1, <1>2, <1>3, Kept DEF IInv

LEMMA FundPutKeeps ==
    ASSUME IInv, FundPut
    PROVE  IInv'
  <1> USE DEF FundPut, money
  <1>1. /\ live.contract \in funded /\ live \in DocumentOf(live.contract)
        /\ NoEarlyTx(live) /\ ~M(live.contract)!IsTerminal(live.machine)
    BY DEF IInv, InHand
  <1>2. live.contract \in Contract /\ IsDocument(live)
    BY <1>1 DEF IInv, TypeOK, IsDocument
  <1>3. TypeOK'
    BY <1>2 DEF IInv, TypeOK
  <1>4. Ledger' /\ StillOpen' /\ Moved'
    BY DEF IInv, Ledger, Decided, StillOpen, Moved, Settling
  <1>5. InHand' /\ (saved # NoDocument => NoEarlyTx(saved))'
    BY <1>1 DEF InHand, Settling, NoEarlyTx
  <1>6. StoredSettlementIsPaid'
    BY <1>1 DEF StoredSettlementIsPaid
  <1>7. ReceiptIsTrue' /\ (lastFundingTx \in funded \cup {NoTx})'
    BY DEF IInv, ReceiptIsTrue, PayoutsOf
  <1>8. QED
    BY <1>3, <1>4, <1>5, <1>6, <1>7 DEF IInv

\* A call that is left with the documents, the receipts and the ledger as they are.
LEMMA DropKeeps ==
    ASSUME IInv, Drop, TypeOK', Ledger',
           payouts \subseteq payouts', fees \subseteq fees', funded \subseteq funded',
           UNCHANGED <<store, saved, receipts>>,
           lastFundingTx' \in funded' \cup {NoTx}
    PROVE  IInv'
  <1>1. InHand' /\ StillOpen' /\ Moved'
    BY DEF Drop, InHand, StillOpen, Moved, Settling
  <1>2. QED
    BY <1>1, Kept DEF IInv, Drop

LEMMA FundRecordKeeps ==
    ASSUME IInv, FundRecord
    PROVE  IInv'
  <1> USE DEF FundRecord, Drop
  <1>1. live.contract \in funded
    BY DEF IInv, InHand
  <1>2. TypeOK'
    BY <1>1 DEF IInv, TypeOK, money
  <1>3. Ledger'
    BY DEF IInv, Ledger, Decided, money
  <1>4. QED
    BY <1>1, <1>2, <1>3, DropKeeps DEF money

LEMMA RaisesKeeps ==
    ASSUME IInv, Raises
    PROVE  IInv'
  <1> USE DEF Raises, Drop
  <1>1. TypeOK'
    BY DEF IInv, TypeOK, money
  <1>2. Ledger'
    BY DEF IInv, Ledger, Decided, money
  <1>3. QED
    BY <1>1, <1>2, DropKeeps DEF money, IInv

LEMMA RestartKeeps ==
    ASSUME IInv, Restart
    PROVE  IInv'
  <1> USE DEF Restart, Drop
  <1>1. TypeOK'
    BY DEF IInv, TypeOK, money
  <1>2. Ledger' /\ InHand' /\ StillOpen' /\ Moved'
    BY DEF IInv, Ledger, Decided, InHand, StillOpen, Moved, Settling, money
  <1>3. (saved # NoDocument => NoEarlyTx(saved))'
    BY DEF IInv, NoEarlyTx
  <1>4. StoredSettlementIsPaid'
    BY DEF IInv, StoredSettlementIsPaid, PayoutsOf, money
  <1>5. ReceiptIsTrue'
    BY DEF IInv, ReceiptIsTrue, PayoutsOf, money
  <1>6. QED
    BY <1>1, <1>2, <1>3, <1>4, <1>5 DEF IInv

LEMMA PayFailsKeeps ==
    ASSUME IInv, PayFails
    PROVE  IInv'
  <1> USE DEF PayFails, Drop
  <1>1. stage = "pay" /\ payouts' \in {payouts, Transferred}
    OBVIOUS
  <1>2. /\ payouts' \subseteq [key : RailKey, to : Party, at : Nat]
        /\ payouts \subseteq payouts'
        /\ \A p \in payouts' : Decided(p)
        /\ \A p, q \in payouts' : p.key = q.key => p = q
    BY <1>1, TransferredIsDecided DEF IInv, TypeOK, Ledger
  <1>3. TypeOK'
    BY <1>2 DEF IInv, TypeOK
  <1>4. Ledger'
    BY <1>2 DEF Ledger, Decided
  <1>5. QED
    BY <1>2, <1>3, <1>4, DropKeeps DEF IInv

LEMMA SettleKeeps ==
    ASSUME IInv, NEW manifest \in Manifest, NEW mandate \in funded, NEW prefix \in Prefix,
           Settle(manifest, mandate, prefix)
    PROVE  IInv'
  <1> DEFINE c == saved.contract
             d == <<prefix, "settle">>
             graded == Driven(saved, manifest, prefix)
             after == [contract |-> c,
                       machine |-> M(c)!OnSettlement(graded, manifest, clock, d)]
             directed == d \notin graded.seen /\ M(c)!SettlementApplies(graded, manifest)
             action == M(c)!ExecuteMandate(manifest, clock)
  <1>1. /\ stage = "idle" /\ saved # NoDocument
        /\ saved' = (IF store = "memory" THEN after ELSE saved)
        /\ UNCHANGED <<store, clock, lastFundingTx, money, receipts>>
        /\ directed => /\ live' = after /\ stage' = "pay"
                       /\ job' = [manifest |-> manifest, mandate |-> mandate, at |-> clock,
                                  action |-> action, feePaid |-> FALSE]
        /\ ~directed => UNCHANGED <<live, stage, job>>
    BY DEF Settle, Keep
  <1>2. c \in Contract /\ saved \in DocumentOf(c) /\ clock \in Nat /\ mandate \in Contract
    BY <1>1, ContractOfDocument, PayoutAssumption DEF IInv, TypeOK
  <1>3. /\ after.machine \in M(c)!Machine
        /\ directed => /\ manifest.contract = c
                       /\ after.machine.state = StateOf(action)
                       /\ after.machine.tx = saved.machine.tx
                       /\ ~M(c)!IsTerminal(saved.machine)
        /\ ~directed => SameBooks(saved.machine, after.machine)
    BY <1>2, SettlementCases
  <1>4. after \in DocumentOf(c) /\ after.contract = c /\ IsDocument(after) /\ after # NoDocument
    BY <1>2, <1>3, PayoutAssumption DEF DocumentOf, IsDocument
  <1>5. action \in {"release", "refund"}
    BY DEF M!ExecuteMandate
  <1>6. NoEarlyTx(saved)
    BY <1>1 DEF IInv
  <1> HIDE DEF after, c, graded, d, directed, action
  <1>7. TypeOK'
    <2>1. stage' \in {"idle", "pay"} /\ job' \in Job \cup {NoJob}
      <3>1. CASE directed
        <4>1. job' = [manifest |-> manifest, mandate |-> mandate, at |-> clock,
                      action |-> action, feePaid |-> FALSE]
          BY <1>1, <3>1
        <4>2. job' \in Job
          BY <1>2, <1>5, <4>1 DEF Job, Action
        <4>3. QED
          BY <1>1, <3>1, <4>2
      <3>2. CASE ~directed
        BY <1>1, <3>2 DEF IInv, TypeOK
      <3>3. QED
        BY <3>1, <3>2
    <2>2. \A document \in {saved', live'} : document = NoDocument \/ IsDocument(document)
      BY <1>1, <1>4 DEF IInv, TypeOK
    <2>3. QED
      BY <1>1, <2>1, <2>2 DEF IInv, TypeOK, money
  <1>8. Ledger'
    BY <1>1 DEF IInv, Ledger, Decided, money
  <1>9. NoEarlyTx(after)
    <2>1. CASE directed
      BY <1>3, <1>4, <1>5, <2>1 DEF NoEarlyTx, M!IsTerminal, M!Terminal, StateOf
    <2>2. CASE ~directed
      <3>1. SameBooks(saved.machine, after.machine) /\ after.contract = c
        BY <1>3, <1>4, <2>2
      <3>2. QED
        BY <1>6, <3>1 DEF NoEarlyTx, SameBooks, M!IsTerminal, M!Terminal, c
    <2>3. QED
      BY <2>1, <2>2
  <1>10. (saved # NoDocument => NoEarlyTx(saved))'
    BY <1>1, <1>6, <1>9 DEF NoEarlyTx
  <1>11. InHand' /\ StillOpen' /\ Moved'
    <2>1. CASE directed
      <3>1. /\ stage' = "pay" /\ live' = after
            /\ job' = [manifest |-> manifest, mandate |-> mandate, at |-> clock,
                       action |-> action, feePaid |-> FALSE]
        BY <1>1, <2>1
      <3>2. job' \in Job
        BY <1>2, <1>5, <3>1 DEF Job, Action
      <3>3. live'.machine.tx = NoTx
        BY <1>3, <1>6, <2>1, <3>1 DEF NoEarlyTx, c
      <3>4. job'.action = M(live'.contract)!ExecuteMandate(job'.manifest, job'.at)
        BY <1>4, <3>1 DEF action
      <3>5. live' \in DocumentOf(job'.manifest.contract)
            /\ live'.machine.state = StateOf(job'.action)
        BY <1>3, <1>4, <2>1, <3>1
      <3>6. InHand'
        BY <3>1, <3>2, <3>3, <3>4, <3>5 DEF InHand, Settling
      <3>7. StillOpen'
        BY <1>1, <1>3, <1>4, <2>1, <3>1 DEF StillOpen, c
      <3>8. Moved'
        BY <3>1 DEF Moved, Settling
      <3>9. QED
        BY <3>6, <3>7, <3>8
    <2>2. CASE ~directed
      BY <1>1, <2>2 DEF IInv, InHand, StillOpen, Moved, Settling
    <2>3. QED
      BY <2>1, <2>2
  <1>12. StoredSettlementIsPaid'
    BY <1>1 DEF IInv, StoredSettlementIsPaid, PayoutsOf, money
  <1>13. ReceiptIsTrue'
    BY <1>1 DEF IInv, ReceiptIsTrue, PayoutsOf, money
  <1>14. QED
    BY <1>1, <1>7, <1>8, <1>10, <1>11, <1>12, <1>13 DEF IInv, money

LEMMA PayKeeps ==
    ASSUME IInv, Pay
    PROVE  IInv'
  <1> USE DEF Pay
  <1>1. /\ payouts' \subseteq [key : RailKey, to : Party, at : Nat]
        /\ payouts \subseteq payouts'
        /\ \A p \in payouts' : Decided(p)
        /\ \A p, q \in payouts' : p.key = q.key => p = q
        /\ \E p \in payouts' : p.key = CurrentKey /\ p.to = Recipient(job.action)
    BY TransferredIsDecided
  <1>2. TypeOK'
    BY <1>1 DEF IInv, TypeOK
  <1>3. Ledger'
    BY <1>1 DEF Ledger, Decided
  <1>4. CurrentKey' = CurrentKey
    BY DEF CurrentKey
  <1>5. InHand' /\ StillOpen'
    BY DEF IInv, InHand, StillOpen, Settling
  <1>6. Moved'
    BY <1>1, <1>4 DEF IInv, Moved, Settling
  <1>7. QED
    BY <1>1, <1>2, <1>3, <1>5, <1>6, Kept DEF IInv

LEMMA FeeKeeps ==
    ASSUME IInv, Fee
    PROVE  IInv'
  <1>1. /\ stage = "fee" /\ stage' = "record"
        /\ fees' \in {fees, fees \cup {CurrentKey}}
        /\ UNCHANGED <<store, saved, live, clock, lastFundingTx, funded, payouts, receipts>>
    BY DEF Fee
  <1>2. PICK feePaid \in BOOLEAN : /\ feePaid => CurrentKey \in fees'
                                   /\ job' = [job EXCEPT !.feePaid = feePaid]
    BY DEF Fee
  <1>3. job \in Job /\ CurrentKey \in RailKey
    BY <1>1, WhileSettling DEF Settling
  <1>4. /\ job' \in Job /\ job'.manifest = job.manifest /\ job'.action = job.action
        /\ job'.at = job.at /\ job'.feePaid = feePaid
    BY <1>2, <1>3 DEF Job
  <1>5. CurrentKey' = CurrentKey
    BY <1>1, <1>4 DEF CurrentKey
  <1>6. TypeOK'
    BY <1>1, <1>3, <1>4 DEF IInv, TypeOK
  <1>7. Ledger' /\ StillOpen'
    BY <1>1 DEF IInv, Ledger, Decided, StillOpen
  <1>8. InHand'
    BY <1>1, <1>4 DEF IInv, InHand, Settling
  <1>9. Moved'
    BY <1>1, <1>2, <1>4, <1>5 DEF IInv, Moved, Settling
  <1>10. QED
    BY <1>1, <1>6, <1>7, <1>8, <1>9, Kept DEF IInv

LEMMA RecordAndPutKeeps ==
    ASSUME IInv, RecordAndPut
    PROVE  IInv'
  <1> DEFINE document ==
                 [live EXCEPT !.machine = M(live.contract)!RecordSettlementTx(@, CurrentKey)]
             c == live.contract
  <1>1. /\ stage = "record" /\ stage' = "receipt"
        /\ live' = document /\ saved' = document
        /\ UNCHANGED <<store, job, clock, lastFundingTx, money, receipts>>
    BY DEF RecordAndPut
  <1>2. /\ job \in Job /\ job.manifest \in Manifest
        /\ live \in DocumentOf(c) /\ c \in Contract /\ c = job.manifest.contract
        /\ live.machine.state = StateOf(job.action)
        /\ live.machine.state \in {"SETTLED", "REFUNDED"}
        /\ CurrentKey \in RailKey /\ CurrentKey.contract = c
    BY <1>1, WhileSettling DEF Settling
  <1>3. job.action = M(c)!ExecuteMandate(job.manifest, job.at) /\ live.machine.tx = NoTx
    BY <1>1 DEF IInv, InHand, Settling
  <1>4. /\ document \in DocumentOf(c) /\ document.contract = c
        /\ document.machine.state = live.machine.state
        /\ document.machine.tx = CurrentKey
    BY <1>2, <1>3, PayoutAssumption DEF DocumentOf, M!RecordSettlementTx, M!RecordTxApplies,
       M!IsTerminal, M!Terminal, M!Machine
  <1>5. IsDocument(document) /\ document # NoDocument
    BY <1>2, <1>4, PayoutAssumption DEF IsDocument
  <1>6. M(c)!IsTerminal(document.machine)
    BY <1>2, <1>4 DEF M!IsTerminal, M!Terminal
  <1>7. PICK p \in payouts : p.key = CurrentKey /\ p.to = Recipient(job.action)
    BY <1>1 DEF IInv, Moved
  <1> HIDE DEF document, c
  <1>8. TypeOK'
    BY <1>1, <1>5 DEF IInv, TypeOK, money
  <1>9. Ledger' /\ StillOpen'
    BY <1>1 DEF IInv, Ledger, Decided, StillOpen, money
  <1>10. CurrentKey' = CurrentKey
    BY <1>1, <1>4 DEF CurrentKey, PayoutKey, c
  <1>11. InHand'
    BY <1>1, <1>2, <1>3, <1>4 DEF InHand, Settling
  <1>12. Moved'
    BY <1>1, <1>7, <1>10 DEF IInv, Moved, Settling, money
  <1>13. (saved # NoDocument => NoEarlyTx(saved))'
    BY <1>1, <1>4, <1>6 DEF NoEarlyTx
  <1>14. StoredSettlementIsPaid'
    BY <1>1, <1>2, <1>4, <1>7 DEF StoredSettlementIsPaid, PayoutsOf, StateOf, Recipient, money
  <1>15. ReceiptIsTrue'
    <2>1. job.action \in {"release", "refund"}
          /\ (job.action = "release" => job.manifest.verdict = "PASS")
      BY <1>3, PayoutAssumption DEF M!ExecuteMandate
    <2>2. (job.mandate = job.manifest.contract => VerifyReceipt(ReceiptInHand))'
      BY <1>1, <2>1 DEF VerifyReceipt, ReceiptInHand, BuildReceipt, Action
    <2>3. QED
      BY <1>1, <2>2 DEF IInv, ReceiptIsTrue, PayoutsOf, money
  <1>16. QED
    BY <1>1, <1>8, <1>9, <1>11, <1>12, <1>13, <1>14, <1>15 DEF IInv, money

LEMMA IssueReceiptKeeps ==
    ASSUME IInv, IssueReceipt
    PROVE  IInv'
  <1> DEFINE r == ReceiptInHand
             sha == job.manifest.sha
  <1>1. /\ stage = "receipt" /\ VerifyReceipt(r)
        /\ receipts' = [receipts EXCEPT ![sha] = r]
        /\ stage' = "idle" /\ live' = NoDocument /\ job' = NoJob
        /\ UNCHANGED <<store, saved, clock, lastFundingTx, money>>
    BY DEF IssueReceipt, Drop
  <1>2. /\ job.manifest \in Manifest
        /\ CurrentKey.contract = job.manifest.contract
    BY <1>1, WhileSettling DEF Settling
  <1>3. PICK p \in payouts : p.key = CurrentKey /\ p.to = Recipient(job.action)
    BY <1>1 DEF IInv, Moved
  <1>4. /\ r.graded.sha = sha /\ r.tx = CurrentKey
        /\ r.mandate = job.manifest.contract /\ r.recipient = Recipient(job.action)
        /\ r.fundingTx = lastFundingTx /\ r.feePaid = job.feePaid
    BY <1>1 DEF VerifyReceipt, ReceiptInHand, BuildReceipt
  <1>5. job.feePaid => CurrentKey \in fees
    BY <1>1 DEF IInv, Moved, Settling
  <1> HIDE DEF r, sha
  <1>6. TypeOK'
    BY <1>1 DEF IInv, TypeOK, money
  <1>7. Ledger' /\ InHand' /\ StillOpen' /\ Moved'
    BY <1>1 DEF IInv, Ledger, Decided, InHand, StillOpen, Moved, Settling, money
  <1>8. (saved # NoDocument => NoEarlyTx(saved))' /\ StoredSettlementIsPaid'
    BY <1>1 DEF IInv, NoEarlyTx, StoredSettlementIsPaid, PayoutsOf, money
  <1>9. ReceiptIsTrue'
    <2>1. p \in PayoutsOf(r.mandate) /\ p.key = r.tx /\ p.to = r.recipient
      BY <1>2, <1>3, <1>4 DEF PayoutsOf
    <2>2. r.fundingTx \in funded \cup {NoTx} /\ (r.feePaid => r.tx \in fees)
      BY <1>4, <1>5 DEF IInv
    <2>3. DOMAIN receipts = Sha
      BY DEF IInv, TypeOK
    <2>4. ASSUME NEW s \in Sha, receipts'[s] # NoReceipt
          PROVE  /\ VerifyReceipt(receipts'[s]) /\ receipts'[s].graded.sha = s
                 /\ \E q \in PayoutsOf(receipts'[s].mandate) :
                        q.key = receipts'[s].tx /\ q.to = receipts'[s].recipient
                 /\ receipts'[s].feePaid => receipts'[s].tx \in fees
                 /\ receipts'[s].fundingTx \in funded \cup {NoTx}
      <3>1. CASE s = sha
        BY <1>1, <1>4, <2>1, <2>2, <2>3, <3>1
      <3>2. CASE s # sha
        BY <1>1, <2>3, <2>4, <3>2 DEF IInv, ReceiptIsTrue
      <3>3. QED
        BY <3>1, <3>2
    <2>5. QED
      BY <1>1, <2>4 DEF ReceiptIsTrue, PayoutsOf, money
  <1>10. QED
    BY <1>1, <1>6, <1>7, <1>8, <1>9 DEF IInv, money

LEMMA TickKeeps ==
    ASSUME IInv, Tick
    PROVE  IInv'
  <1> USE DEF Tick, money
  <1>1. TypeOK'
    BY PayoutAssumption DEF IInv, TypeOK
  <1>2. Ledger' /\ InHand' /\ StillOpen' /\ Moved'
    BY DEF IInv, Ledger, Decided, InHand, StillOpen, Moved, CurrentKey
  <1>3. (saved # NoDocument => NoEarlyTx(saved))' /\ StoredSettlementIsPaid'
    BY DEF IInv, NoEarlyTx, StoredSettlementIsPaid, PayoutsOf
  <1>4. ReceiptIsTrue'
    BY DEF IInv, ReceiptIsTrue, PayoutsOf, ReceiptInHand, CurrentKey
  <1>5. QED
    BY <1>1, <1>2, <1>3, <1>4 DEF IInv

-----------------------------------------------------------------------------
(* Theorems *)

LEMMA InitHolds ==
    ASSUME Init
    PROVE  IInv
  <1> USE DEF Init
  <1>1. TypeOK
    BY PayoutAssumption DEF TypeOK
  <1>2. Ledger /\ InHand /\ StillOpen /\ Moved
    BY DEF Ledger, InHand, StillOpen, Moved, Settling
  <1>3. StoredSettlementIsPaid /\ ReceiptIsTrue
    BY DEF StoredSettlementIsPaid, ReceiptIsTrue
  <1>4. QED
    BY <1>1, <1>2, <1>3 DEF IInv

LEMMA StepKeeps ==
    ASSUME IInv, [Next]_vars
    PROVE  IInv'
  <1>1. CASE UNCHANGED vars
    <2> USE <1>1 DEF vars, money, IInv
    <2>1. TypeOK' /\ Ledger' /\ InHand' /\ StillOpen' /\ Moved'
      BY DEF TypeOK, Ledger, Decided, InHand, StillOpen, Moved, CurrentKey
    <2>2. (saved # NoDocument => NoEarlyTx(saved))' /\ StoredSettlementIsPaid'
      BY DEF NoEarlyTx, StoredSettlementIsPaid, PayoutsOf
    <2>3. ReceiptIsTrue'
      BY DEF ReceiptIsTrue, PayoutsOf, ReceiptInHand, CurrentKey
    <2>4. QED
      BY <2>1, <2>2, <2>3
  <1>2. CASE \E c \in Contract : FundTransfer(c) \/ FundFails(c)
    BY <1>2, FundTransferKeeps, FundFailsKeeps
  <1>3. CASE \E manifest \in Manifest, mandate \in funded, prefix \in Prefix :
                 Settle(manifest, mandate, prefix)
    BY <1>3, SettleKeeps
  <1>4. CASE \/ FundPut \/ FundRecord \/ Pay \/ PayFails \/ Fee
             \/ RecordAndPut \/ IssueReceipt \/ Raises \/ Restart \/ Tick
    BY <1>4, FundPutKeeps, FundRecordKeeps, PayKeeps, PayFailsKeeps, FeeKeeps,
       RecordAndPutKeeps, IssueReceiptKeeps, RaisesKeeps, RestartKeeps, TickKeeps
  <1>5. QED
    BY <1>1, <1>2, <1>3, <1>4 DEF Next

\* IInv holds of every behaviour of fund() and settle().
THEOREM Invariance == Spec => []IInv
  <1>1. Init => IInv
    BY InitHolds
  <1>2. IInv /\ [Next]_vars => IInv'
    BY StepKeeps
  <1>3. QED
    BY <1>1, <1>2, PTL DEF Spec

\* The documents, the call in hand, the ledger and the receipts keep their types.
THEOREM TypeCorrect == Spec => []TypeOK
  <1>1. IInv => TypeOK
    BY DEF IInv
  <1>2. QED
    BY <1>1, Invariance, PTL

\* A decided transfer to the provider has a PASS in time behind it.
LEMMA DecidedRelease ==
    ASSUME IInv
    PROVE  ProviderPaidOnPass
  <1>1. SUFFICES ASSUME NEW p \in payouts, p.to = "provider"
                 PROVE  /\ p.at <= DeadlineOf[p.key.contract]
                        /\ \E mf \in Manifest :
                               /\ mf.contract = p.key.contract /\ mf.sha = p.key.sha
                               /\ mf.verdict = "PASS"
    BY DEF ProviderPaidOnPass
  <1>2. PICK mf \in Manifest :
            /\ mf.contract = p.key.contract /\ mf.sha = p.key.sha
            /\ p.key.verdict = StateOf(M(mf.contract)!ExecuteMandate(mf, p.at))
    BY DEF IInv, Ledger, Decided
  <1>3. p.key.verdict = "SETTLED"
    BY <1>1 DEF IInv, Ledger, Decided
  <1>4. p.at <= DeadlineOf[mf.contract] /\ mf.verdict = "PASS"
    BY <1>2, <1>3 DEF M!ExecuteMandate, StateOf
  <1>5. QED
    BY <1>2, <1>4

\* Two transfers of one commit on the same side of the deadline have one key.
LEMMA OneSideOneKey ==
    ASSUME IInv
    PROVE  SecondPayoutStraddlesDeadline
  <1>1. SUFFICES ASSUME NEW c \in Contract, NEW p \in PayoutsOf(c), NEW q \in PayoutsOf(c),
                        p.key.sha = q.key.sha,
                        p.at <= DeadlineOf[c] <=> q.at <= DeadlineOf[c]
                 PROVE  p = q
    BY DEF SecondPayoutStraddlesDeadline
  <1>2. /\ p \in payouts /\ q \in payouts
        /\ p.key \in RailKey /\ q.key \in RailKey
        /\ p.key.contract = c /\ q.key.contract = c
    BY DEF PayoutsOf, IInv, TypeOK
  <1>3. PICK x \in Manifest :
            /\ x.contract = c /\ x.sha = p.key.sha
            /\ p.key.verdict = StateOf(M(x.contract)!ExecuteMandate(x, p.at))
    BY <1>2 DEF IInv, Ledger, Decided
  <1>4. PICK y \in Manifest :
            /\ y.contract = c /\ y.sha = q.key.sha
            /\ q.key.verdict = StateOf(M(y.contract)!ExecuteMandate(y, q.at))
    BY <1>2 DEF IInv, Ledger, Decided
  <1>5. x.verdict = y.verdict
    BY <1>1, <1>3, <1>4, ReproducibleAssumption
  <1>6. p.key.verdict = q.key.verdict
    BY <1>1, <1>3, <1>4, <1>5 DEF M!ExecuteMandate
  <1>7. p.key = q.key
    BY <1>1, <1>2, <1>6 DEF RailKey, M!SettlementKey
  <1>8. QED
    BY <1>2, <1>7 DEF IInv, Ledger

\* The provider is paid on a PASS decided in time, and on nothing else.
THEOREM OnlyPassPaysProvider == Spec => []ProviderPaidOnPass
  <1>1. IInv => ProviderPaidOnPass
    BY DecidedRelease
  <1>2. QED
    BY <1>1, Invariance, PTL

\* Two payouts of a commit lie on the two sides of the deadline.
THEOREM AtMostOnePerSide == Spec => []SecondPayoutStraddlesDeadline
  <1>1. IInv => SecondPayoutStraddlesDeadline
    BY OneSideOneKey
  <1>2. QED
    BY <1>1, Invariance, PTL

\* What Firestore holds as closed was paid.
THEOREM ClosedIsPaid == Spec => []StoredSettlementIsPaid
  <1>1. IInv => StoredSettlementIsPaid
    BY DEF IInv
  <1>2. QED
    BY <1>1, Invariance, PTL

\* A stored receipt verifies and tells the truth about the rail.
THEOREM ReceiptsAreTrue == Spec => []ReceiptIsTrue
  <1>1. IInv => ReceiptIsTrue
    BY DEF IInv
  <1>2. QED
    BY <1>1, Invariance, PTL

-----------------------------------------------------------------------------
(* No escrow is forgotten *)

\* Money that moved and a document that stays keep an escrow, except from a call that
\* is about to pay.
LEMMA HeldByBooks ==
    ASSUME NEW c \in Contract, payouts \subseteq payouts', UNCHANGED saved,
           IsHeld(c), stage # "pay"
    PROVE  IsHeld(c)'
  BY DEF IsHeld, PayoutsOf

\* A call that ends leaves the escrow to its document.
LEMMA HeldByDocument ==
    ASSUME IInv, NEW c \in Contract, payouts \subseteq payouts', UNCHANGED store,
           store = "firestore" => saved' = saved, stage' = "idle",
           IsHeld(c)
    PROVE  IsHeld(c)' \/ GivenUp(c)
  <1>1. CASE store = "memory"
    BY <1>1 DEF GivenUp
  <1>2. CASE store # "memory"
    <2>1. store = "firestore"
      BY <1>2, PayoutAssumption DEF IInv, TypeOK
    <2>2. QED
      BY <2>1 DEF IInv, StillOpen, IsHeld, PayoutsOf
  <1>3. QED
    BY <1>1, <1>2

\* settle() keeps an open document open, or closes it with the payment in hand.
LEMMA HeldBySettle ==
    ASSUME IInv, NEW c \in Contract, NEW manifest \in Manifest, NEW mandate \in funded,
           NEW prefix \in Prefix, Settle(manifest, mandate, prefix), IsHeld(c)
    PROVE  IsHeld(c)'
  <1> DEFINE k == saved.contract
             d == <<prefix, "settle">>
             graded == Driven(saved, manifest, prefix)
             after == [contract |-> k,
                       machine |-> M(k)!OnSettlement(graded, manifest, clock, d)]
             directed == d \notin graded.seen /\ M(k)!SettlementApplies(graded, manifest)
  <1>1. /\ stage = "idle" /\ saved # NoDocument
        /\ saved' = (IF store = "memory" THEN after ELSE saved)
        /\ payouts' = payouts
        /\ directed => live' = after /\ stage' = "pay"
    BY DEF Settle, Keep, money
  <1>2. k \in Contract /\ saved \in DocumentOf(k) /\ clock \in Nat
    BY <1>1, ContractOfDocument, PayoutAssumption DEF IInv, TypeOK
  <1>3. ~directed => SameBooks(saved.machine, after.machine)
    BY <1>2, SettlementCases
  <1>4. after.contract = k /\ after # NoDocument
    <2>1. after \in DocumentOf(k)
      BY <1>2, SettlementCases DEF DocumentOf
    <2>2. QED
      BY <1>2, <2>1, PayoutAssumption DEF IsDocument
  <1>5. CASE PayoutsOf(c) # {}
    BY <1>1, <1>5 DEF IsHeld, PayoutsOf
  <1>6. CASE PayoutsOf(c) = {}
    <2>1. k = c /\ ~M(k)!IsTerminal(saved.machine)
      BY <1>1, <1>6 DEF IsHeld
    <2> HIDE DEF after, directed, k
    <2>2. CASE directed
      BY <1>1, <1>4, <2>1, <2>2 DEF IsHeld
    <2>3. CASE ~directed
      <3>1. ~M(k)!IsTerminal(after.machine)
        BY <1>3, <2>1, <2>3 DEF SameBooks, M!IsTerminal, M!Terminal
      <3>2. QED
        BY <1>1, <1>4, <2>1, <3>1 DEF IsHeld, k
    <2>4. QED
      BY <2>2, <2>3
  <1>7. QED
    BY <1>5, <1>6

\* The transfer itself takes over from the call.
LEMMA HeldByPay ==
    ASSUME IInv, NEW c \in Contract, Pay, IsHeld(c)
    PROVE  IsHeld(c)'
  <1>1. /\ payouts \subseteq payouts' /\ saved' = saved
        /\ \E p \in payouts' : p.key = CurrentKey
    BY TransferredIsDecided DEF Pay
  <1>2. CurrentKey.contract = live.contract
    BY WhileSettling DEF Pay, Settling
  <1>3. QED
    BY <1>1, <1>2 DEF IsHeld, PayoutsOf

\* The stored document of a settlement that was made speaks of a payout.
LEMMA HeldByPut ==
    ASSUME IInv, NEW c \in Contract, FundPut \/ RecordAndPut, IsHeld(c)
    PROVE  IsHeld(c)' \/ GivenUp(c)
  <1>1. CASE FundPut
    <2>1. /\ live \in DocumentOf(live.contract) /\ live.contract \in Contract
          /\ ~M(live.contract)!IsTerminal(live.machine)
      BY <1>1 DEF FundPut, IInv, InHand, TypeOK
    <2>2. live # NoDocument
      BY <2>1, PayoutAssumption DEF IsDocument
    <2>3. saved' = live
      BY <1>1 DEF FundPut
    <2>4. QED
      BY <2>1, <2>2, <2>3 DEF IsHeld, GivenUp
  <1>2. CASE RecordAndPut
    <2>1. PICK p \in payouts : p.key = CurrentKey
      BY <1>2 DEF RecordAndPut, IInv, Moved
    <2>2. /\ CurrentKey.contract = live.contract
          /\ live \in DocumentOf(live.contract) /\ live.contract \in Contract
          /\ stage # "pay"
      BY <1>2, WhileSettling DEF RecordAndPut, Settling
    <2>3. /\ payouts' = payouts /\ saved' = live' /\ saved'.contract = live.contract
      BY <1>2, <2>2 DEF RecordAndPut, DocumentOf, money
    <2>4. saved' # NoDocument
      <3>1. IInv'
        BY <1>2, RecordAndPutKeeps
      <3>2. live' \in DocumentOf(job'.manifest.contract) /\ job'.manifest.contract \in Contract
        BY <1>2, <3>1, PayoutAssumption DEF IInv, InHand, Settling, Job, RecordAndPut
      <3>3. QED
        BY <2>3, <3>2, PayoutAssumption DEF IsDocument
    <2>5. QED
      BY <2>1, <2>2, <2>3, <2>4 DEF IsHeld, GivenUp, PayoutsOf
  <1>3. QED
    BY <1>1, <1>2

\* One step of fund() or settle() forgets no escrow.
LEMMA StepForgetsNothing ==
    ASSUME IInv, Next, NEW c \in Contract, IsHeld(c)
    PROVE  IsHeld(c)' \/ GivenUp(c)
  <1>1. CASE \E k \in Contract : FundTransfer(k) \/ FundFails(k)
    BY <1>1, HeldByBooks DEF FundTransfer, FundFails
  <1>2. CASE \E manifest \in Manifest, mandate \in funded, prefix \in Prefix :
                 Settle(manifest, mandate, prefix)
    BY <1>2, HeldBySettle
  <1>3. CASE FundRecord \/ Raises
    BY <1>3, HeldByBooks DEF FundRecord, Raises, money
  <1>4. CASE Fee \/ IssueReceipt
    BY <1>4, HeldByBooks DEF Fee, IssueReceipt, money
  <1>5. CASE FundPut \/ RecordAndPut
    BY <1>5, HeldByPut
  <1>6. CASE Pay
    BY <1>6, HeldByPay
  <1>7. CASE PayFails
    <2>1. payouts \subseteq payouts'
      BY <1>7, TransferredIsDecided DEF PayFails
    <2>2. QED
      BY <1>7, <2>1, HeldByDocument DEF PayFails, Drop
  <1>8. CASE Restart
    <2>1. /\ payouts \subseteq payouts' /\ UNCHANGED store /\ stage' = "idle"
          /\ store = "firestore" => saved' = saved
      BY <1>8 DEF Restart, Drop, money
    <2>2. QED
      BY <2>1, HeldByDocument
  <1>9. CASE Tick
    BY <1>9 DEF Tick, IsHeld, PayoutsOf, money
  <1>10. QED
    BY <1>1, <1>2, <1>3, <1>4, <1>5, <1>6, <1>7, <1>8, <1>9 DEF Next

\* An escrow that was paid out or is looked after is given up only as GivenUp says,
\* whatever fails and wherever the process stops.
THEOREM NoEscrowForgotten == Spec => NothingForgotten
  <1>1. IInv /\ [Next]_vars => [\A c \in Contract : IsHeld(c) => IsHeld(c)' \/ GivenUp(c)]_vars
    BY StepForgetsNothing
  <1>2. QED
    BY <1>1, Invariance, PTL DEF Spec, NothingForgotten

-----------------------------------------------------------------------------
(* Each party once, and the fee after the payout *)

\* Transfers to one party have keys of one outcome, and those of one commit one key.
LEMMA OnePartyOneKey ==
    ASSUME IInv
    PROVE  OnePayoutPerParty
  <1>1. SUFFICES ASSUME NEW c \in Contract, NEW p \in PayoutsOf(c), NEW q \in PayoutsOf(c),
                        p.key.sha = q.key.sha, p.to = q.to
                 PROVE  p = q
    BY DEF OnePayoutPerParty
  <1>2. /\ p \in payouts /\ q \in payouts
        /\ p.key \in RailKey /\ q.key \in RailKey
        /\ p.key.contract = c /\ q.key.contract = c
    BY DEF PayoutsOf, IInv, TypeOK
  <1>3. p.key.verdict \in {"SETTLED", "REFUNDED"} /\ q.key.verdict \in {"SETTLED", "REFUNDED"}
    BY <1>2 DEF RailKey, M!SettlementKey
  <1>4. p.key.verdict = q.key.verdict
    BY <1>1, <1>2, <1>3 DEF IInv, Ledger, Decided
  <1>5. p.key = q.key
    BY <1>1, <1>2, <1>4 DEF RailKey, M!SettlementKey
  <1>6. QED
    BY <1>2, <1>5 DEF IInv, Ledger

\* The provider is paid for a commit once and the buyer refunded once, whatever is
\* repeated, fails or is restarted, and with no assumption on the grading.
THEOREM NobodyPaidTwice == Spec => []OnePayoutPerParty
  <1>1. IInv => OnePayoutPerParty
    BY OnePartyOneKey
  <1>2. QED
    BY <1>1, Invariance, PTL

\* Payouts are never taken back, and Fee is the only step that adds a fee.
LEMMA FeeStaysBehind ==
    ASSUME IInv, FeeFollowsPayout, [Next]_vars
    PROVE  FeeFollowsPayout'
  <1>1. payouts \subseteq payouts'
    <2>1. CASE Pay \/ PayFails
      BY <2>1, TransferredIsDecided DEF Pay, PayFails
    <2>2. CASE \E c \in Contract : FundTransfer(c) \/ FundFails(c)
      BY <2>2 DEF FundTransfer, FundFails
    <2>3. CASE \E manifest \in Manifest, mandate \in funded, prefix \in Prefix :
                   Settle(manifest, mandate, prefix)
      BY <2>3 DEF Settle, money
    <2>4. CASE \/ FundPut \/ FundRecord \/ Fee \/ RecordAndPut \/ IssueReceipt
               \/ Raises \/ Restart \/ Tick \/ UNCHANGED vars
      BY <2>4 DEF FundPut, FundRecord, Fee, RecordAndPut, IssueReceipt, Raises, Restart, Tick,
                  vars, money
    <2>5. QED
      BY <2>1, <2>2, <2>3, <2>4 DEF Next
  <1>2. CASE Fee
    <2>1. \E p \in payouts : p.key = CurrentKey
      BY <1>2 DEF Fee, IInv, Moved
    <2>2. fees' \in {fees, fees \cup {CurrentKey}}
      BY <1>2 DEF Fee
    <2>3. QED
      BY <1>1, <2>1, <2>2 DEF FeeFollowsPayout
  <1>3. CASE ~Fee
    <2>1. fees' = fees
      <3>1. CASE \E manifest \in Manifest, mandate \in funded, prefix \in Prefix :
                     Settle(manifest, mandate, prefix)
        BY <3>1 DEF Settle, money
      <3>2. CASE \/ \E c \in Contract : FundTransfer(c) \/ FundFails(c)
                 \/ FundPut \/ FundRecord \/ Pay \/ PayFails \/ RecordAndPut
                 \/ IssueReceipt \/ Raises \/ Restart \/ Tick \/ UNCHANGED vars
        BY <3>2 DEF FundTransfer, FundFails, FundPut, FundRecord, Pay, PayFails, RecordAndPut,
                    IssueReceipt, Raises, Restart, Tick, vars, money
      <3>3. QED
        BY <1>3, <3>1, <3>2 DEF Next
    <2>2. QED
      BY <1>1, <2>1 DEF FeeFollowsPayout
  <1>4. QED
    BY <1>2, <1>3

\* No fee is taken of a settlement that moved nothing.
THEOREM FeeIsEarned == Spec => []FeeFollowsPayout
  <1>1. Init => FeeFollowsPayout
    BY DEF Init, FeeFollowsPayout
  <1>2. IInv /\ FeeFollowsPayout /\ [Next]_vars => FeeFollowsPayout'
    BY FeeStaysBehind
  <1>3. QED
    BY <1>1, <1>2, Invariance, PTL DEF Spec

=============================================================================
