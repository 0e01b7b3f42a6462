----------------------------- MODULE X402Proofs -----------------------------
(***************************************************************************)
(* The fee over x402: the inductive invariant IInv of X402, and what        *)
(* follows from it for any requests, authorizations, payments and prices.   *)
(***************************************************************************)
EXTENDS X402, TLAPS

\* Every payment has the fields the checks and the token read.
LEMMA PaymentFields ==
    ASSUME NEW p \in Payment
    PROVE  /\ p.id \in Id /\ p.value \in Int /\ p.after \in Int /\ p.before \in Int
           /\ p.signer \in {"key", "contract", "contract65", "forged"}
BY X402Assumption DEF X402Assumption, PaymentType

\* The bound of the clock.
LEMMA TimeBound == MaxTime \in Nat
BY Zenon, X402Assumption DEF X402Assumption

\* The clock is a natural number within its bound.
LEMMA ClockIsNat == TypeOK => clock \in Nat /\ clock \in Int /\ clock <= MaxTime
BY TimeBound DEF TypeOK

\* The initial state satisfies the invariant.
LEMMA InitInvariant == Init => IInv
<1> SUFFICES ASSUME Init PROVE IInv
  OBVIOUS
<1> USE DEF Init
<1>1. TypeOK
  <2>1. clock \in 0 .. MaxTime /\ mined \in Nat
    BY TimeBound
  <2>2. /\ stage \in [Request -> Stage] /\ answer \in [Request -> Answer]
        /\ tx \in [Request -> Fate] /\ read \in [Request -> Nat]
        /\ shown \in [Request -> Payment \cup {NoPayment, OddNumber}]
    BY DEF Stage, Answer, Fate
  <2>3. spent \subseteq Id /\ moved \subseteq [payment : Payment, at : Nat]
    OBVIOUS
  <2> QED
    BY <2>1, <2>2, <2>3 DEF TypeOK
<1>2. InHand /\ Sent
  BY DEF InHand, Sent
<1>3. CountIsLatest /\ SettledIsAccountedFor
  BY DEF CountIsLatest, SettledIsAccountedFor
<1> QED
  BY <1>1, <1>2, <1>3 DEF IInv

\* Steps of a request before it has anything to send.
LEMMA PresentStep ==
    ASSUME IInv, NEW r \in Request, NEW p \in Payment \cup {NoPayment, OddNumber}, Present(r, p)
    PROVE  IInv'
<1> USE DEF IInv
<1>1. p \notin {NoPayment, OddNumber} => p \in Payment
  OBVIOUS
<1>2. /\ shown' = [shown EXCEPT ![r] = p]
      /\ stage' \in {[stage EXCEPT ![r] = "done"], [stage EXCEPT ![r] = "signature"]}
      /\ UNCHANGED <<deployment, clock, read, tx, mined, spent, moved>>
      /\ \/ stage' = [stage EXCEPT ![r] = "done"]
            /\ \E a \in {"unavailable", "error", "challenge", "rejected"} :
                   answer' = [answer EXCEPT ![r] = a]
         \/ stage' = [stage EXCEPT ![r] = "signature"] /\ answer' = answer /\ Quoted(p)
      /\ stage[r] = "idle"
  BY <1>1 DEF Present, Reply, Goto, TermsMatch, Quoted, chain
<1>3. tx[r] = "none" /\ answer[r] = "none"
  BY <1>2 DEF InHand
<1>4. TypeOK'
  BY <1>2 DEF TypeOK, Stage, Answer
<1>5. InHand'
  BY <1>2, <1>3 DEF InHand, TypeOK
<1>6. Sent'
  BY <1>2, <1>3 DEF Sent, TypeOK
<1>7. CountIsLatest'
  BY <1>2, <1>3 DEF CountIsLatest, TypeOK
<1>8. SettledIsAccountedFor'
  BY <1>2, <1>3 DEF SettledIsAccountedFor, TypeOK
<1> QED
  BY <1>4, <1>5, <1>6, <1>7, <1>8

\* The signature check lets a request on with a genuine authorization only.
LEMMA CheckSignatureStep ==
    ASSUME IInv, NEW r \in Request, CheckSignature(r)
    PROVE  IInv'
<1> USE DEF IInv, chain
<1>1. stage[r] = "signature" /\ Quoted(shown[r]) /\ tx[r] = "none" /\ answer[r] = "none"
  BY DEF CheckSignature, InHand
<1>2. /\ UNCHANGED <<deployment, clock, shown, read, tx, mined, spent, moved>>
      /\ \/ /\ stage' = [stage EXCEPT ![r] = "settle"] /\ answer' = answer
            /\ shown[r].signer # "forged"
         \/ /\ stage' = [stage EXCEPT ![r] = "done"]
            /\ answer' = [answer EXCEPT ![r] = "rejected"]
  BY DEF CheckSignature, Reply, Goto
<1>3. TypeOK'
  BY <1>2 DEF TypeOK, Stage, Answer
<1>4. InHand'
  BY <1>1, <1>2 DEF InHand, TypeOK
<1>5. Sent'
  BY <1>1, <1>2 DEF Sent, TypeOK
<1>6. CountIsLatest'
  BY <1>1, <1>2 DEF CountIsLatest, TypeOK
<1>7. SettledIsAccountedFor'
  BY <1>1, <1>2 DEF SettledIsAccountedFor, TypeOK
<1> QED
  BY <1>3, <1>4, <1>5, <1>6, <1>7

\* Up to the submission a request reads the chain and changes nothing of it.
LEMMA PrepareStep ==
    ASSUME IInv, NEW r \in Request, ReadNonce(r) \/ Build(r) \/ NodeFails(r)
    PROVE  IInv'
<1> USE DEF IInv, chain
<1>1. /\ stage[r] \in {"settle", "build", "send"}
      /\ Quoted(shown[r]) /\ tx[r] = "none" /\ answer[r] = "none"
      /\ shown[r].signer # "forged"
  BY DEF ReadNonce, Build, NodeFails, InHand
<1>2. /\ UNCHANGED <<deployment, clock, shown, tx, mined, spent, moved>>
      /\ \/ /\ stage' = [stage EXCEPT ![r] = "build"] /\ answer' = answer
            /\ read' = [read EXCEPT ![r] = mined]
         \/ /\ stage[r] = "build" /\ stage' = [stage EXCEPT ![r] = "send"]
            /\ UNCHANGED <<answer, read>> /\ shown[r].after < clock
         \/ /\ stage' = [stage EXCEPT ![r] = "done"] /\ read' = read
            /\ answer' = [answer EXCEPT ![r] = "unsettled"]
  BY DEF ReadNonce, Build, NodeFails, Reply, Goto, TransactionCount, Transferable
<1>3. TypeOK'
  BY <1>2 DEF TypeOK, Stage, Answer
<1>4. InHand'
  BY <1>1, <1>2 DEF InHand, TypeOK
<1>5. Sent'
  BY <1>1, <1>2 DEF Sent, TypeOK
<1>6. CountIsLatest'
  BY <1>1, <1>2 DEF CountIsLatest, TypeOK
<1>7. SettledIsAccountedFor'
  <2> SUFFICES ASSUME NEW q \in Request, answer'[q] = "settled"
               PROVE  /\ q # r /\ answer[q] = "settled"
                      /\ \A s \in Request : tx[s] # "none" => read'[s] = read[s]
    BY <1>2 DEF SettledIsAccountedFor, TypeOK
  <2> QED
    BY <1>1, <1>2 DEF TypeOK
<1> QED
  BY <1>3, <1>4, <1>5, <1>6, <1>7

\* A transaction the node takes carries the next nonce, and no other waits with it.
LEMMA SendStep ==
    ASSUME IInv, NEW r \in Request, Send(r)
    PROVE  IInv'
<1> USE DEF IInv, chain
<1>1. /\ stage[r] = "send" /\ read[r] = mined
      /\ Quoted(shown[r]) /\ tx[r] = "none" /\ answer[r] = "none"
      /\ shown[r].signer # "forged" /\ shown[r].after < clock
  BY DEF Send, InHand, Sent, CountIsLatest, TypeOK
<1>2. /\ UNCHANGED <<deployment, clock, shown, read, mined, spent, moved>>
      /\ stage' = [stage EXCEPT ![r] = "done"]
      /\ \E a \in {"settled", "unsettled"} : answer' = [answer EXCEPT ![r] = a]
      /\ tx' \in [Request -> Fate]
      /\ tx'[r] = "pending"
      /\ \A s \in Request \ {r} :
             \/ tx'[s] = tx[s] /\ tx[s] # "pending"
             \/ tx'[s] = tx[s] /\ read[s] # read[r]
             \/ tx[s] = "pending" /\ tx'[s] = "replaced" /\ read[s] = read[r]
  BY DEF Send, Accepted, Reply, TypeOK, Fate
<1>3. \A s \in Request \ {r} : tx'[s] # "pending"
  BY <1>1, <1>2 DEF CountIsLatest
<1>4. TypeOK'
  BY <1>2 DEF TypeOK, Stage, Answer
<1>5. InHand'
  BY <1>1, <1>2 DEF InHand, TypeOK
<1>6. Sent'
  BY <1>1, <1>2 DEF Sent, TypeOK
<1>7. CountIsLatest'
  BY <1>1, <1>2, <1>3 DEF CountIsLatest, TypeOK
<1>8. SettledIsAccountedFor'
  BY <1>1, <1>2 DEF SettledIsAccountedFor, TypeOK
<1> QED
  BY <1>4, <1>5, <1>6, <1>7, <1>8

\* Included, a transaction moves its fee unless the authorization is used or over.
LEMMA IncludeStep ==
    ASSUME IInv, NEW r \in Request, Include(r)
    PROVE  IInv'
<1> USE DEF IInv, chain
<1>1. /\ tx[r] = "pending" /\ stage[r] = "done" /\ Quoted(shown[r])
      /\ answer[r] \in {"settled", "unsettled"}
      /\ shown[r].signer # "forged" /\ shown[r].after < clock
  BY DEF Include, Sent
<1>a. /\ clock \in Nat /\ clock \in Int /\ shown[r] \in Payment
      /\ shown[r].id \in Id /\ shown[r].before \in Int
  BY <1>1, ClockIsNat, PaymentFields DEF Quoted
<1>b. Transferable(shown[r]) \/ shown[r].id \in spent \/ shown[r].before <= clock
  BY <1>1, <1>a DEF Transferable
<1>2. /\ UNCHANGED <<deployment, clock, stage, shown, read, answer>>
      /\ mined' = mined + 1 /\ spent \subseteq spent'
      /\ \/ tx' = [tx EXCEPT ![r] = "moved"]
         \/ /\ tx' = [tx EXCEPT ![r] = "reverted"]
            /\ shown[r].id \in spent \/ shown[r].before <= clock
  BY <1>b DEF Include, Moved
<1>3. \A s \in Request \ {r} : tx[s] # "pending"
  BY <1>1 DEF CountIsLatest
<1>4. spent' \subseteq Id /\ moved' \subseteq [payment : Payment, at : Nat]
  <2>1. [payment |-> shown[r], at |-> clock] \in [payment : Payment, at : Nat]
    BY <1>a
  <2>2. spent \subseteq Id /\ moved \subseteq [payment : Payment, at : Nat]
    BY DEF TypeOK
  <2>3. CASE Moved(shown[r])
    BY <1>a, <2>1, <2>2, <2>3 DEF Moved
  <2>4. CASE UNCHANGED <<spent, moved>>
    BY <2>2, <2>4
  <2> QED
    BY <2>3, <2>4 DEF Include
<1>5. TypeOK'
  BY <1>2, <1>4 DEF TypeOK, Fate
<1>6. InHand'
  BY <1>1, <1>2 DEF InHand, TypeOK
<1>7. Sent'
  BY <1>1, <1>2 DEF Sent, TypeOK
<1>8. CountIsLatest'
  BY <1>1, <1>2, <1>3 DEF CountIsLatest, TypeOK
<1>9. SettledIsAccountedFor'
  BY <1>1, <1>2 DEF SettledIsAccountedFor, TypeOK
<1> QED
  BY <1>5, <1>6, <1>7, <1>8, <1>9

\* What nodes, payers and other relayers do, and time.
LEMMA WorldStep ==
    ASSUME IInv,
           \/ \E r \in Request : Evict(r)
           \/ \E p \in Payment : RelayElsewhere(p) \/ Spoil(p)
           \/ Tick
    PROVE  IInv'
<1> USE DEF IInv, chain
<1>a. clock \in Nat /\ clock \in Int /\ MaxTime \in Nat
  BY ClockIsNat, TimeBound
<1>1. /\ UNCHANGED <<deployment, stage, shown, read, answer, mined>>
      /\ \/ tx' = tx
         \/ \E r \in Request : tx[r] = "pending" /\ tx' = [tx EXCEPT ![r] = "evicted"]
      /\ spent \subseteq spent'
      /\ \/ clock' = clock
         \/ clock < MaxTime /\ clock' = clock + 1
  BY DEF Evict, RelayElsewhere, Spoil, Tick, Moved
<1>2. clock' \in 0 .. MaxTime /\ clock' \in Int /\ clock' >= clock
  BY <1>1, <1>a DEF TypeOK
<1>3. spent' \subseteq Id /\ moved' \subseteq [payment : Payment, at : Nat]
  <2>1. spent \subseteq Id /\ moved \subseteq [payment : Payment, at : Nat]
    BY DEF TypeOK
  <2>2. ASSUME NEW p \in Payment, RelayElsewhere(p) PROVE  spent' \subseteq Id /\ moved' \subseteq [payment : Payment, at : Nat]
    <3>1. [payment |-> p, at |-> clock] \in [payment : Payment, at : Nat] /\ p.id \in Id
      BY <1>a, PaymentFields
    <3> QED
      BY <2>1, <2>2, <3>1 DEF RelayElsewhere, Moved
  <2>3. ASSUME NEW p \in Payment, Spoil(p) PROVE  spent' \subseteq Id /\ moved' \subseteq [payment : Payment, at : Nat]
    BY <2>1, <2>3, PaymentFields DEF Spoil
  <2>4. CASE UNCHANGED <<spent, moved>>
    BY <2>1, <2>4
  <2> QED
    BY <2>2, <2>3, <2>4 DEF Evict, Tick
<1>4. TypeOK'
  BY <1>1, <1>2, <1>3 DEF TypeOK, Fate
<1>5. InHand'
  BY <1>1 DEF InHand, TypeOK
<1>6. Sent'
  <2> SUFFICES ASSUME NEW q \in Request, stage[q] = "send" \/ tx[q] # "none"
               PROVE  shown[q].after < clock'
    BY <1>1 DEF Sent, TypeOK
  <2>1. shown[q] \in Payment /\ shown[q].after < clock
    BY DEF Sent, InHand, Quoted
  <2>2. shown[q].after \in Int
    BY <2>1, PaymentFields
  <2> QED
    BY <1>a, <1>2, <2>1, <2>2
<1>7. CountIsLatest'
  BY <1>1 DEF CountIsLatest, TypeOK
<1>8. SettledIsAccountedFor'
  <2> SUFFICES ASSUME NEW q \in Request, answer[q] = "settled", tx[q] = "reverted",
                      shown[q].before <= clock
               PROVE  shown[q].before <= clock'
    BY <1>1 DEF SettledIsAccountedFor, TypeOK
  <2>1. shown[q] \in Payment
    BY DEF Sent, Quoted
  <2>2. shown[q].before \in Int
    BY <2>1, PaymentFields
  <2> QED
    BY <1>a, <1>2, <2>2
<1> QED
  BY <1>4, <1>5, <1>6, <1>7, <1>8

\* The invariant is inductive.
LEMMA Inductive == IInv /\ [Next]_vars => IInv'
<1> SUFFICES ASSUME IInv, [Next]_vars PROVE IInv'
  OBVIOUS
<1>1. CASE UNCHANGED vars
  BY <1>1 DEF vars, chain, IInv, TypeOK, InHand, Sent, CountIsLatest, SettledIsAccountedFor
<1>2. CASE Next
  BY <1>2, PresentStep, CheckSignatureStep, PrepareStep, SendStep, IncludeStep, WorldStep
     DEF Next, Work
<1> QED
  BY <1>1, <1>2

\* The invariant holds of every behaviour.
LEMMA Invariance == Spec => []IInv
BY InitInvariant, Inductive, PTL DEF Spec

-----------------------------------------------------------------------------

\* Type correctness of the endpoint and the chain beside it (TypeOK).
THEOREM TypeCorrect == Spec => []TypeOK
<1>1. IInv => TypeOK
  BY DEF IInv
<1> QED
  BY <1>1, Invariance, PTL

\* The relayer never waits behind a nonce nobody sends (NoNonceGap): what waits
\* carries the chain's own next nonce.
THEOREM RelayerNeverStuck == Spec => []NoNonceGap
<1>1. IInv => NoNonceGap
  BY DEF IInv, NoNonceGap, CountIsLatest, TypeOK
<1> QED
  BY <1>1, Invariance, PTL

\* What the relayer moves is the quoted fee to the fee wallet (RelayedFeeIsQuoted).
THEOREM OnlyQuotedFees == Spec => []RelayedFeeIsQuoted
<1>1. IInv => RelayedFeeIsQuoted
  BY DEF IInv, RelayedFeeIsQuoted, Sent, Quoted
<1> QED
  BY <1>1, Invariance, PTL

\* A fee answered 200 that does not arrive was lost to one of four causes
\* (SettledIsAccountedFor); a bad term or a forged signature is none of them.
THEOREM EverySettledFee == Spec => []SettledIsAccountedFor
<1>1. IInv => SettledIsAccountedFor
  BY DEF IInv
<1> QED
  BY <1>1, Invariance, PTL

=============================================================================
