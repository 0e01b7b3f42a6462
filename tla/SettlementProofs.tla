-------------------------- MODULE SettlementProofs --------------------------
(***************************************************************************)
(* Proofs about Settlement for every set of commits, deliveries and        *)
(* manifests and every deadline. The inductive invariant IInv adds to the  *)
(* invariants TLC checks what they need to carry over a step: that the     *)
(* grade recorded for the head is the machine's state, that the single     *)
(* directive of a closed task is the one its state speaks of, and that a   *)
(* recorded verdict has a report behind it.                                *)
(***************************************************************************)
EXTENDS Settlement, TLAPS

\* The head, verdict and settlement of a machine, all but its bookkeeping.
SameDecision(m, n) ==
    /\ n.state = m.state
    /\ n.eligible = m.eligible
    /\ n.verified = m.verified
    /\ n.key = m.key
    /\ n.tx = m.tx \/ n.state \in Terminal

USE DEF DeliveryId

-----------------------------------------------------------------------------
(* The handlers, field by field *)

\* Recording a delivery keeps the type and touches no decision.
LEMMA RecordKeeps ==
    ASSUME NEW m \in Machine, NEW d \in DeliveryId
    PROVE  Record(m, d) \in Machine /\ SameDecision(m, Record(m, d)) 
  BY DEF Record, Machine, SameDecision

\* A handler leaves the decision alone, or applies and records the delivery.
LEMMA HandleCases ==
    ASSUME NEW m \in Machine, NEW d \in DeliveryId,
           NEW applies \in BOOLEAN, NEW after,
           applies => after \in Machine
    PROVE  LET n == Handle(m, d, applies, after)
           IN  /\ n \in Machine
               /\ \/ SameDecision(m, n) /\ ~(d \notin m.seen /\ applies)
                  \/ SameDecision(after, n) /\ d \notin m.seen /\ applies
  <1>1. CASE d \in m.seen
    BY <1>1 DEF Handle, SameDecision
  <1>2. CASE d \notin m.seen /\ applies
    <2>1. Handle(m, d, applies, after) = Record(after, d)
      BY <1>2 DEF Handle
    <2>2. after \in Machine
      BY <1>2
    <2>3. Record(after, d) \in Machine /\ SameDecision(after, Record(after, d))
      BY <2>2, RecordKeeps
    <2>4. QED
      BY <1>2, <2>1, <2>3
  <1>3. CASE d \notin m.seen /\ ~applies
    <2>1. Handle(m, d, applies, after) = Record(m, d)
      BY <1>3 DEF Handle
    <2>2. Record(m, d) \in Machine /\ SameDecision(m, Record(m, d)) 
      BY RecordKeeps
    <2>3. QED
      BY <1>3, <2>1, <2>2
  <1>4. QED
    BY <1>1, <1>2, <1>3

-----------------------------------------------------------------------------
(* The inductive step *)

\* Steps that leave the decision, the directives and the grade alone: a refused
\* event, a recorded transaction, the clock, a report that agrees.
LEMMA Unmoved ==
    ASSUME IInv,
           machine' \in Machine, SameDecision(machine, machine'),
           clock' \in Nat, clock <= clock',
           reports' \subseteq Manifest, reports \subseteq reports', ReportsAgree',
           UNCHANGED <<directives, grade>>
    PROVE  IInv'
  <1> USE DEF IInv, SameDecision
  <1>1. TypeOK'
    BY DEF TypeOK
  <1>2. OneTerminalAction' /\ VerdictBinding' /\ KeyNamesTheSettlement'
    BY DEF OneTerminalAction, IsTerminal, VerdictBinding, KeyNamesTheSettlement
  <1>3. ReleaseIsEarned'
    BY DEF ReleaseIsEarned
  <1>4. ExpiryOwesNothing'
    BY DeadlineAssumption DEF ExpiryOwesNothing, TypeOK
  <1>5. GradeIsState' /\ VerdictReported'
    BY DEF GradeIsState, VerdictReported
  <1>6. ClosedAs'
    BY DEF ClosedAs, TypeOK, Grade, NoGrade, IsTerminal
  <1>7. (Reproducible => SettlesOnRecord)'
    BY DEF SettlesOnRecord
  <1>8. QED
    BY <1>1, <1>2, <1>3, <1>4, <1>5, <1>6, <1>7

\* An accepted commit: no verdict, no directive.
LEMMA SubmissionMoves ==
    ASSUME IInv, NEW sha \in Sha,
           SubmissionApplies(machine, sha),
           machine' \in Machine, SameDecision(Submitted(machine, sha), machine'),
           grade' = NoGrade, UNCHANGED <<clock, reports, directives>>
    PROVE  IInv'
  <1> USE DEF IInv
  <1>1. /\ machine'.state = "SUBMITTED"
        /\ machine'.eligible = sha
        /\ machine'.verified = NoSha
        /\ machine'.key = NoKey
        /\ machine'.tx = NoTx
    BY DEF SameDecision, Submitted, SubmissionApplies, IsTerminal, Terminal, Graded,
           TypeOK, Machine, VerdictBinding, KeyNamesTheSettlement, ClosedAs
  <1>2. directives = <<>>
    BY DEF SubmissionApplies, OneTerminalAction, TypeOK
  <1>3. TypeOK'
    BY DEF TypeOK, Grade
  <1>4. OneTerminalAction' /\ ReleaseIsEarned'
    BY <1>1, <1>2 DEF OneTerminalAction, IsTerminal, Terminal, ReleaseIsEarned
  <1>5. VerdictBinding' /\ KeyNamesTheSettlement'
    BY <1>1 DEF VerdictBinding, KeyNamesTheSettlement, Graded
  <1>6. ExpiryOwesNothing' /\ GradeIsState' /\ VerdictReported' /\ ReportsAgree'
    BY <1>1 DEF ExpiryOwesNothing, GradeIsState, VerdictReported, ReportsAgree, Graded
  <1>7. ClosedAs' /\ SettlesOnRecord'
    BY <1>1 DEF ClosedAs, SettlesOnRecord, NoGrade, TypeOK
  <1>8. QED
    BY <1>3, <1>4, <1>5, <1>6, <1>7

\* Verification starts: nothing was graded, and nothing is.
LEMMA StartMoves ==
    ASSUME IInv, NEW sha \in Sha,
           VerificationStartApplies(machine, sha),
           machine' \in Machine,
           SameDecision([machine EXCEPT !.state = "VERIFYING"], machine'),
           UNCHANGED <<clock, reports, directives, grade>>
    PROVE  IInv'
  <1> USE DEF IInv
  <1>1. /\ machine.state = "SUBMITTED"
        /\ machine'.state = "VERIFYING"
        /\ machine'.eligible = machine.eligible
        /\ machine'.verified = machine.verified
        /\ machine'.key = machine.key
        /\ machine'.tx = NoTx
    BY DEF SameDecision, VerificationStartApplies, TypeOK, Machine, IsTerminal, Terminal,
           ClosedAs
  <1>2. TypeOK' /\ OneTerminalAction'
    BY <1>1 DEF TypeOK, OneTerminalAction, IsTerminal, Terminal
  <1>3. VerdictBinding' /\ KeyNamesTheSettlement'
    BY <1>1 DEF VerdictBinding, KeyNamesTheSettlement, Graded
  <1>4. ReleaseIsEarned' /\ VerdictReported' /\ ReportsAgree'
    BY <1>1 DEF ReleaseIsEarned, VerdictReported, ReportsAgree
  <1>5. ExpiryOwesNothing' /\ GradeIsState' /\ ClosedAs'
    BY <1>1 DEF ExpiryOwesNothing, GradeIsState, Graded, ClosedAs
  <1>6. (Reproducible => SettlesOnRecord)'
    BY <1>1 DEF SettlesOnRecord, KeyNamesTheSettlement
  <1>7. QED
    BY <1>2, <1>3, <1>4, <1>5, <1>6

\* An accepted result grades the head.
LEMMA ResultMoves ==
    ASSUME IInv, NEW manifest \in Manifest, manifest \in reports,
           VerificationApplies(machine, manifest),
           machine' \in Machine,
           SameDecision([machine EXCEPT !.verified = manifest.sha,
                                        !.state = manifest.verdict], machine'),
           grade' = [verdict |-> manifest.verdict, at |-> clock],
           UNCHANGED <<clock, reports, directives>>
    PROVE  IInv'
  <1> USE DEF IInv
  <1>0. manifest.sha \in Sha /\ manifest.verdict \in Verdict /\ manifest.sha # NoSha
    BY MachineAssumption
  <1>1. /\ machine'.state = manifest.verdict
        /\ machine'.eligible = manifest.sha
        /\ machine'.verified = manifest.sha
        /\ machine'.key = NoKey
        /\ machine'.tx = NoTx
        /\ machine'.state \in Graded
    BY <1>0 DEF SameDecision, VerificationApplies, IsCurrent, IsTerminal, Terminal, Graded,
                Verdict, TypeOK, Machine, KeyNamesTheSettlement, ClosedAs
  <1>2. directives = <<>>
    BY DEF VerificationApplies, OneTerminalAction, TypeOK
  <1>3. grade' # NoGrade
    BY <1>0 DEF NoGrade, Verdict
  <1>4. TypeOK'
    BY <1>0 DEF TypeOK, Grade
  <1>5. OneTerminalAction' /\ ReleaseIsEarned'
    BY <1>1, <1>2 DEF OneTerminalAction, IsTerminal, Terminal, Graded, ReleaseIsEarned
  <1>6. VerdictBinding' /\ KeyNamesTheSettlement'
    BY <1>0, <1>1, <1>3 DEF VerdictBinding, KeyNamesTheSettlement, Graded
  <1>7. ExpiryOwesNothing' /\ GradeIsState' /\ ReportsAgree'
    BY <1>1 DEF ExpiryOwesNothing, GradeIsState, ReportsAgree, Graded
  <1>8. VerdictReported'
    BY <1>1 DEF VerdictReported, VerificationApplies
  <1>9. ClosedAs' /\ SettlesOnRecord'
    BY <1>1 DEF ClosedAs, SettlesOnRecord, TypeOK, Graded
  <1>10. QED
    BY <1>4, <1>5, <1>6, <1>7, <1>8, <1>9

\* A settlement closes a graded task with the first and only directive.
LEMMA SettleMoves ==
    ASSUME IInv, NEW manifest \in Manifest, manifest \in reports,
           SettlementApplies(machine, manifest),
           machine' \in Machine,
           SameDecision(Settled(machine, manifest, clock), machine'),
           Issue(ExecuteMandate(manifest, clock), manifest.sha),
           UNCHANGED <<clock, reports, grade>>
    PROVE  IInv'
  <1> DEFINE action == ExecuteMandate(manifest, clock)
             directive == [action |-> action, sha |-> manifest.sha, at |-> clock]
  <1> USE DEF IInv
  <1>0. /\ manifest.sha \in Sha /\ manifest.verdict \in Verdict /\ manifest.sha # NoSha
        /\ manifest.sha = machine.eligible /\ manifest.sha = machine.verified
        /\ manifest.contract = ContractHash
        /\ MandateCovers(manifest)
        /\ machine.state \in Graded
    BY MachineAssumption DEF SettlementApplies, MaySettle, IsCurrent, MandateCovers
  <1>1. /\ action \in Action
        /\ action = "release" <=> clock <= Deadline /\ manifest.verdict = "PASS"
    BY DEF ExecuteMandate, Action
  <1>2. /\ machine'.state = IF action = "release" THEN "SETTLED" ELSE "REFUNDED"
        /\ machine'.eligible = machine.eligible
        /\ machine'.verified = machine.verified
        /\ machine'.key = SettlementKey(machine.verified, machine.state)
    BY <1>0 DEF SameDecision, Settled, TypeOK, Machine
  <1>3. directives = <<>> /\ ~IsTerminal(machine)
    BY <1>0 DEF OneTerminalAction, TypeOK, IsTerminal, Terminal, Graded
  <1>4. directives' = <<directive>> /\ directive \in Directive
    BY <1>0, <1>1, <1>3 DEF Issue, Directive, TypeOK
  <1>5. grade.verdict = machine.state /\ grade # NoGrade /\ machine'.key # NoKey
    <2>1. SettlementKey(machine.verified, machine.state) \in Key
      BY <1>0 DEF SettlementKey, Key, Graded, Verdict
    <2>2. QED
      BY <1>0, <1>2, <2>1, KeyAssumption DEF GradeIsState, VerdictBinding
  <1>6. TypeOK'
    BY <1>4 DEF TypeOK
  <1>7. OneTerminalAction'
    BY <1>2, <1>4 DEF OneTerminalAction, IsTerminal, Terminal
  <1>8. VerdictBinding' /\ KeyNamesTheSettlement'
    BY <1>0, <1>2, <1>5 DEF VerdictBinding, KeyNamesTheSettlement, Graded
  <1>9. ReleaseIsEarned'
    <2>1. SUFFICES ASSUME action = "release"
                   PROVE  /\ directive.sha = machine'.eligible
                          /\ directive.at <= Deadline
                          /\ grade.at <= directive.at
                          /\ manifest.sha = directive.sha /\ manifest.verdict = "PASS"
      BY <1>0, <1>4, <1>5 DEF ReleaseIsEarned
    <2>2. QED
      BY <1>0, <1>1, <1>2, <2>1 DEF ClosedAs
  <1>10. ExpiryOwesNothing' /\ GradeIsState'
    BY <1>2 DEF ExpiryOwesNothing, GradeIsState, Graded
  <1>11. VerdictReported' /\ ReportsAgree'
    BY <1>2 DEF VerdictReported, ReportsAgree
  <1>12. ClosedAs'
    BY <1>1, <1>2, <1>4 DEF ClosedAs, Action, IsTerminal, Terminal
  <1>13. (Reproducible => SettlesOnRecord)'
    <2>1. Reproducible => manifest.verdict = machine.state
      BY <1>0, <1>5 DEF VerdictReported, ReportsAgree
    <2>2. machine'.key.verdict = machine.state
      BY <1>2 DEF SettlementKey
    <2>3. QED
      BY <1>1, <1>2, <1>4, <2>1, <2>2 DEF SettlesOnRecord
  <1>14. QED
    BY <1>6, <1>7, <1>8, <1>9, <1>10, <1>11, <1>12, <1>13

\* Expiry closes an ungraded task with a refund.
LEMMA DeadlineMoves ==
    ASSUME IInv,
           DeadlineApplies(machine, clock),
           machine' \in Machine,
           SameDecision([machine EXCEPT !.state = "EXPIRED"], machine'),
           Issue("refund", NoSha),
           UNCHANGED <<clock, reports, grade>>
    PROVE  IInv'
  <1> DEFINE directive == [action |-> "refund", sha |-> NoSha, at |-> clock]
  <1> USE DEF IInv
  <1>1. /\ machine.state \notin Terminal \cup Graded
        /\ clock > Deadline
        /\ machine'.state = "EXPIRED"
        /\ machine'.eligible = machine.eligible
        /\ machine'.verified = machine.verified
        /\ machine'.key = machine.key
    BY DEF SameDecision, DeadlineApplies, MandateExpired, TypeOK, Machine
  <1>2. directives = <<>>
    BY <1>1 DEF OneTerminalAction, TypeOK, IsTerminal
  <1>3. directives' = <<directive>> /\ directive \in Directive
    BY <1>2 DEF Issue, Directive, Action, TypeOK
  <1>4. machine.verified = NoSha /\ grade = NoGrade /\ machine.key = NoKey
    BY <1>1 DEF VerdictBinding, KeyNamesTheSettlement, Terminal
  <1>5. TypeOK'
    BY <1>3 DEF TypeOK
  <1>6. OneTerminalAction' /\ ReleaseIsEarned' /\ ClosedAs'
    BY <1>1, <1>3 DEF OneTerminalAction, IsTerminal, Terminal, ReleaseIsEarned, ClosedAs
  <1>7. VerdictBinding' /\ KeyNamesTheSettlement' /\ ExpiryOwesNothing'
    BY <1>1, <1>4 DEF VerdictBinding, KeyNamesTheSettlement, ExpiryOwesNothing, Graded
  <1>8. GradeIsState' /\ VerdictReported' /\ ReportsAgree' /\ SettlesOnRecord'
    BY <1>1, <1>4 DEF GradeIsState, VerdictReported, ReportsAgree, SettlesOnRecord, Graded
  <1>9. QED
    BY <1>5, <1>6, <1>7, <1>8

-----------------------------------------------------------------------------
(* One lemma per action: refused, or applied as above *)

\* A push keeps the invariant, accepted or not (on_submission).
LEMMA SubmissionKeeps ==
    ASSUME IInv, NEW sha \in Sha, NEW d \in DeliveryId, Submission(sha, d)
    PROVE  IInv'
  <1>1. machine \in Machine /\ clock \in Nat /\ reports \subseteq Manifest /\ ReportsAgree'
    BY DEF IInv, TypeOK, Submission, ReportsAgree
  <1>2. SubmissionApplies(machine, sha) \in BOOLEAN /\ Submitted(machine, sha) \in Machine
    BY <1>1 DEF SubmissionApplies, IsTerminal, Submitted, Machine, TaskState, Graded
  <1>3. /\ machine' \in Machine
        /\ \/ /\ SameDecision(machine, machine')
              /\ ~(d \notin machine.seen /\ SubmissionApplies(machine, sha))
           \/ /\ SameDecision(Submitted(machine, sha), machine')
              /\ d \notin machine.seen /\ SubmissionApplies(machine, sha)
    BY <1>1, <1>2, HandleCases DEF Submission, OnSubmission
  <1>4. QED
    BY <1>1, <1>3, Unmoved, SubmissionMoves DEF Submission

\* So does the start of a verification (on_verification_started).
LEMMA VerificationStartedKeeps ==
    ASSUME IInv, NEW sha \in Sha, NEW d \in DeliveryId, VerificationStarted(sha, d)
    PROVE  IInv'
  <1> DEFINE after == [machine EXCEPT !.state = "VERIFYING"]
  <1>1. machine \in Machine /\ clock \in Nat /\ reports \subseteq Manifest /\ ReportsAgree'
    BY DEF IInv, TypeOK, VerificationStarted, ReportsAgree
  <1>2. VerificationStartApplies(machine, sha) \in BOOLEAN /\ after \in Machine
    BY <1>1 DEF VerificationStartApplies, IsTerminal, IsCurrent, Machine, TaskState
  <1>3. /\ machine' \in Machine
        /\ \/ SameDecision(machine, machine')
           \/ /\ SameDecision(after, machine')
              /\ VerificationStartApplies(machine, sha)
    BY <1>1, <1>2, HandleCases DEF VerificationStarted, OnVerificationStarted
  <1>4. QED
    BY <1>1, <1>3, Unmoved, StartMoves DEF VerificationStarted

\* So does a result, the second for a commit included
\* (on_verification_completed).
LEMMA VerificationCompletedKeeps ==
    ASSUME IInv, NEW manifest \in Manifest, NEW d \in DeliveryId,
           VerificationCompleted(manifest, d)
    PROVE  IInv'
  <1> DEFINE after == [machine EXCEPT !.verified = manifest.sha, !.state = manifest.verdict]
  <1>1. machine \in Machine /\ clock \in Nat /\ reports \subseteq Manifest /\ ReportsAgree'
    BY DEF IInv, TypeOK, VerificationCompleted, ReportsAgree
  <1>2. VerificationApplies(machine, manifest) \in BOOLEAN /\ after \in Machine
    BY <1>1, MachineAssumption
       DEF VerificationApplies, IsTerminal, IsCurrent, Machine, TaskState, Graded, Verdict
  <1>3. /\ machine' \in Machine
        /\ \/ /\ SameDecision(machine, machine')
              /\ ~(d \notin machine.seen /\ VerificationApplies(machine, manifest))
           \/ /\ SameDecision(after, machine')
              /\ d \notin machine.seen /\ VerificationApplies(machine, manifest)
    BY <1>1, <1>2, HandleCases DEF VerificationCompleted, OnVerificationCompleted
  <1>4. CASE /\ SameDecision(machine, machine')
             /\ ~(d \notin machine.seen /\ VerificationApplies(machine, manifest))
    BY <1>1, <1>3, <1>4, Unmoved DEF VerificationCompleted
  <1>5. CASE /\ SameDecision(after, machine')
             /\ d \notin machine.seen /\ VerificationApplies(machine, manifest)
    BY <1>3, <1>5, ResultMoves DEF VerificationCompleted
  <1>6. QED
    BY <1>3, <1>4, <1>5

\* So does a settlement call (on_settlement).
LEMMA SettleKeeps ==
    ASSUME IInv, NEW manifest \in Manifest, NEW d \in DeliveryId, Settle(manifest, d)
    PROVE  IInv'
  <1> DEFINE after == Settled(machine, manifest, clock)
             applies == SettlementApplies(machine, manifest)
  <1>1. machine \in Machine /\ clock \in Nat /\ reports \subseteq Manifest /\ ReportsAgree'
    BY DEF IInv, TypeOK, Settle, ReportsAgree
  <1>2. applies \in BOOLEAN /\ (applies => after \in Machine)
    BY <1>1, MachineAssumption
       DEF SettlementApplies, MaySettle, IsCurrent, MandateCovers, Settled, SettlementKey,
           Key, Machine, TaskState, Terminal, Graded, Verdict
  <1>3. /\ machine' \in Machine
        /\ \/ SameDecision(machine, machine') /\ ~(d \notin machine.seen /\ applies)
           \/ SameDecision(after, machine') /\ d \notin machine.seen /\ applies
    BY <1>1, <1>2, HandleCases DEF Settle, OnSettlement
  <1>4. QED
    BY <1>1, <1>3, Unmoved, SettleMoves DEF Settle

\* So does a deadline poll (on_deadline).
LEMMA DeadlinePollKeeps ==
    ASSUME IInv, NEW d \in DeliveryId, DeadlinePoll(d)
    PROVE  IInv'
  <1> DEFINE after == [machine EXCEPT !.state = "EXPIRED"]
             applies == DeadlineApplies(machine, clock)
  <1>1. machine \in Machine /\ clock \in Nat /\ reports \subseteq Manifest /\ ReportsAgree'
    BY DEF IInv, TypeOK, DeadlinePoll, ReportsAgree
  <1>2. applies \in BOOLEAN /\ after \in Machine
    BY <1>1 DEF DeadlineApplies, Machine, TaskState, Terminal
  <1>3. /\ machine' \in Machine
        /\ \/ SameDecision(machine, machine') /\ ~(d \notin machine.seen /\ applies)
           \/ SameDecision(after, machine') /\ d \notin machine.seen /\ applies
    BY <1>1, <1>2, HandleCases DEF DeadlinePoll, OnDeadline
  <1>4. QED
    BY <1>1, <1>3, Unmoved, DeadlineMoves DEF DeadlinePoll

\* So do a recorded transaction, a report of the verifier and the clock.
LEMMA OthersKeep ==
    ASSUME IInv, (\E tx \in Tx : RecordTx(tx)) \/ (\E mf \in Manifest : Report(mf)) \/ Tick
                 \/ UNCHANGED vars
    PROVE  IInv'
  <1>1. machine \in Machine /\ clock \in Nat /\ reports \subseteq Manifest /\ ReportsAgree
    BY DEF IInv, TypeOK
  <1>2. ASSUME NEW tx \in Tx, RecordTx(tx) PROVE IInv'
    <2>1. machine' \in Machine /\ SameDecision(machine, machine')
      BY <1>1, <1>2
         DEF RecordTx, RecordSettlementTx, RecordTxApplies, IsTerminal, Machine, SameDecision
    <2>2. QED
      BY <1>1, <1>2, <2>1, Unmoved DEF RecordTx, ReportsAgree
  <1>3. ASSUME NEW mf \in Manifest, Report(mf) PROVE IInv'
    <2>1. ReportsAgree'
      BY <1>1, <1>3 DEF Report, ReportsAgree
    <2>2. QED
      BY <1>1, <1>3, <2>1, Unmoved DEF Report, SameDecision
  <1>4. CASE Tick
    BY <1>1, <1>4, Unmoved DEF Tick, SameDecision, ReportsAgree
  <1>5. CASE UNCHANGED vars
    BY <1>1, <1>5, Unmoved DEF vars, SameDecision, ReportsAgree
  <1>6. QED
    BY <1>2, <1>3, <1>4, <1>5

-----------------------------------------------------------------------------
(* Theorems *)

\* A new machine satisfies the invariant.
LEMMA InitHolds == Init => IInv
  <1> SUFFICES ASSUME Init PROVE IInv
    OBVIOUS
  <1> USE DEF Init, NewMachine
  <1>1. TypeOK
    BY DEF TypeOK, Machine, TaskState, Grade
  <1>2. OneTerminalAction /\ ReleaseIsEarned /\ ClosedAs
    BY DEF OneTerminalAction, IsTerminal, Terminal, ReleaseIsEarned, ClosedAs, NoGrade
  <1>3. VerdictBinding /\ KeyNamesTheSettlement /\ ExpiryOwesNothing
    BY DEF VerdictBinding, KeyNamesTheSettlement, ExpiryOwesNothing, Graded
  <1>4. GradeIsState /\ VerdictReported /\ ReportsAgree /\ SettlesOnRecord
    BY DEF GradeIsState, VerdictReported, ReportsAgree, SettlesOnRecord, Graded
  <1>5. QED
    BY <1>1, <1>2, <1>3, <1>4 DEF IInv

\* Every step keeps the invariant.
LEMMA NextKeeps == IInv /\ [Next]_vars => IInv'
  BY SubmissionKeeps, VerificationStartedKeeps, VerificationCompletedKeeps, SettleKeeps,
     DeadlinePollKeeps, OthersKeep DEF Next

\* The inductive invariant holds of every machine, whatever is delivered, in
\* whatever order and however often.
THEOREM Invariance == Spec => []IInv
  BY InitHolds, NextKeeps, PTL DEF Spec

\* The variables keep their types.
THEOREM TypeCorrect == Spec => []TypeOK
  <1>1. IInv => TypeOK
    BY DEF IInv
  <1>2. QED
    BY <1>1, Invariance, PTL

\* The executor is handed at most one directive for a task, and one exactly when
\* the task is closed (on_settlement, on_deadline).
THEOREM AtMostOneDirective == Spec => []OneTerminalAction
  <1>1. IInv => OneTerminalAction
    BY DEF IInv
  <1>2. QED
    BY <1>1, Invariance, PTL

\* No force-push inherits a verdict (on_submission, P0.4).
THEOREM NoInheritedVerdict == Spec => []VerdictBinding
  <1>1. IInv => VerdictBinding
    BY DEF IInv
  <1>2. QED
    BY <1>1, Invariance, PTL

\* The provider is paid only for a reported PASS of the head, on time
\* (execute_mandate).
THEOREM OnlyEarnedRelease == Spec => []ReleaseIsEarned
  <1>1. IInv => ReleaseIsEarned
    BY DEF IInv
  <1>2. QED
    BY <1>1, Invariance, PTL

\* A task expires only ungraded, after the deadline, with no key consumed
\* (on_deadline).
THEOREM OnlyUngradedExpires == Spec => []ExpiryOwesNothing
  <1>1. IInv => ExpiryOwesNothing
    BY DEF IInv
  <1>2. QED
    BY <1>1, Invariance, PTL

\* The consumed settlement key is that of the artifact and the verdict on record
\* (on_settlement).
THEOREM KeyOfTheRecord == Spec => []KeyNamesTheSettlement
  <1>1. IInv => KeyNamesTheSettlement
    BY DEF IInv
  <1>2. QED
    BY <1>1, Invariance, PTL

\* With reproducible grading the settlement executes the verdict on record.
THEOREM SettlementFollowsRecord == Spec => [](Reproducible => SettlesOnRecord)
  <1>1. IInv => (Reproducible => SettlesOnRecord)
    BY DEF IInv
  <1>2. QED
    BY <1>1, Invariance, PTL

-----------------------------------------------------------------------------
(* Terminal means terminal *)

\* A refused event changes nothing but the set of seen deliveries.
LEMMA RefusedKeeps ==
    ASSUME NEW m \in Machine, NEW d \in DeliveryId, NEW applies \in BOOLEAN, NEW after,
           NEW n, ~applies, n = Handle(m, d, applies, after)
    PROVE  /\ n.tx = m.tx
           /\ Decision(n) = Decision(m)
  <1>1. n = m \/ n = [m EXCEPT !.seen = m.seen \cup ({d} \cap Delivery)]
    BY DEF Handle, Record
  <1>2. QED
    BY <1>1 DEF Machine, Decision

\* No event changes the decision of a closed task, and none replaces a recorded
\* transaction.
LEMMA ClosedStep ==
    ASSUME TypeOK, IsTerminal(machine), [Next]_vars
    PROVE  /\ Decision(machine') = Decision(machine)
           /\ directives' = directives
           /\ machine.tx # NoTx => machine'.tx = machine.tx
  <1> DEFINE Final == /\ Decision(machine') = Decision(machine)
                      /\ directives' = directives
                      /\ machine.tx # NoTx => machine'.tx = machine.tx
  <1>0. machine \in Machine
    BY DEF TypeOK
  <1>1. ASSUME NEW sha \in Sha, NEW d \in DeliveryId, Submission(sha, d) PROVE Final
    <2>1. SubmissionApplies(machine, sha) \in BOOLEAN /\ ~SubmissionApplies(machine, sha)
      BY DEF SubmissionApplies
    <2>2. QED
      BY <1>0, <1>1, <2>1, RefusedKeeps DEF Submission, OnSubmission
  <1>2. ASSUME NEW sha \in Sha, NEW d \in DeliveryId, VerificationStarted(sha, d) PROVE Final
    <2>1. VerificationStartApplies(machine, sha) \in BOOLEAN /\ ~VerificationStartApplies(machine, sha)
      BY DEF VerificationStartApplies
    <2>2. QED
      BY <1>0, <1>2, <2>1, RefusedKeeps DEF VerificationStarted, OnVerificationStarted
  <1>3. ASSUME NEW mf \in Manifest, NEW d \in DeliveryId, VerificationCompleted(mf, d)
        PROVE  Final
    <2>1. VerificationApplies(machine, mf) \in BOOLEAN /\ ~VerificationApplies(machine, mf)
      BY DEF VerificationApplies
    <2>2. QED
      BY <1>0, <1>3, <2>1, RefusedKeeps DEF VerificationCompleted, OnVerificationCompleted
  <1>4. ASSUME NEW mf \in Manifest, NEW d \in DeliveryId, Settle(mf, d) PROVE Final
    <2>1. SettlementApplies(machine, mf) \in BOOLEAN /\ ~SettlementApplies(machine, mf)
      BY DEF SettlementApplies, MaySettle, IsTerminal, Terminal, Graded
    <2>2. QED
      BY <1>0, <1>4, <2>1, RefusedKeeps DEF Settle, OnSettlement
  <1>5. ASSUME NEW d \in DeliveryId, DeadlinePoll(d) PROVE Final
    <2>1. DeadlineApplies(machine, clock) \in BOOLEAN /\ ~DeadlineApplies(machine, clock)
      BY DEF DeadlineApplies, IsTerminal
    <2>2. QED
      BY <1>0, <1>5, <2>1, RefusedKeeps DEF DeadlinePoll, OnDeadline
  <1>6. ASSUME NEW tx \in Tx, RecordTx(tx) PROVE Final
    BY <1>0, <1>6 DEF RecordTx, RecordSettlementTx, RecordTxApplies, Machine, Decision
  <1>7. ASSUME NEW mf \in Manifest, Report(mf) PROVE Final
    BY <1>7 DEF Report
  <1>8. CASE Tick
    BY <1>8 DEF Tick
  <1>9. CASE UNCHANGED vars
    BY <1>9 DEF vars
  <1>10. QED
    BY <1>1, <1>2, <1>3, <1>4, <1>5, <1>6, <1>7, <1>8, <1>9 DEF Next

\* What a closed task settled on and paid is never changed, and a transaction
\* once recorded is never replaced (the terminal guards of every handler, and
\* record_settlement_tx).
THEOREM ClosedForGood == Spec => TerminalIsFinal
  <1>1. IInv /\ [Next]_vars =>
          [/\ IsTerminal(machine) =>
                 Decision(machine') = Decision(machine) /\ directives' = directives
           /\ machine.tx # NoTx => machine'.tx = machine.tx]_vars
    BY ClosedStep DEF IInv, ClosedAs
  <1>2. QED
    BY <1>1, Invariance, PTL DEF TerminalIsFinal, Spec

-----------------------------------------------------------------------------
(* Refinement of the escrow promise *)

\* What the mapping shows is the grade, open or closed.
LEMMA ResultIsGrade == IInv => RecordedResult = grade.verdict
  <1> SUFFICES ASSUME IInv PROVE RecordedResult = grade.verdict
    OBVIOUS
  <1> USE DEF IInv
  <1>1. CASE machine.state \in Graded
    <2>1. machine.key = NoKey
      BY <1>1 DEF KeyNamesTheSettlement, Graded
    <2>2. QED
      BY <1>1, <2>1 DEF RecordedResult, GradeIsState
  <1>2. CASE machine.key # NoKey
    <2>1. machine.state \notin Graded /\ machine.key.verdict = grade.verdict
      BY <1>2 DEF KeyNamesTheSettlement, SettlementKey, Graded
    <2>2. QED
      BY <1>2, <2>1 DEF RecordedResult
  <1>3. CASE machine.state \notin Graded /\ machine.key = NoKey
    <2>1. grade = NoGrade
      BY <1>3 DEF KeyNamesTheSettlement, VerdictBinding
    <2>2. QED
      BY <1>3, <2>1 DEF RecordedResult, NoGrade
  <1>4. QED
    BY <1>1, <1>2, <1>3

\* The same after a step.
LEMMA ResultIsGradeNext == (IInv => RecordedResult = grade.verdict)'
  BY ResultIsGrade, PTL

\* A step that leaves the decision, the grade and the clock alone is a stutter.
LEMMA Stutters ==
    ASSUME IInv, IInv', SameDecision(machine, machine'), grade'.verdict = grade.verdict,
           UNCHANGED clock
    PROVE  UNCHANGED Promise!evars
  <1>1. RecordedResult' = RecordedResult
    BY ResultIsGrade, ResultIsGradeNext
  <1>2. QED
    BY <1>1 DEF SameDecision, Promise!evars, Payee

\* A new machine is an escrow nothing was offered for.
LEMMA PromiseInit == Init => Promise!EscrowInit
  BY InitHolds, ResultIsGrade DEF Init, NewMachine, NoGrade, Payee, Promise!EscrowInit

\* An open machine holds the funds.
LEMMA OpenHolds == IInv /\ ~IsTerminal(machine) => Payee = "HELD"
  BY DEF IsTerminal, Terminal, Payee

\* An accepted commit is an offer, which takes the old grade with it.
LEMMA SubmissionPromised ==
    ASSUME IInv, IInv', NEW sha \in Sha, NEW d \in DeliveryId, Submission(sha, d)
    PROVE  Promise!Offer(sha) \/ UNCHANGED Promise!evars
  <1>1. machine \in Machine /\ Submitted(machine, sha) \in Machine
        /\ SubmissionApplies(machine, sha) \in BOOLEAN
    BY DEF IInv, TypeOK, SubmissionApplies, IsTerminal, Submitted, Machine, TaskState, Graded
  <1>2. \/ /\ SameDecision(machine, machine')
           /\ ~(d \notin machine.seen /\ SubmissionApplies(machine, sha))
        \/ /\ SameDecision(Submitted(machine, sha), machine')
           /\ d \notin machine.seen /\ SubmissionApplies(machine, sha)
    BY <1>1, HandleCases DEF Submission, OnSubmission
  <1>3. CASE /\ SameDecision(machine, machine')
             /\ ~(d \notin machine.seen /\ SubmissionApplies(machine, sha))
    BY <1>3, Stutters DEF Submission
  <1>4. CASE /\ SameDecision(Submitted(machine, sha), machine')
             /\ d \notin machine.seen /\ SubmissionApplies(machine, sha)
    <2>1. machine'.state = "SUBMITTED" /\ machine'.eligible = sha
      BY <1>1, <1>4 DEF SameDecision, Submitted, Machine
    <2>2. Payee = "HELD" /\ Payee' = "HELD" /\ sha # machine.eligible
      BY <1>4, <2>1, OpenHolds DEF SubmissionApplies, Payee
    <2>3. RecordedResult' = "NONE"
      BY <1>4, ResultIsGradeNext DEF Submission, NoGrade
    <2>4. QED
      BY <2>1, <2>2, <2>3 DEF Promise!Offer, Submission
  <1>5. QED
    BY <1>2, <1>3, <1>4

\* The start of a verification is a stutter.
LEMMA StartPromised ==
    ASSUME IInv, IInv', NEW sha \in Sha, NEW d \in DeliveryId, VerificationStarted(sha, d)
    PROVE  UNCHANGED Promise!evars
  <1> DEFINE after == [machine EXCEPT !.state = "VERIFYING"]
  <1>1. machine \in Machine /\ after \in Machine
        /\ VerificationStartApplies(machine, sha) \in BOOLEAN
    BY DEF IInv, TypeOK, VerificationStartApplies, IsTerminal, IsCurrent, Machine, TaskState
  <1>2. \/ SameDecision(machine, machine')
        \/ SameDecision(after, machine') /\ VerificationStartApplies(machine, sha)
    BY <1>1, HandleCases DEF VerificationStarted, OnVerificationStarted
  <1>3. CASE SameDecision(machine, machine')
    BY <1>3, Stutters DEF VerificationStarted
  <1>4. CASE SameDecision(after, machine') /\ VerificationStartApplies(machine, sha)
    <2>1. /\ machine.state = "SUBMITTED" /\ machine'.state = "VERIFYING"
          /\ machine'.eligible = machine.eligible
      BY <1>1, <1>4 DEF SameDecision, VerificationStartApplies, Machine
    <2>2. RecordedResult' = RecordedResult
      BY ResultIsGrade, ResultIsGradeNext DEF VerificationStarted
    <2>3. QED
      BY <2>1, <2>2 DEF Promise!evars, Payee, VerificationStarted
  <1>5. QED
    BY <1>2, <1>3, <1>4

\* A first result judges the artifact; with reproducible grading a second one
\* says the same.
LEMMA ResultPromised ==
    ASSUME Reproducible, IInv, IInv', NEW manifest \in Manifest, NEW d \in DeliveryId,
           VerificationCompleted(manifest, d)
    PROVE  Promise!Judge(manifest.verdict) \/ UNCHANGED Promise!evars
  <1> DEFINE after == [machine EXCEPT !.verified = manifest.sha, !.state = manifest.verdict]
             applies == VerificationApplies(machine, manifest)
  <1>0. manifest.sha \in Sha /\ manifest.verdict \in Verdict /\ manifest.sha # NoSha
    BY MachineAssumption
  <1>1. machine \in Machine /\ after \in Machine /\ applies \in BOOLEAN
    BY <1>0 DEF IInv, TypeOK, VerificationApplies, IsTerminal, IsCurrent, Machine,
                TaskState, Graded, Verdict
  <1>2. \/ SameDecision(machine, machine') /\ ~(d \notin machine.seen /\ applies)
        \/ SameDecision(after, machine') /\ d \notin machine.seen /\ applies
    BY <1>1, HandleCases DEF VerificationCompleted, OnVerificationCompleted
  <1>3. CASE SameDecision(machine, machine') /\ ~(d \notin machine.seen /\ applies)
    BY <1>3, Stutters DEF VerificationCompleted
  <1>4. CASE SameDecision(after, machine') /\ d \notin machine.seen /\ applies
    <2>1. /\ machine'.state = manifest.verdict
          /\ machine'.eligible = machine.eligible
          /\ machine.eligible = manifest.sha
      BY <1>1, <1>4 DEF SameDecision, Machine, VerificationApplies, IsCurrent
    <2>2. Payee = "HELD" /\ Payee' = "HELD"
      BY <1>0, <1>4, <2>1, OpenHolds DEF VerificationApplies, Payee, Verdict
    <2>3. RecordedResult = grade.verdict /\ RecordedResult' = manifest.verdict
      BY <1>4, ResultIsGrade, ResultIsGradeNext DEF VerificationCompleted
    <2>4. CASE grade = NoGrade
      BY <1>0, <2>1, <2>2, <2>3, <2>4
         DEF Promise!Judge, VerificationCompleted, NoGrade
    <2>5. CASE grade # NoGrade
      <3>1. grade.verdict = manifest.verdict
        BY <1>4, <2>1, <2>5
           DEF IInv, VerdictReported, ReportsAgree, VerdictBinding, VerificationApplies,
               VerificationCompleted
      <3>2. QED
        BY <2>1, <2>2, <2>3, <3>1 DEF Promise!evars, VerificationCompleted
    <2>6. QED
      BY <2>4, <2>5
  <1>5. QED
    BY <1>2, <1>3, <1>4

\* A settlement releases a PASS in time and returns everything else.
LEMMA SettlePromised ==
    ASSUME Reproducible, IInv, IInv', NEW manifest \in Manifest, NEW d \in DeliveryId,
           Settle(manifest, d)
    PROVE  Promise!Release \/ Promise!Return \/ UNCHANGED Promise!evars
  <1> DEFINE after == Settled(machine, manifest, clock)
             applies == SettlementApplies(machine, manifest)
  <1>0. manifest.sha \in Sha /\ manifest.verdict \in Verdict
    BY MachineAssumption
  <1>1. machine \in Machine /\ applies \in BOOLEAN /\ (applies => after \in Machine)
    BY <1>0
       DEF IInv, TypeOK, SettlementApplies, MaySettle, IsCurrent, MandateCovers, Settled,
           SettlementKey, Key, Machine, TaskState, Terminal, Graded, Verdict
  <1>2. \/ SameDecision(machine, machine') /\ ~(d \notin machine.seen /\ applies)
        \/ SameDecision(after, machine') /\ d \notin machine.seen /\ applies
    BY <1>1, HandleCases DEF Settle, OnSettlement
  <1>3. CASE SameDecision(machine, machine') /\ ~(d \notin machine.seen /\ applies)
    BY <1>3, Stutters DEF Settle
  <1>4. CASE SameDecision(after, machine') /\ d \notin machine.seen /\ applies
    <2>1. /\ machine'.state = IF clock <= Deadline /\ manifest.verdict = "PASS"
                              THEN "SETTLED" ELSE "REFUNDED"
          /\ machine'.eligible = machine.eligible
      BY <1>1, <1>4 DEF SameDecision, Settled, ExecuteMandate, Machine
    <2>2. machine.state \in Graded /\ Payee = "HELD"
      BY <1>4 DEF SettlementApplies, MaySettle, Payee, Graded
    <2>3. RecordedResult = grade.verdict /\ RecordedResult' = grade.verdict
      BY ResultIsGrade, ResultIsGradeNext DEF Settle
    <2>4. grade.verdict = manifest.verdict
      BY <1>4, <2>2
         DEF IInv, GradeIsState, VerdictReported, ReportsAgree, VerdictBinding,
             SettlementApplies, MaySettle, MandateCovers, Settle
    <2>5. CASE clock <= Deadline /\ manifest.verdict = "PASS"
      BY <2>1, <2>2, <2>3, <2>4, <2>5 DEF Promise!Release, Payee, Settle
    <2>6. CASE ~(clock <= Deadline /\ manifest.verdict = "PASS")
      <3>1. RecordedResult = "FAIL" \/ clock > Deadline
        BY <1>0, <2>3, <2>4, <2>6, DeadlineAssumption DEF Verdict, IInv, TypeOK
      <3>2. QED
        BY <2>1, <2>2, <2>3, <2>6, <3>1 DEF Promise!Return, Payee, Settle
    <2>7. QED
      BY <2>5, <2>6
  <1>5. QED
    BY <1>2, <1>3, <1>4

\* Expiry returns the funds after the deadline.
LEMMA DeadlinePromised ==
    ASSUME IInv, IInv', NEW d \in DeliveryId, DeadlinePoll(d)
    PROVE  Promise!Return \/ UNCHANGED Promise!evars
  <1> DEFINE after == [machine EXCEPT !.state = "EXPIRED"]
             applies == DeadlineApplies(machine, clock)
  <1>1. machine \in Machine /\ after \in Machine /\ applies \in BOOLEAN
    BY DEF IInv, TypeOK, DeadlineApplies, Machine, TaskState, Terminal
  <1>2. SameDecision(machine, machine') \/ (SameDecision(after, machine') /\ applies)
    BY <1>1, HandleCases DEF DeadlinePoll, OnDeadline
  <1>3. CASE SameDecision(machine, machine')
    BY <1>3, Stutters DEF DeadlinePoll
  <1>4. CASE SameDecision(after, machine') /\ applies
    <2>1. machine'.state = "EXPIRED" /\ machine'.eligible = machine.eligible
      BY <1>1, <1>4 DEF SameDecision, Machine
    <2>2. Payee = "HELD" /\ clock > Deadline
      BY <1>4, OpenHolds DEF DeadlineApplies, IsTerminal, MandateExpired
    <2>3. RecordedResult' = RecordedResult
      BY ResultIsGrade, ResultIsGradeNext DEF DeadlinePoll
    <2>4. QED
      BY <2>1, <2>2, <2>3 DEF Promise!Return, Payee, DeadlinePoll
  <1>5. QED
    BY <1>2, <1>3, <1>4

\* Time passes in both; a recorded transaction and a report are stutters.
LEMMA OthersPromised ==
    ASSUME IInv, IInv',
           (\E tx \in Tx : RecordTx(tx)) \/ (\E mf \in Manifest : Report(mf)) \/ Tick
           \/ UNCHANGED vars
    PROVE  Promise!Advance \/ UNCHANGED Promise!evars
  <1>0. machine \in Machine
    BY DEF IInv, TypeOK
  <1>1. ASSUME NEW tx \in Tx, RecordTx(tx) PROVE UNCHANGED Promise!evars
    <2>1. SameDecision(machine, machine')
      BY <1>0, <1>1
         DEF RecordTx, RecordSettlementTx, RecordTxApplies, IsTerminal, Machine, SameDecision
    <2>2. QED
      BY <1>1, <2>1, Stutters DEF RecordTx
  <1>2. ASSUME NEW mf \in Manifest, Report(mf) PROVE UNCHANGED Promise!evars
    BY <1>2, Stutters DEF Report, SameDecision
  <1>3. CASE Tick
    <2>1. RecordedResult' = RecordedResult
      BY <1>3, ResultIsGrade, ResultIsGradeNext DEF Tick
    <2>2. QED
      BY <1>3, <2>1 DEF Tick, Promise!Advance, Payee
  <1>4. CASE UNCHANGED vars
    BY <1>4, Stutters DEF vars, SameDecision
  <1>5. QED
    BY <1>1, <1>2, <1>3, <1>4

\* With reproducible grading TaskStateMachine implements the escrow promise: it
\* pays once, for the judged artifact, in time, or returns the money.
THEOREM KeepsThePromise ==
    ASSUME Reproducible
    PROVE  Spec => KeepsPromise
  <1>1. IInv /\ IInv' /\ [Next]_vars => [Promise!EscrowNext]_Promise!evars
    <2> SUFFICES ASSUME IInv, IInv', [Next]_vars
                 PROVE  Promise!EscrowNext \/ UNCHANGED Promise!evars
      OBVIOUS
    <2>1. ASSUME NEW sha \in Sha, NEW d \in DeliveryId, Submission(sha, d)
          PROVE  Promise!EscrowNext \/ UNCHANGED Promise!evars
      BY <2>1, SubmissionPromised DEF Promise!EscrowNext
    <2>2. ASSUME NEW sha \in Sha, NEW d \in DeliveryId, VerificationStarted(sha, d)
          PROVE  Promise!EscrowNext \/ UNCHANGED Promise!evars
      BY <2>2, StartPromised
    <2>3. ASSUME NEW mf \in Manifest, NEW d \in DeliveryId, VerificationCompleted(mf, d)
          PROVE  Promise!EscrowNext \/ UNCHANGED Promise!evars
      <3>1. mf.verdict \in {"PASS", "FAIL"}
        BY MachineAssumption DEF Verdict
      <3>2. QED
        BY <2>3, <3>1, ResultPromised DEF Promise!EscrowNext
    <2>4. ASSUME NEW mf \in Manifest, NEW d \in DeliveryId, Settle(mf, d)
          PROVE  Promise!EscrowNext \/ UNCHANGED Promise!evars
      BY <2>4, SettlePromised DEF Promise!EscrowNext
    <2>5. ASSUME NEW d \in DeliveryId, DeadlinePoll(d)
          PROVE  Promise!EscrowNext \/ UNCHANGED Promise!evars
      BY <2>5, DeadlinePromised DEF Promise!EscrowNext
    <2>6. CASE (\E tx \in Tx : RecordTx(tx)) \/ (\E mf \in Manifest : Report(mf)) \/ Tick
               \/ UNCHANGED vars
      BY <2>6, OthersPromised DEF Promise!EscrowNext
    <2>7. QED
      BY <2>1, <2>2, <2>3, <2>4, <2>5, <2>6 DEF Next
  <1>2. QED
    BY <1>1, PromiseInit, Invariance, PTL DEF Spec, KeepsPromise, Promise!EscrowSpec

=============================================================================
