-------------------------- MODULE TaskStoreProofs ---------------------------
(***************************************************************************)
(* Proofs about TaskStore for any number of handlers, events and attempts: *)
(* no event that was applied is lost, and however requests interleave,     *)
(* retry and crash, one directive at most reaches a caller. What carries   *)
(* the invariants over a commit is SnapshotFresh: a transaction that may   *)
(* commit holds the document as it stands.                                 *)
(***************************************************************************)
EXTENDS TaskStore, TLAPS

-----------------------------------------------------------------------------
(* What an event does to a document *)

\* A handler remembers the delivery and forgets none, whether it applies or not.
LEMMA HandleRemembers ==
    ASSUME NEW m \in Machine, NEW d \in DeliveryId, NEW applies \in BOOLEAN, NEW after,
           applies => after \in Machine /\ after.seen = m.seen
    PROVE  LET n == Handle(m, d, applies, after)
           IN  /\ n \in Machine
               /\ m.seen \subseteq n.seen
               /\ {d} \cap Delivery \subseteq n.seen
               /\ \/ n.state = m.state /\ n.key = m.key
                  \/ d \notin m.seen /\ applies
               /\ d \notin m.seen /\ applies => n.state = after.state /\ n.key = after.key
  <1>1. CASE d \in m.seen
    BY <1>1 DEF Handle, Machine
  <1>2. CASE d \notin m.seen /\ applies
    <2>1. Handle(m, d, applies, after) = Record(after, d)
      BY <1>2 DEF Handle
    <2>2. after \in Machine /\ after.seen = m.seen
      BY <1>2
    <2>3. /\ Record(after, d) \in Machine
          /\ Record(after, d).state = after.state /\ Record(after, d).key = after.key
          /\ Record(after, d).seen = m.seen \cup ({d} \cap Delivery)
      BY <2>2 DEF Record, Machine
    <2>4. QED
      BY <1>2, <2>1, <2>3
  <1>3. CASE d \notin m.seen /\ ~applies
    <2>1. Handle(m, d, applies, after) = Record(m, d)
      BY <1>3 DEF Handle
    <2>2. /\ Record(m, d) \in Machine
          /\ Record(m, d).state = m.state /\ Record(m, d).key = m.key
          /\ Record(m, d).seen = m.seen \cup ({d} \cap Delivery)
      BY DEF Record, Machine
    <2>3. QED
      BY <1>3, <2>1, <2>2
  <1>4. QED
    BY <1>1, <1>2, <1>3

\* An event leaves a document that remembers it; a closed task stays as it is
\* and directs nothing; whatever directs, closes, and is on record.
LEMMA EffectRemembers ==
    ASSUME NEW m \in Machine, NEW e \in Event
    PROVE  LET n == Effect(m, e)
           IN  /\ n \in Machine
               /\ m.seen \subseteq n.seen
               /\ {e.id} \cap Delivery \subseteq n.seen
               /\ IsTerminal(m) => n.state = m.state /\ n.key = m.key /\ ~Directs(m, e)
               /\ Directs(m, e) => ClosedBy(n, e)
  <1>1. e.kind \in Kind /\ e.id \in DeliveryId
    BY StoreAssumption
  <1>2. CASE e.kind = "submission"
    <2> DEFINE applies == SubmissionApplies(m, e.sha)
    <2>1. e.sha \in Sha
      BY <1>2, StoreAssumption
    <2>2. applies => Submitted(m, e.sha) \in Machine /\ Submitted(m, e.sha).seen = m.seen
      BY <2>1 DEF Submitted, Machine, TaskState, Graded, SubmissionApplies
    <2>3. applies \in BOOLEAN /\ (applies => ~IsTerminal(m))
      BY DEF SubmissionApplies, IsTerminal
    <2>4. Effect(m, e) = Handle(m, e.id, applies, Submitted(m, e.sha)) /\ ~Directs(m, e)
      BY <1>2 DEF Effect, OnSubmission, Directs
    <2>5. QED
      BY <1>1, <2>2, <2>3, <2>4, HandleRemembers
  <1>3. CASE e.kind = "started"
    <2> DEFINE applies == VerificationStartApplies(m, e.sha)
               after == [m EXCEPT !.state = "VERIFYING"]
    <2>1. after \in Machine /\ after.seen = m.seen
      BY DEF Machine, TaskState
    <2>2. applies \in BOOLEAN /\ (applies => ~IsTerminal(m))
      BY DEF VerificationStartApplies, IsTerminal
    <2>3. Effect(m, e) = Handle(m, e.id, applies, after) /\ ~Directs(m, e)
      BY <1>3 DEF Effect, OnVerificationStarted, Directs
    <2> HIDE DEF after
    <2>4. QED
      BY <1>1, <2>1, <2>2, <2>3, HandleRemembers
  <1>4. CASE e.kind = "result"
    <2> DEFINE applies == VerificationApplies(m, e.manifest)
               after == [m EXCEPT !.verified = e.manifest.sha, !.state = e.manifest.verdict]
    <2>1. e.manifest.sha \in Sha /\ e.manifest.verdict \in Verdict
      BY <1>4, StoreAssumption, MachineAssumption
    <2>2. after \in Machine /\ after.seen = m.seen
      BY <2>1 DEF Machine, TaskState, Graded, Verdict
    <2>3. applies \in BOOLEAN /\ (applies => ~IsTerminal(m))
      BY DEF VerificationApplies, IsTerminal
    <2>4. Effect(m, e) = Handle(m, e.id, applies, after) /\ ~Directs(m, e)
      BY <1>4 DEF Effect, OnVerificationCompleted, Directs
    <2> HIDE DEF after
    <2>5. QED
      BY <1>1, <2>2, <2>3, <2>4, HandleRemembers
  <1>5. CASE e.kind = "settle"
    <2> DEFINE applies == SettlementApplies(m, e.manifest)
               after == Settled(m, e.manifest, e.now)
    <2>1. e.manifest.sha \in Sha
      BY <1>5, StoreAssumption, MachineAssumption
    <2>2. applies => m.state \in Verdict /\ ~IsTerminal(m)
      BY DEF SettlementApplies, MaySettle, Graded, Verdict, IsTerminal, Terminal
    <2>3. applies => /\ SettlementKey(e.manifest.sha, m.state) \in Key
                     /\ SettlementKey(e.manifest.sha, m.state).sha = e.manifest.sha
      BY <2>1, <2>2 DEF SettlementKey, Key
    <2>4. applies => after \in Machine /\ after.seen = m.seen /\ ClosedBy(after, e)
      <3> DEFINE key == SettlementKey(e.manifest.sha, m.state)
                 closed == IF ExecuteMandate(e.manifest, e.now) = "release"
                           THEN "SETTLED" ELSE "REFUNDED"
      <3>1. after = [m EXCEPT !.key = key, !.state = closed]
        BY Zenon DEF Settled
      <3>2. closed \in TaskState
        BY DEF TaskState, Terminal
      <3> HIDE DEF key, closed, after
      <3>3. applies => /\ after \in Machine /\ after.seen = m.seen
                       /\ after.key = key /\ after.state = closed
        BY <2>3, <3>1, <3>2 DEF Machine, key
      <3>4. QED
        BY <1>5, <2>3, <3>3, KeyAssumption DEF ClosedBy, key, closed
    <2>5. applies \in BOOLEAN
      BY DEF SettlementApplies, MaySettle, MandateCovers
    <2>6. /\ Effect(m, e) = Handle(m, e.id, applies, after)
          /\ Directs(m, e) <=> e.id \notin m.seen /\ applies
      BY <1>5 DEF Effect, OnSettlement, Directs
    <2>7. QED
      BY <1>1, <2>2, <2>4, <2>5, <2>6, HandleRemembers DEF ClosedBy
  <1>6. CASE e.kind = "deadline"
    <2> DEFINE applies == DeadlineApplies(m, e.now)
               after == [m EXCEPT !.state = "EXPIRED"]
    <2>1. after \in Machine /\ after.seen = m.seen /\ after.state = "EXPIRED"
      BY DEF Machine, TaskState, Terminal
    <2>2. applies \in BOOLEAN /\ (applies => ~IsTerminal(m))
      BY DEF DeadlineApplies, IsTerminal
    <2>3. /\ Effect(m, e) = Handle(m, e.id, applies, after)
          /\ Directs(m, e) <=> e.id \notin m.seen /\ applies
      BY <1>6 DEF Effect, OnDeadline, Directs
    <2> HIDE DEF after
    <2>4. QED
      BY <1>1, <1>6, <2>1, <2>2, <2>3, HandleRemembers DEF ClosedBy
  <1>7. QED
    BY <1>1, <1>2, <1>3, <1>4, <1>5, <1>6 DEF Kind
-----------------------------------------------------------------------------
(* The inductive step *)

\* A committed event: the others' snapshots go stale, the document gains a
\* delivery, and a directive can only be the first.
LEMMA CommitKeeps ==
    ASSUME IInv, NEW w \in Worker, Commit(w)
    PROVE  IInv'
  <1> DEFINE e == event[w]
             m == snapshot[w]
  <1> USE DEF IInv
  <1>1. step[w] = "read" /\ e \in Event /\ m = doc /\ m # NoDoc /\ m \in Machine
    BY DEF Commit, CanCommit, Underway, SnapshotFresh, TypeOK
  <1>2. /\ doc' = Effect(m, e)
        /\ \A v \in Worker \ {w} : step'[v] = step[v] /\ snapshot'[v] = snapshot[v]
        /\ \A v \in Worker : v # w /\ step[v] = "read" => v \in stale'
        /\ event' = event /\ acked' = acked /\ handed' = handed
    BY DEF Commit, TypeOK, Reading
  <1>3. /\ step'[w] = IF Directs(m, e) THEN "directive" ELSE "done"
        /\ snapshot'[w] = NoDoc
    BY DEF Commit, TypeOK
  <1>4. /\ doc' \in Machine /\ doc' # NoDoc
        /\ doc.seen \subseteq doc'.seen
        /\ {e.id} \cap Delivery \subseteq doc'.seen
        /\ IsTerminal(doc) => doc'.state = doc.state /\ doc'.key = doc.key /\ ~Directs(m, e)
        /\ Directs(m, e) => ClosedBy(doc', e)
    BY <1>1, <1>2, EffectRemembers, StoreAssumption
  <1>5. TypeOK'
    BY <1>4, StoreAssumption DEF Commit, TypeOK, Reading
  <1> HIDE DEF e, m
  <1>6. \A f \in Event : ClosedBy(doc, f) => ClosedBy(doc', f) /\ ~Directs(m, e)
    BY <1>4 DEF ClosedBy, IsTerminal, Terminal
  <1>7. Underway' /\ SnapshotFresh'
    BY <1>1, <1>2, <1>3 DEF Underway, SnapshotFresh, e
  <1>8. CommittedIsDurable'
    <2>1. ASSUME NEW v \in Worker, step'[v] \in {"done", "directive"}
          PROVE  {event'[v].id} \cap Delivery \subseteq doc'.seen
      <3>1. CASE v = w
        BY <1>2, <1>4, <3>1 DEF e
      <3>2. CASE v # w
        BY <1>2, <1>4, <2>1, <3>2 DEF CommittedIsDurable
      <3>3. QED
        BY <3>1, <3>2
    <2>2. QED
      BY <1>4, <2>1 DEF CommittedIsDurable
  <1>9. AppliedIsDurable'
    BY <1>1, <1>2, <1>4 DEF AppliedIsDurable
  <1>10. OneDirectivePending'
    <2>1. CASE Directs(m, e)
      <3>1. /\ \A v \in Worker : step[v] # "directive"
            /\ handed = {}
        BY <1>1, <1>6, <2>1 DEF OneDirectivePending, OneDirectiveHanded, Underway, TypeOK
      <3>2. ClosedBy(doc', event'[w]) /\ handed' = {}
        BY <1>2, <1>4, <2>1, <3>1 DEF e
      <3>3. QED
        BY <1>2, <1>4, <3>1, <3>2 DEF OneDirectivePending
    <2>2. CASE ~Directs(m, e)
      <3>1. step'[w] = "done"
        BY <1>3, <2>2
      <3>2. \A v \in Worker : step'[v] = "directive" =>
                step[v] = "directive" /\ event'[v] = event[v] /\ event[v] \in Event
        BY <1>2, <3>1 DEF Underway
      <3>3. QED
        BY <1>1, <1>2, <1>4, <1>6, <3>2 DEF OneDirectivePending
    <2>3. QED
      BY <2>1, <2>2
  <1>11. OneDirectiveHanded'
    <2>1. \A f \in handed : f \in Event
      BY DEF TypeOK
    <2>2. QED
      BY <1>2, <1>4, <1>6, <2>1 DEF OneDirectiveHanded
  <1>12. QED
    BY <1>5, <1>7, <1>8, <1>9, <1>10, <1>11

\* A request that ends leaves the others as they are.
LEMMA FinishKeeps ==
    ASSUME IInv, NEW w \in Worker, Finish(w), UNCHANGED doc
    PROVE  /\ step' \in [Worker -> {"idle", "read", "done", "directive"}]
           /\ event' \in [Worker -> Event \cup {NoEvent}]
           /\ snapshot' \in [Worker -> Machine \cup {NoDoc}]
           /\ stale' \subseteq Worker
           /\ attempts' \in [Worker -> 0 .. MaxAttempts]
           /\ Underway' /\ SnapshotFresh' /\ CommittedIsDurable'
           /\ step'[w] = "idle"
           /\ \A v \in Worker \ {w} : step'[v] = step[v] /\ event'[v] = event[v]
  <1> USE DEF IInv
  <1>1. /\ \A v \in Worker \ {w} : step'[v] = step[v] /\ snapshot'[v] = snapshot[v]
                                   /\ event'[v] = event[v]
        /\ step'[w] = "idle"
        /\ stale' = stale \ {w}
    BY DEF Finish, TypeOK
  <1>2. Underway' /\ SnapshotFresh' /\ CommittedIsDurable'
    BY <1>1 DEF Underway, SnapshotFresh, CommittedIsDurable
  <1>3. QED
    BY <1>1, <1>2, StoreAssumption DEF Finish, TypeOK

\* A request that ends without an answer takes nothing with it.
LEMMA SilentKeeps ==
    ASSUME IInv, NEW w \in Worker, Finish(w), UNCHANGED <<doc, acked, handed>>
    PROVE  IInv'
  <1> USE DEF IInv
  <1>1. TypeOK' /\ Underway' /\ SnapshotFresh' /\ CommittedIsDurable'
    BY FinishKeeps DEF TypeOK
  <1>2. OneDirectivePending'
    BY FinishKeeps DEF OneDirectivePending
  <1>3. AppliedIsDurable' /\ OneDirectiveHanded'
    BY DEF AppliedIsDurable, OneDirectiveHanded
  <1>4. QED
    BY <1>1, <1>2, <1>3

\* An answer: what is acknowledged was committed, what is handed was pending.
LEMMA ReplyKeeps ==
    ASSUME IInv, NEW w \in Worker, Reply(w)
    PROVE  IInv'
  <1> USE DEF IInv
  <1>1. /\ step[w] \in {"done", "directive"} /\ event[w] \in Event
        /\ doc' = doc /\ Finish(w)
        /\ acked' = acked \cup ({event[w].id} \cap Delivery)
        /\ handed' = IF step[w] = "directive" THEN handed \cup {event[w]} ELSE handed
    BY DEF Reply, Underway
  <1>2. TypeOK' /\ Underway' /\ SnapshotFresh' /\ CommittedIsDurable'
    BY <1>1, FinishKeeps DEF TypeOK
  <1>3. OneDirectivePending' /\ OneDirectiveHanded'
    <2>1. CASE step[w] = "directive"
      BY <1>1, <2>1, FinishKeeps DEF OneDirectivePending, OneDirectiveHanded
    <2>2. CASE step[w] = "done"
      BY <1>1, <2>2, FinishKeeps DEF OneDirectivePending, OneDirectiveHanded
    <2>3. QED
      BY <1>1, <2>1, <2>2
  <1>4. AppliedIsDurable'
    BY <1>1 DEF AppliedIsDurable, CommittedIsDurable
  <1>5. QED
    BY <1>2, <1>3, <1>4

\* A push: nothing is written, and its delivery is a push's.
LEMMA AnswerPushKeeps ==
    ASSUME IInv, NEW w \in Worker, AnswerPush(w)
    PROVE  IInv'
  <1> USE DEF IInv
  <1>1. /\ event[w] \in WebhookEvent /\ doc' = doc /\ handed' = handed /\ Finish(w)
        /\ acked' = acked \cup ({event[w].id} \cap Delivery)
    BY DEF AnswerPush
  <1>2. TypeOK' /\ Underway' /\ SnapshotFresh' /\ CommittedIsDurable'
    BY <1>1, FinishKeeps DEF TypeOK
  <1>3. OneDirectivePending' /\ OneDirectiveHanded'
    BY <1>1, FinishKeeps DEF OneDirectivePending, OneDirectiveHanded
  <1>4. AppliedIsDurable'
    BY <1>1 DEF AppliedIsDurable, PushDelivery
  <1>5. QED
    BY <1>2, <1>3, <1>4

\* A document read, first or again.
LEMMA ReadKeeps ==
    ASSUME IInv, NEW w \in Worker,
           (\E e \in Event : Receive(w, e)) \/ Retry(w)
    PROVE  IInv'
  <1> USE DEF IInv
  <1>1. /\ doc' = doc /\ acked' = acked /\ handed' = handed
        /\ \A v \in Worker \ {w} : step'[v] = step[v] /\ snapshot'[v] = snapshot[v]
                                   /\ event'[v] = event[v]
        /\ step'[w] = "read" /\ snapshot'[w] = doc /\ event'[w] \in Event
        /\ \A v \in Worker : v # w /\ v \notin stale' => v \notin stale
    BY DEF Receive, Retry, TypeOK, Underway
  <1>2. TypeOK'
    <2>1. attempts' \in [Worker -> 0 .. MaxAttempts]
      <3>1. CASE \E e \in Event : Receive(w, e)
        BY <3>1, StoreAssumption DEF Receive, TypeOK
      <3>2. CASE Retry(w)
        BY <3>2, StoreAssumption DEF Retry, MayRetry, Attempt, TypeOK
      <3>3. QED
        BY <3>1, <3>2
    <2>2. QED
      BY <2>1 DEF Receive, Retry, TypeOK
  <1>3. Underway' /\ SnapshotFresh' /\ CommittedIsDurable'
    BY <1>1 DEF Underway, SnapshotFresh, CommittedIsDurable
  <1>4. OneDirectivePending' /\ AppliedIsDurable' /\ OneDirectiveHanded'
    BY <1>1 DEF OneDirectivePending, AppliedIsDurable, OneDirectiveHanded
  <1>5. QED
    BY <1>2, <1>3, <1>4

\* Funding: until then nothing was committed and nothing answered.
LEMMA FundKeeps ==
    ASSUME IInv, Fund
    PROVE  IInv'
  <1> USE DEF IInv
  <1>1. NewMachine \in Machine
    BY DEF NewMachine, Machine, TaskState
  <1>2. /\ doc = NoDoc /\ doc' \in Machine /\ doc' # NoDoc
        /\ stale' = Reading
        /\ UNCHANGED <<step, event, snapshot, attempts, acked, handed>>
    BY <1>1, StoreAssumption DEF Fund
  <1>3. TypeOK' /\ Underway'
    BY <1>2 DEF TypeOK, Underway, Reading
  <1>4. SnapshotFresh' /\ CommittedIsDurable' /\ OneDirectivePending'
    BY <1>2 DEF SnapshotFresh, CommittedIsDurable, OneDirectivePending, Reading
  <1>5. AppliedIsDurable' /\ OneDirectiveHanded'
    BY <1>2 DEF AppliedIsDurable, OneDirectiveHanded
  <1>6. QED
    BY <1>3, <1>4, <1>5

-----------------------------------------------------------------------------
(* Theorems *)

\* The invariant holds of every reachable state.
THEOREM Invariance == Spec => []IInv
  <1>1. Init => IInv
    BY StoreAssumption
       DEF Init, IInv, TypeOK, Underway, SnapshotFresh, CommittedIsDurable,
           OneDirectivePending, AppliedIsDurable, OneDirectiveHanded
  <1>2. IInv /\ [Next]_vars => IInv'
    <2> SUFFICES ASSUME IInv, [Next]_vars
                 PROVE  IInv'
      OBVIOUS
    <2>1. CASE Fund
      BY <2>1, FundKeeps
    <2>2. ASSUME NEW w \in Worker, Work(w)
          PROVE  IInv'
      <3>1. CASE Commit(w)
        BY <3>1, CommitKeeps
      <3>2. CASE Retry(w)
        BY <3>2, ReadKeeps
      <3>3. CASE Fail(w)
        BY <3>3, SilentKeeps DEF Fail
      <3>4. CASE Unknown(w)
        BY <3>4, SilentKeeps DEF Unknown
      <3>5. CASE Reply(w)
        BY <3>5, ReplyKeeps
      <3>6. CASE AnswerPush(w)
        BY <3>6, AnswerPushKeeps
      <3>7. QED
        BY <2>2, <3>1, <3>2, <3>3, <3>4, <3>5, <3>6 DEF Work
    <2>3. ASSUME NEW w \in Worker, Crash(w)
          PROVE  IInv'
      BY <2>3, SilentKeeps DEF Crash
    <2>4. ASSUME NEW w \in Worker, NEW e \in Event, Receive(w, e)
          PROVE  IInv'
      BY <2>4, ReadKeeps
    <2>5. CASE UNCHANGED vars
      BY <2>5 DEF vars, IInv, TypeOK, Underway, SnapshotFresh, CommittedIsDurable,
                  OneDirectivePending, AppliedIsDurable, OneDirectiveHanded
    <2>6. QED
      BY <2>1, <2>2, <2>3, <2>4, <2>5 DEF Next
  <1>3. QED
    BY <1>1, <1>2, PTL DEF Spec

\* The variables keep their types, the attempts their bound.
THEOREM TypeCorrect == Spec => []TypeOK
  <1>1. IInv => TypeOK
    BY DEF IInv
  <1>2. QED
    BY <1>1, Invariance, PTL

\* An event a caller was told of survives every later write and every crash.
THEOREM NoEventLost == Spec => []AppliedIsDurable
  <1>1. IInv => AppliedIsDurable
    BY DEF IInv
  <1>2. QED
    BY <1>1, Invariance, PTL

\* Redelivery, contention and crashes together hand out one directive at most,
\* and none for a task that is open.
THEOREM OneDirective == Spec => []OneDirectiveHanded
  <1>1. IInv => OneDirectiveHanded
    BY DEF IInv
  <1>2. QED
    BY <1>1, Invariance, PTL

-----------------------------------------------------------------------------
(* The refinement of AtomicTask *)

\* Steps that commit nothing and answer nothing leave the abstract store as it is.
LEMMA HiddenStep ==
    ASSUME TypeOK, NEW w \in Worker, UNCHANGED <<doc, acked, handed>>,
           \A v \in Worker \ {w} : step'[v] = step[v] /\ event'[v] = event[v],
           step[w] \in {"idle", "read"}, step'[w] \in {"idle", "read"}
    PROVE  UNCHANGED Atomic!avars
  <1>1. \A v \in Worker : step'[v] \in {"done", "directive"} <=> step[v] \in {"done", "directive"}
    OBVIOUS
  <1>2. \A v \in Worker : step[v] \in {"done", "directive"} => Outcome(v)' = Outcome(v)
    BY DEF Outcome
  <1>3. Outcomes' = Outcomes
    BY <1>1, <1>2 DEF Outcomes
  <1>4. QED
    BY <1>3 DEF Atomic!avars, PushDelivery

\* A commit is the instant at which the store runs the event.
LEMMA CommitServes ==
    ASSUME IInv, NEW w \in Worker, Commit(w)
    PROVE  Atomic!Serve(w, event[w]) /\ event[w] \in Event \ WebhookEvent
  <1>1. /\ step[w] = "read" /\ event[w] \in Event \ WebhookEvent
        /\ snapshot[w] = doc /\ doc # NoDoc /\ ~Raises(doc, event[w])
        /\ doc' = Effect(doc, event[w])
    BY DEF Commit, CanCommit, IInv, Underway, SnapshotFresh
  <1>2. /\ step'[w] = IF Directs(doc, event[w]) THEN "directive" ELSE "done"
        /\ \A v \in Worker \ {w} : step'[v] = step[v]
        /\ event' = event /\ acked' = acked /\ handed' = handed
    BY <1>1 DEF Commit, IInv, TypeOK
  <1>3. Directs(doc, event[w]) \in BOOLEAN
    BY DEF Directs, SettlementApplies, DeadlineApplies
  <1>4. Outcome(w)' = [request |-> w, event |-> event[w], directs |-> Directs(doc, event[w])]
    BY <1>2, <1>3 DEF Outcome
  <1>5. \A v \in Worker \ {w} : Outcome(v)' = Outcome(v)
    BY <1>2 DEF Outcome
  <1>6. Outcomes' = Outcomes \cup {Outcome(w)'}
    BY <1>1, <1>2, <1>5 DEF Outcomes
  <1>7. \A o \in Outcomes : o.request # w
    BY <1>1 DEF Outcomes, Outcome
  <1>8. QED
    BY <1>1, <1>2, <1>4, <1>6, <1>7 DEF Atomic!Serve, PushDelivery

\* The outcome of a request leaves with the request.
LEMMA OutcomeLeaves ==
    ASSUME IInv, NEW w \in Worker, Finish(w), step[w] \in {"done", "directive"}
    PROVE  Outcome(w) \in Outcomes /\ Outcomes' = Outcomes \ {Outcome(w)}
  <1>1. /\ step'[w] = "idle"
        /\ \A v \in Worker \ {w} : step'[v] = step[v] /\ event'[v] = event[v]
    BY DEF Finish, IInv, TypeOK
  <1>2. \A v \in Worker \ {w} : Outcome(v)' = Outcome(v) /\ Outcome(v) # Outcome(w)
    BY <1>1 DEF Outcome
  <1>3. QED
    BY <1>1, <1>2 DEF Outcomes

\* The store implements AtomicTask: no write of another request is ever overwritten, an
\* attempt that does not commit leaves no trace, and what a caller is told is what the
\* run of its event said (AtomicEvents).
THEOREM Atomicity == Spec => AtomicEvents
  <1>1. Init => Atomic!Init
    <2> SUFFICES ASSUME Init PROVE Atomic!Init
      OBVIOUS
    <2>1. Outcomes = {}
      BY DEF Init, Outcomes
    <2>2. QED
      BY <2>1 DEF Init, Atomic!Init
  <1>2. IInv /\ [Next]_vars => [Atomic!Next]_Atomic!avars
    <2> SUFFICES ASSUME IInv, [Next]_vars
                 PROVE  Atomic!Next \/ UNCHANGED Atomic!avars
      OBVIOUS
    <2>1. CASE Fund
      <3>1. Outcomes' = Outcomes
        BY <2>1 DEF Fund, Outcomes, Outcome
      <3>2. Atomic!Create
        BY <2>1, <3>1 DEF Fund, Atomic!Create, PushDelivery
      <3>3. QED
        BY <3>2 DEF Atomic!Next
    <2>2. ASSUME NEW w \in Worker, Commit(w)
          PROVE  Atomic!Next
      BY <2>2, CommitServes DEF Atomic!Next
    <2>3. ASSUME NEW w \in Worker, Reply(w)
          PROVE  Atomic!Next
      <3>1. /\ step[w] \in {"done", "directive"} /\ Finish(w) /\ doc' = doc
            /\ acked' = acked \cup ({event[w].id} \cap Delivery)
            /\ handed' = IF step[w] = "directive" THEN handed \cup {event[w]} ELSE handed
        BY <2>3 DEF Reply
      <3>2. Outcome(w) \in Outcomes /\ Outcomes' = Outcomes \ {Outcome(w)}
        BY <3>1, OutcomeLeaves
      <3>3. Outcome(w).event = event[w] /\ Outcome(w).directs = (step[w] = "directive")
        BY DEF Outcome
      <3>4. Atomic!Tell(Outcome(w))
        BY <3>1, <3>2, <3>3 DEF Atomic!Tell, AppliedId, PushDelivery
      <3>5. QED
        BY <3>2, <3>4 DEF Atomic!Next
    <2>4. ASSUME NEW w \in Worker, Crash(w), step[w] \in {"done", "directive"}
          PROVE  Atomic!Next
      <3>1. Outcome(w) \in Outcomes /\ Outcomes' = Outcomes \ {Outcome(w)}
        BY <2>4, OutcomeLeaves DEF Crash
      <3>2. Atomic!Lose(Outcome(w))
        BY <2>4, <3>1 DEF Crash, Atomic!Lose, PushDelivery
      <3>3. QED
        BY <3>1, <3>2 DEF Atomic!Next
    <2>5. ASSUME NEW w \in Worker,
                 \/ Retry(w) \/ Fail(w) \/ Unknown(w) \/ Crash(w)
                 \/ \E e \in Event : Receive(w, e),
                 step[w] \in {"idle", "read"}
          PROVE  UNCHANGED Atomic!avars
      <3>1. /\ UNCHANGED <<doc, acked, handed>> /\ step'[w] \in {"idle", "read"}
            /\ \A v \in Worker \ {w} : step'[v] = step[v] /\ event'[v] = event[v]
        BY <2>5 DEF Retry, Fail, Unknown, Crash, Receive, Finish, IInv, TypeOK
      <3>2. QED
        BY <2>5, <3>1, HiddenStep DEF IInv
    <2>6. ASSUME NEW w \in Worker, AnswerPush(w)
          PROVE  UNCHANGED Atomic!avars
      <3>1. /\ UNCHANGED <<doc, handed>> /\ step[w] = "read" /\ step'[w] = "idle"
            /\ acked' \ PushDelivery = acked \ PushDelivery
            /\ \A v \in Worker \ {w} : step'[v] = step[v] /\ event'[v] = event[v]
        BY <2>6 DEF AnswerPush, Finish, IInv, TypeOK, PushDelivery
      <3>2. Outcomes' = Outcomes
        BY <3>1 DEF Outcomes, Outcome
      <3>3. QED
        BY <3>1, <3>2 DEF Atomic!avars, PushDelivery
    <2>7. CASE UNCHANGED vars
      BY <2>7 DEF vars, Atomic!avars, Outcomes, Outcome, PushDelivery
    <2>8. \A w \in Worker : step[w] \in {"idle", "read", "done", "directive"}
      BY DEF IInv, TypeOK
    <2>9. QED
      BY <2>1, <2>2, <2>3, <2>4, <2>5, <2>6, <2>7, <2>8
         DEF Next, Work, Retry, Fail, Unknown, Receive
  <1>3. QED
    BY <1>1, <1>2, Invariance, PTL DEF Spec, AtomicEvents, Atomic!Spec

=============================================================================
