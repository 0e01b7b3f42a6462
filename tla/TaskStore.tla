----------------------------- MODULE TaskStore ------------------------------
(***************************************************************************)
(* FirestoreTaskStore (mergegate/store.py) under concurrent requests: one  *)
(* document per task, each event applied inside a transaction that reads   *)
(* the document, runs the handler on a rebuilt machine and writes it back. *)
(* Request handlers crash, contend and are asked again by redelivery. A    *)
(* push takes the path app.py gives the webhook: the handler runs on what  *)
(* store.get returned, and nothing is written back.                        *)
(*                                                                         *)
(* Firestore is external: a transaction commits only if nothing wrote the  *)
(* document since it was read, and is otherwise run again, a bounded       *)
(* number of times.                                                        *)
(***************************************************************************)
EXTENDS TaskMachine

CONSTANTS
    Worker,         \* request handlers, on any number of instances
    Event,          \* what may be delivered, any number of times each
    WebhookEvent,   \* the events that arrive as GitHub pushes
    NoEvent,
    NoDoc,          \* the task has not been funded
    MaxAttempts     \* google.cloud.firestore's bound on attempts

Kind == {"submission", "started", "result", "settle", "deadline"}

ASSUME StoreAssumption ==
    /\ MaxAttempts \in Nat \ {0}
    /\ WebhookEvent \subseteq Event
    /\ NoEvent \notin Event
    /\ NoDoc \notin Machine
    /\ \A e \in Event :
          /\ e.kind \in Kind
          /\ e.id \in DeliveryId
          /\ e.now \in Nat
          /\ e.kind \in {"submission", "started"} => e.sha \in Sha
          /\ e.kind \in {"result", "settle"} => e.manifest \in Manifest

VARIABLES
    doc,        \* the task's document, NoDoc before fund() put one
    step,       \* how far each request is
    event,      \* the event it carries
    snapshot,   \* the machine it rebuilt from the document it read
    stale,      \* requests whose document was written since they read it
    attempts,   \* transaction attempts so far
    acked,      \* deliveries whose caller was told they were handled
    handed      \* events whose directive reached a caller

vars == <<doc, step, event, snapshot, stale, attempts, acked, handed>>

-----------------------------------------------------------------------------
(* Events *)

\* The callback apply() is given, and the handler a push runs.
Effect(m, e) ==
    CASE e.kind = "submission" -> OnSubmission(m, e.sha, e.id)
      [] e.kind = "started" -> OnVerificationStarted(m, e.sha, e.id)
      [] e.kind = "result" -> OnVerificationCompleted(m, e.manifest, e.id)
      [] e.kind = "settle" -> OnSettlement(m, e.manifest, e.now, e.id)
      [] e.kind = "deadline" -> OnDeadline(m, e.now, e.id)

PushDelivery == {e.id : e \in WebhookEvent}

Raises(m, e) == e.kind = "settle" /\ SettlementRaises(m, e.manifest, e.id)

\* EventOutcome.directive is set.
Directs(m, e) ==
    /\ e.id \notin m.seen
    /\ \/ e.kind = "settle" /\ SettlementApplies(m, e.manifest)
       \/ e.kind = "deadline" /\ DeadlineApplies(m, e.now)

-----------------------------------------------------------------------------

Init ==
    /\ doc = NoDoc
    /\ step = [w \in Worker |-> "idle"]
    /\ event = [w \in Worker |-> NoEvent]
    /\ snapshot = [w \in Worker |-> NoDoc]
    /\ stale = {}
    /\ attempts = [w \in Worker |-> 0]
    /\ acked = {}
    /\ handed = {}

\* Requests that have read the document and not decided yet.
Reading == {w \in Worker : step[w] = "read"}

\* fund() puts the new machine.
Fund ==
    /\ doc = NoDoc
    /\ doc' = NewMachine
    /\ stale' = Reading
    /\ UNCHANGED <<step, event, snapshot, attempts, acked, handed>>

\* A delivery reaches a free handler, which reads the document, in the
\* transaction or by store.get.
Receive(w, e) ==
    /\ step[w] = "idle"
    /\ step' = [step EXCEPT ![w] = "read"]
    /\ event' = [event EXCEPT ![w] = e]
    /\ snapshot' = [snapshot EXCEPT ![w] = doc]
    /\ attempts' = [attempts EXCEPT ![w] = 1]
    /\ UNCHANGED <<doc, stale, acked, handed>>

Finish(w) ==
    /\ step' = [step EXCEPT ![w] = "idle"]
    /\ event' = [event EXCEPT ![w] = NoEvent]
    /\ snapshot' = [snapshot EXCEPT ![w] = NoDoc]
    /\ attempts' = [attempts EXCEPT ![w] = 0]
    /\ stale' = stale \ {w}

\* Mutant: the write does not depend on what was written since the read.
MutantCanCommit(w) == TRUE

CanCommit(w) == w \notin stale

\* The handler ran on the snapshot and the transaction commits its result.
Commit(w) ==
    LET e == event[w]
        m == snapshot[w]
    IN  /\ step[w] = "read" /\ e \notin WebhookEvent
        /\ m # NoDoc /\ ~Raises(m, e)
        /\ CanCommit(w)
        /\ doc' = Effect(m, e)
        /\ stale' = Reading \ {w}
        /\ step' = [step EXCEPT ![w] = IF Directs(m, e) THEN "directive" ELSE "done"]
        /\ snapshot' = [snapshot EXCEPT ![w] = NoDoc]
        /\ attempts' = [attempts EXCEPT ![w] = 0]
        /\ UNCHANGED <<event, acked, handed>>

\* Mutants: the bound is not consulted; an attempt is not counted.
MutantMayRetry(w) == TRUE
MutantAttempt(w) == attempts[w]

MayRetry(w) == attempts[w] < MaxAttempts

Attempt(w) == attempts[w] + 1

\* Someone wrote the document: the transaction reads it again.
Retry(w) ==
    /\ step[w] = "read" /\ event[w] \notin WebhookEvent
    /\ w \in stale
    /\ MayRetry(w)
    /\ snapshot' = [snapshot EXCEPT ![w] = doc]
    /\ stale' = stale \ {w}
    /\ attempts' = [attempts EXCEPT ![w] = Attempt(w)]
    /\ UNCHANGED <<doc, step, event, acked, handed>>

\* The attempts are used up, or the handler raised MandateError: the request
\* fails, nothing is written and nothing acknowledged.
Fail(w) ==
    /\ step[w] = "read" /\ event[w] \notin WebhookEvent
    /\ \/ w \in stale /\ ~MayRetry(w)
       \/ snapshot[w] # NoDoc /\ Raises(snapshot[w], event[w])
    /\ Finish(w)
    /\ UNCHANGED <<doc, acked, handed>>

\* apply() returns None for a task there is no document of.
Unknown(w) ==
    /\ step[w] = "read"
    /\ snapshot[w] = NoDoc
    /\ Finish(w)
    /\ UNCHANGED <<doc, acked, handed>>

\* The outcome, and its directive if any, reaches the caller.
Reply(w) ==
    /\ step[w] \in {"done", "directive"}
    /\ acked' = acked \cup ({event[w].id} \cap Delivery)
    /\ handed' = IF step[w] = "directive" THEN handed \cup {event[w]} ELSE handed
    /\ Finish(w)
    /\ UNCHANGED doc

\* A push: on_submission runs on the rebuilt machine, which is then dropped, and
\* GitHub is answered 202 with its outcome.
AnswerPush(w) ==
    /\ step[w] = "read" /\ event[w] \in WebhookEvent
    /\ snapshot[w] # NoDoc
    /\ acked' = acked \cup ({event[w].id} \cap Delivery)
    /\ Finish(w)
    /\ UNCHANGED <<doc, handed>>

\* The instance goes away. Its request is never answered.
Crash(w) ==
    /\ step[w] # "idle"
    /\ Finish(w)
    /\ UNCHANGED <<doc, acked, handed>>

Work(w) ==
    Commit(w) \/ Retry(w) \/ Fail(w) \/ Unknown(w) \/ Reply(w) \/ AnswerPush(w)

Next ==
    \/ Fund
    \/ \E w \in Worker : Work(w) \/ Crash(w)
    \/ \E w \in Worker, e \in Event : Receive(w, e)

Spec == Init /\ [][Next]_vars

\* A handler that has started goes on; deliveries and funding may stop.
FairSpec == Spec /\ \A w \in Worker : WF_vars(Work(w))

-----------------------------------------------------------------------------
(* Properties *)

\* Types of the variables.
TypeOK ==
    /\ doc \in Machine \cup {NoDoc}
    /\ step \in [Worker -> {"idle", "read", "done", "directive"}]
    /\ event \in [Worker -> Event \cup {NoEvent}]
    /\ snapshot \in [Worker -> Machine \cup {NoDoc}]
    /\ stale \subseteq Worker
    /\ attempts \in [Worker -> 0 .. MaxAttempts]
    /\ acked \subseteq Delivery /\ handed \subseteq Event

\* What requests whose transaction has committed are about to tell their callers.
Outcome(w) == [request |-> w, event |-> event[w], directs |-> step[w] = "directive"]

Outcomes == {Outcome(w) : w \in {v \in Worker : step[v] \in {"done", "directive"}}}

AppliedId(e) == ({e.id} \cap Delivery) \ PushDelivery

Atomic == INSTANCE AtomicTask WITH
    Request <- Worker, Event <- Event \ WebhookEvent, NoTask <- NoDoc,
    NewTask <- NewMachine, Ids <- AppliedId,
    task <- doc, outcomes <- Outcomes, answered <- acked \ PushDelivery, directed <- handed

\* "read-modify-write atomic across concurrent deliveries": reads, contended attempts and
\* crashes included, the store is one that runs each event at a single instant, on the
\* document as it then stands, and tells callers what that run said. A push runs nothing.
AtomicEvents == Atomic!Spec

\* An event answered by apply is in the document's seen deliveries, where a cold
\* instance finds it: its redelivery is a duplicate wherever it lands.
AppliedIsDurable ==
    acked \ PushDelivery # {} => doc # NoDoc /\ acked \ PushDelivery \subseteq doc.seen

\* The task was closed by this event: its state says how, and the key which commit.
ClosedBy(m, e) ==
    \/ e.kind = "deadline" /\ m.state = "EXPIRED"
    \/ /\ e.kind = "settle"
       /\ m.key # NoKey /\ m.key.sha = e.manifest.sha
       /\ m.state = IF ExecuteMandate(e.manifest, e.now) = "release"
                    THEN "SETTLED" ELSE "REFUNDED"

\* However often events are redelivered, contended and re-run, at most one directive
\* reaches a caller, and what it says to do is what the document says was done.
OneDirectiveHanded ==
    /\ \A e, f \in handed : e = f
    /\ \A e \in handed : doc # NoDoc /\ ClosedBy(doc, e)

\* A request is answered, refused or lost to a crash; contention cannot hold it
\* for ever.
RequestEnds == \A w \in Worker : (step[w] # "idle") ~> (step[w] = "idle")

\* A push answered 202 was recorded: app.py:153-154 says events are applied
\* through store.apply, webhook.py:287 that the state machine recorded the event.
PushIsDurable ==
    acked \cap PushDelivery # {} => doc # NoDoc /\ acked \cap PushDelivery \subseteq doc.seen

-----------------------------------------------------------------------------
(* The inductive invariant of TaskStoreProofs *)

\* A request under way carries an event.
Underway == \A w \in Worker : step[w] # "idle" => event[w] \in Event

\* What a transaction read is the document until someone writes it.
SnapshotFresh ==
    \A w \in Worker : step[w] = "read" /\ w \notin stale => snapshot[w] = doc

\* What was committed and is about to be answered is in the document.
CommittedIsDurable ==
    \A w \in Worker :
        step[w] \in {"done", "directive"} =>
            doc # NoDoc /\ {event[w].id} \cap Delivery \subseteq doc.seen

\* A directive on its way to a caller is the only one there is.
OneDirectivePending ==
    /\ \A v, w \in Worker : step[v] = "directive" /\ step[w] = "directive" => v = w
    /\ \A w \in Worker :
          step[w] = "directive" => handed = {} /\ doc # NoDoc /\ ClosedBy(doc, event[w])

IInv ==
    /\ TypeOK /\ Underway /\ SnapshotFresh
    /\ CommittedIsDurable /\ OneDirectivePending
    /\ AppliedIsDurable /\ OneDirectiveHanded

=============================================================================
