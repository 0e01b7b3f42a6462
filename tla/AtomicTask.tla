----------------------------- MODULE AtomicTask -----------------------------
(***************************************************************************)
(* What a task store promises the requests that use it, whatever it is      *)
(* built on: an event is run at one instant, on the task as every event     *)
(* before it left it, and what the caller is told is what that run said.    *)
(* A request may die before it answers; its event has then been run, or     *)
(* has not, and its outcome is lost.                                        *)
(***************************************************************************)
CONSTANTS
    Request,        \* those who bring events
    Event,
    NoTask,         \* there is none yet
    NewTask,
    Effect(_, _),   \* the task after an event
    Raises(_, _),   \* the event is refused with an error
    Directs(_, _),  \* the event moves money
    Ids(_)          \* the delivery of an event, unless no other carries it

VARIABLES
    task,
    outcomes,   \* what requests have to tell their callers
    answered,   \* deliveries whose caller was told
    directed    \* events whose caller was told to move money

avars == <<task, outcomes, answered, directed>>

Init ==
    /\ task = NoTask
    /\ outcomes = {} /\ answered = {} /\ directed = {}

Create ==
    /\ task = NoTask
    /\ task' = NewTask
    /\ UNCHANGED <<outcomes, answered, directed>>

\* The one instant at which an event is run.
Serve(r, e) ==
    /\ \A o \in outcomes : o.request # r
    /\ task # NoTask /\ ~Raises(task, e)
    /\ task' = Effect(task, e)
    /\ outcomes' =
           outcomes \cup {[request |-> r, event |-> e, directs |-> Directs(task, e)]}
    /\ UNCHANGED <<answered, directed>>

Tell(o) ==
    /\ outcomes' = outcomes \ {o}
    /\ answered' = answered \cup Ids(o.event)
    /\ directed' = IF o.directs THEN directed \cup {o.event} ELSE directed
    /\ UNCHANGED task

Lose(o) ==
    /\ outcomes' = outcomes \ {o}
    /\ UNCHANGED <<task, answered, directed>>

Next ==
    \/ Create
    \/ \E r \in Request, e \in Event : Serve(r, e)
    \/ \E o \in outcomes : Tell(o) \/ Lose(o)

Spec == Init /\ [][Next]_avars

=============================================================================
