------------------------------- MODULE Escrow -------------------------------
(***************************************************************************)
(* What a funded task promises, whatever produces the events: escrow is    *)
(* held until one decision is taken, and then never again touched. The     *)
(* provider gets it only for the present artifact, graded PASS and on      *)
(* time; otherwise it goes back to the buyer, and not before either the    *)
(* artifact failed or the deadline passed. One artifact gets one grade.    *)
(***************************************************************************)
EXTENDS Naturals

CONSTANTS
    Artifact,   \* what may be submitted
    NoArtifact,
    Limit,      \* the deadline
    Horizon     \* bound on time

VARIABLES
    artifact,   \* the artifact the escrow would pay for
    result,     \* its grade
    funds,      \* who has the money
    time

evars == <<artifact, result, funds, time>>

EscrowInit ==
    /\ artifact = NoArtifact
    /\ result = "NONE"
    /\ funds = "HELD"
    /\ time = 0

Offer(a) ==
    /\ funds = "HELD"
    /\ a # artifact
    /\ artifact' = a
    /\ result' = "NONE"
    /\ UNCHANGED <<funds, time>>

Judge(g) ==
    /\ funds = "HELD"
    /\ artifact # NoArtifact
    /\ result = "NONE"
    /\ result' = g
    /\ UNCHANGED <<artifact, funds, time>>

Release ==
    /\ funds = "HELD"
    /\ result = "PASS"
    /\ time <= Limit
    /\ funds' = "PROVIDER"
    /\ UNCHANGED <<artifact, result, time>>

Return ==
    /\ funds = "HELD"
    /\ result = "FAIL" \/ time > Limit
    /\ funds' = "BUYER"
    /\ UNCHANGED <<artifact, result, time>>

Advance ==
    /\ time < Horizon
    /\ time' = time + 1
    /\ UNCHANGED <<artifact, result, funds>>

EscrowNext ==
    \/ \E a \in Artifact : Offer(a)
    \/ \E g \in {"PASS", "FAIL"} : Judge(g)
    \/ Release
    \/ Return
    \/ Advance

EscrowSpec == EscrowInit /\ [][EscrowNext]_evars

=============================================================================
