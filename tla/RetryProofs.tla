----------------------------- MODULE RetryProofs -----------------------------
(***************************************************************************)
(* The graded workspace and the retry: IInv of RetryFlow is inductive, for  *)
(* any paths, contents, contract and submissions, and what follows from it. *)
(***************************************************************************)
EXTENDS RetryFlow, PathsProofs

\* Trees are functions on the paths.
LEMMA TreeIsFunction ==
    ASSUME NEW t \in Trees
    PROVE  /\ t \in [Path -> Content \cup {Absent}]
           /\ \A p, q \in Path : t[p] # Absent /\ Inside(q, p) => t[q] = Absent
BY DEF Trees, IsTree

\* A path the guard accepts is one the contract lets the provider write, and no grader's.
LEMMA AcceptedIsWritable ==
    ASSUME NEW p \in Path, Guarded[p] = "accepted"
    PROVE  Writable(p) /\ p \notin GraderFiles
<1>1. Classify(ContractGuard, p) = "accepted"
  BY DEF Guarded
<1>2. ~UnsafePath(p) /\ NormalizePath(p) = p
  BY <1>1, WorkspaceAssumption, NormalIsFixed DEF Classify
<1>3. /\ MatchAny(p, AllowedSourcePaths)
      /\ ~MatchAny(p, ProtectedPaths) /\ ~MatchAny(p, GraderPaths)
  BY <1>1, <1>2 DEF Classify, ContractGuard
<1> QED
  BY <1>3 DEF Writable, GraderFiles

\* The initial state satisfies the invariant.
LEMMA InitInvariant == Init => IInv
<1> SUFFICES ASSUME Init PROVE IInv
  OBVIOUS
<1>1. base \in Bases /\ bundle \in Bundles /\ base \in Commits /\ base \in Trees
  BY WorkspaceAssumption DEF Init, WorkspaceAssumption, Commits
<1>2. TypeOK
  BY <1>1, TreeIsFunction DEF Init, TypeOK, Phase, Attempt
<1>3. AssemblyInv
  BY DEF Init, AssemblyInv
<1>4. FirstAttempt /\ RetryKeepsTheWork
  BY DEF Init, FirstAttempt, RetryKeepsTheWork
<1> QED
  BY <1>2, <1>3, <1>4 DEF IInv

\* Base, head and bundle are functions on the paths.
LEMMA Inputs ==
    ASSUME TypeOK
    PROVE  /\ base \in [Path -> Content \cup {Absent}] /\ base \in Trees
           /\ base \in Commits /\ head \in Trees
           /\ head \in [Path -> Content \cup {Absent}]
           /\ bundle \in [Path -> Content \cup {Absent}]
BY TreeIsFunction, WorkspaceAssumption DEF TypeOK, WorkspaceAssumption, Commits

\* Definitions that only read the inputs keep their value when those do.
LEMMA InputsUnchanged ==
    ASSUME UNCHANGED inputs
    PROVE  /\ Touched' = Touched /\ Violations' = Violations
           /\ FindHooks(base)' = FindHooks(base) /\ FilesOf(bundle)' = FilesOf(bundle)
           /\ \A p \in Path :
                  /\ Quarantined(p)' = Quarantined(p) /\ Purged(p)' = Purged(p)
                  /\ Injected(p)' = Injected(p) /\ Stripped(p)' = Stripped(p)
BY DEF inputs, Touched, Violations, FindHooks, FilesOf, Quarantined, Purged, Injected, Stripped

-----------------------------------------------------------------------------
(* The steps of the assembly *)

\* No step of the assembly moves the flow.
LEMMA FlowUnchanged ==
    ASSUME IInv, UNCHANGED <<inputs, flow>>,
           phase \notin {"fund", "submit", "remediate"},
           phase' \notin {"fund", "submit", "remediate"},
           phase \notin {"done", "raised"},
           phase' = "rejected" => Violations # {}
    PROVE  FirstAttempt' /\ RetryKeepsTheWork'
<1>1. FirstAttempt'
  BY DEF IInv, FirstAttempt, inputs, flow
<1>2. Violations' = Violations /\ FilesOf(head)' = FilesOf(head)
  BY InputsUnchanged DEF FilesOf, inputs
<1>3. \A p \in Path : Displaced(p)' <=> Displaced(p)
  BY DEF Displaced, inputs, flow, FilesOf
<1> QED
  BY <1>1, <1>2, <1>3 DEF IInv, RetryKeepsTheWork, inputs, flow

\* Every step of the assembly keeps the types.
LEMMA AssembleTypes ==
    ASSUME TypeOK, Assemble, UNCHANGED flow
    PROVE  TypeOK'
<1> USE DEF inputs, report, workspace, flow
<1>i. /\ base \in [Path -> Content \cup {Absent}] /\ base \in Trees
      /\ head \in [Path -> Content \cup {Absent}]
      /\ bundle \in [Path -> Content \cup {Absent}]
  BY Inputs
<1>1. UNCHANGED <<base, head, bundle>> /\ phase' \in Phase
  BY DEF Assemble, Reject, Copy, Apply, ApplyRaises, Quarantine, Purge, Inject, InjectRaises,
         Strip, Phase
<1>2. tree' \in [Path -> Content \cup {Absent}]
  BY <1>i DEF TypeOK, Assemble, Reject, Copy, Apply, ApplyRaises, Quarantine, Purge, Inject,
         InjectRaises, Strip, Without
<1>3. DOMAIN hooks' \subseteq Path /\ hooks' \in [DOMAIN hooks' -> Content]
  <2>1. CASE hooks' = FindHooks(base)
    BY <1>i, <2>1 DEF FindHooks, FilesOf
  <2>2. CASE hooks' = hooks
    BY <2>2 DEF TypeOK
  <2> QED
    BY <2>1, <2>2 DEF Assemble, Reject, Copy, Apply, ApplyRaises, Quarantine, Purge, Inject,
         InjectRaises, Strip
<1>4. applied' \subseteq Path /\ quarantined' \subseteq Path
      /\ purged' \subseteq Path /\ injected' \subseteq Path
  BY DEF TypeOK, Assemble, Reject, Copy, Apply, ApplyRaises, Quarantine, Purge, Inject,
         InjectRaises, Strip, Touched, ProviderHooks, FindHooks, FilesOf
<1>5. guardRoots' \subseteq {LiteralHead(pattern) : pattern \in GraderPaths}
  BY DEF TypeOK, Assemble, Reject, Copy, Apply, ApplyRaises, Quarantine, Purge, Inject,
         InjectRaises, Strip, ExistingRoots
<1> QED
  BY <1>1, <1>2, <1>3, <1>4, <1>5 DEF TypeOK

\* A copy of the base, for a submission that breaks no term.
LEMMA CopyStep == ASSUME IInv, Copy PROVE AssemblyInv'
<1>1. Violations' = {} /\ FindHooks(base)' = FindHooks(base)
  BY InputsUnchanged DEF Copy
<1> QED
  BY <1>1 DEF Copy, AssemblyInv, inputs

\* After the changes the workspace is the submitted tree.
LEMMA ApplyStep == ASSUME IInv, Apply PROVE AssemblyInv'
<1> USE DEF IInv, inputs
<1>1. /\ UNCHANGED inputs /\ phase = "apply" /\ phase' = "quarantine"
      /\ UNCHANGED <<hooks, quarantined, purged, injected, guardRoots>>
      /\ tree' = [p \in Path |-> IF p \in Touched THEN head[p] ELSE tree[p]]
      /\ applied' = Touched
  BY DEF Apply
<1>2. tree' = head
  BY <1>1, Inputs DEF AssemblyInv, Touched
<1> QED
  BY <1>1, <1>2, InputsUnchanged DEF AssemblyInv

\* The hooks of the submitted tree that the quarantine takes are those it touches.
LEMMA QuarantineStep == ASSUME IInv, Quarantine PROVE AssemblyInv'
<1> USE DEF IInv, inputs
<1>1. /\ UNCHANGED inputs /\ phase = "quarantine" /\ phase' = "purge"
      /\ UNCHANGED <<hooks, applied, purged, injected, guardRoots>>
      /\ tree' = Without(tree, ProviderHooks) /\ quarantined' = ProviderHooks
  BY DEF Quarantine
<1>2. tree = head /\ hooks = FindHooks(base) /\ applied = Touched
  BY <1>1 DEF AssemblyInv
<1>3. \A p \in Path : p \in ProviderHooks <=>
          head[p] # Absent /\ IsHook(p) /\ ~InGit(p) /\ p \in Touched
  BY <1>2, Inputs DEF ProviderHooks, FindHooks, FilesOf, Touched
<1>4. tree' = [p \in Path |-> Quarantined(p)]
  BY <1>1, <1>2, <1>3 DEF Without, Quarantined
<1>5. \A p \in Touched : IsHook(p) /\ ~InGit(p) => head[p] = Absent \/ p \in quarantined'
  BY <1>1, <1>3 DEF Touched
<1>6. tree' = [p \in Path |-> Quarantined(p)']
  BY <1>1, <1>4, InputsUnchanged
<1> QED
  BY <1>1, <1>2, <1>5, <1>6, InputsUnchanged DEF AssemblyInv

\* The purge finds nothing of the provider's.
LEMMA PurgeStep == ASSUME IInv, Purge PROVE AssemblyInv'
<1> USE DEF IInv, inputs
<1>1. /\ UNCHANGED inputs /\ phase = "purge" /\ phase' = "inject"
      /\ UNCHANGED <<hooks, applied, quarantined, injected, guardRoots>>
      /\ tree' = Without(tree, GraderFiles)
      /\ purged' = FilesOf(tree) \cap GraderFiles \cap applied
  BY DEF Purge
<1>2. /\ tree = [p \in Path |-> Quarantined(p)] /\ applied = Touched /\ Violations = {}
      /\ \A p \in Touched : IsHook(p) /\ ~InGit(p) => head[p] = Absent \/ p \in quarantined
  BY <1>1 DEF AssemblyInv
<1>3. purged' = {}
  BY <1>1, <1>2, AcceptedIsWritable DEF Violations, Touched
<1>4. tree' = [p \in Path |-> Purged(p)]
  BY <1>1, <1>2 DEF Without, Purged
<1>5. tree' = [p \in Path |-> Purged(p)']
  BY <1>1, <1>4, InputsUnchanged
<1> QED
  BY <1>1, <1>2, <1>3, <1>5, InputsUnchanged DEF AssemblyInv

\* The bundle is written over what is left.
LEMMA InjectStep == ASSUME IInv, Inject PROVE AssemblyInv'
<1> USE DEF IInv, inputs
<1>1. /\ UNCHANGED inputs /\ phase = "inject" /\ phase' = "strip"
      /\ UNCHANGED <<hooks, applied, quarantined, purged, guardRoots>>
      /\ tree' = [p \in Path |-> IF p \in FilesOf(bundle) THEN bundle[p] ELSE tree[p]]
      /\ injected' = FilesOf(bundle)
  BY DEF Inject
<1>2. /\ tree = [p \in Path |-> Purged(p)] /\ purged = {} /\ Violations = {}
      /\ \A p \in Touched : IsHook(p) /\ ~InGit(p) => head[p] = Absent \/ p \in quarantined
  BY <1>1 DEF AssemblyInv
<1>3. tree' = [p \in Path |-> Injected(p)]
  BY <1>1, <1>2 DEF Injected, FilesOf
<1>4. tree' = [p \in Path |-> Injected(p)']
  BY <1>1, <1>3, InputsUnchanged
<1> QED
  BY <1>1, <1>2, <1>4, InputsUnchanged DEF AssemblyInv

\* The history is removed last.
LEMMA StripStep == ASSUME IInv, Strip PROVE AssemblyInv'
<1> USE DEF IInv, inputs
<1>1. /\ UNCHANGED inputs /\ phase = "strip" /\ phase' = "assembled"
      /\ UNCHANGED <<hooks, applied, quarantined, purged, injected>>
      /\ tree' = Without(tree, {p \in Path : InGit(p)})
      /\ guardRoots' = ExistingRoots(tree', GraderPaths)
  BY DEF Strip
<1>2. /\ tree = [p \in Path |-> Injected(p)] /\ purged = {} /\ Violations = {}
      /\ injected = FilesOf(bundle)
      /\ \A p \in Touched : IsHook(p) /\ ~InGit(p) => head[p] = Absent \/ p \in quarantined
  BY <1>1 DEF AssemblyInv
<1>3. tree' = [p \in Path |-> Stripped(p)]
  BY <1>1, <1>2 DEF Stripped, Without
<1>4. tree' = [p \in Path |-> Stripped(p)']
  BY <1>1, <1>3, InputsUnchanged
<1> QED
  BY <1>1, <1>2, <1>4, InputsUnchanged DEF AssemblyInv

\* The assembly keeps the invariant.
LEMMA AssembleStep == ASSUME IInv, Assemble, UNCHANGED flow PROVE IInv'
<1>1. TypeOK'
  BY AssembleTypes DEF IInv
<1>2. AssemblyInv'
  <2>1. CASE Reject \/ ApplyRaises \/ InjectRaises
    BY <2>1 DEF Reject, ApplyRaises, InjectRaises, AssemblyInv
  <2> QED
    BY <2>1, CopyStep, ApplyStep, QuarantineStep, PurgeStep, InjectStep, StripStep DEF Assemble
<1>3. FirstAttempt' /\ RetryKeepsTheWork'
  <2>1. /\ UNCHANGED <<inputs, flow>>
        /\ phase \notin {"fund", "submit", "remediate", "done", "raised"}
        /\ phase' \notin {"fund", "submit", "remediate"}
        /\ phase' = "rejected" => Violations # {}
    BY DEF Assemble, Reject, Copy, Apply, ApplyRaises, Quarantine, Purge, Inject, InjectRaises,
           Strip
  <2> QED
    BY <2>1, FlowUnchanged
<1> QED
  BY <1>1, <1>2, <1>3 DEF IInv

-----------------------------------------------------------------------------
(* The steps of the flow *)

\* Outside the assembly, nothing is claimed of the workspace.
LEMMA NoAssembly ==
    ASSUME phase' \in {"fund", "submit", "evaluate", "rejected", "raised", "settle",
                       "remediate", "done"}
    PROVE  AssemblyInv'
BY DEF AssemblyInv

\* Funding, judging and settling leave the submission alone.
LEMMA MoneyStep ==
    ASSUME IInv,
           \/ Fund
           \/ \E v \in {"PASS", "FAIL"} : Judge(v)
           \/ \E late \in BOOLEAN : Settle(late)
    PROVE  IInv'
<1> USE DEF IInv
<1>1. /\ UNCHANGED <<base, head, bundle, workspace, attempt, submitted, hidden>>
      /\ verdict' \in {verdict, "PASS", "FAIL"}
      /\ \/ phase = "fund" /\ escrow' = [escrow EXCEPT ![attempt] = "held"]
            /\ phase' = (IF attempt = 1 THEN "submit" ELSE "evaluate")
         \/ phase \in {"assembled", "rejected"} /\ escrow' = escrow /\ phase' = "settle"
         \/ /\ phase = "settle" /\ phase' \in {"done", "remediate"}
            /\ \E e \in {"released", "refunded"} : escrow' = [escrow EXCEPT ![attempt] = e]
            /\ phase' = "remediate" =>
                  attempt = 1 /\ escrow' = [escrow EXCEPT ![attempt] = "refunded"]
  BY DEF Fund, Judge, Settle, inputs
<1>2. TypeOK'
  BY <1>1 DEF TypeOK, Phase, Attempt, workspace, report
<1>3. AssemblyInv'
  BY <1>1, NoAssembly
<1>4. attempt \in {1, 2} /\ escrow \in [{1, 2} -> {"none", "held", "released", "refunded"}]
  BY DEF TypeOK, Attempt
<1>5. FirstAttempt'
  BY <1>1, <1>4 DEF FirstAttempt
<1>6. RetryKeepsTheWork'
  <2> SUFFICES ASSUME attempt = 2 PROVE RetryKeepsTheWork'
    BY <1>1 DEF RetryKeepsTheWork
  <2>1. escrow'[1] = escrow[1] /\ phase' # "rejected"
    BY <1>1, <1>4
  <2>2. Violations' = Violations /\ \A p \in Path : Displaced(p)' <=> Displaced(p)
    BY <1>1 DEF Violations, Touched, Displaced, FilesOf
  <2> QED
    BY <1>1, <2>1, <2>2 DEF RetryKeepsTheWork
<1> QED
  BY <1>2, <1>3, <1>5, <1>6

\* A submission is the first attempt's.
LEMMA SubmitStep == ASSUME IInv, NEW t \in Submissions, Submit(t) PROVE IInv'
<1> USE DEF IInv
<1>1. t \in Commits
  BY RetryAssumption DEF RetryAssumption
<1>2. TypeOK'
  BY <1>1 DEF Submit, TypeOK, Phase, workspace, report
<1>3. AssemblyInv'
  BY NoAssembly DEF Submit
<1>4. attempt = 1
  BY DEF Submit, FirstAttempt, TypeOK, Attempt
<1> QED
  BY <1>2, <1>3, <1>4 DEF Submit, FirstAttempt, RetryKeepsTheWork

\* What reverting leaves is a tree.
LEMMA RevertedIsTree ==
    ASSUME TypeOK, NEW paths \in SUBSET Path
    PROVE  Reverted(paths) \in Commits
<1> DEFINE t == Reverted(paths)
<1>1. /\ base \in [Path -> Content \cup {Absent}] /\ head \in [Path -> Content \cup {Absent}]
      /\ \A p, q \in Path : base[p] # Absent /\ Inside(q, p) => base[q] = Absent
      /\ \A p, q \in Path : head[p] # Absent /\ Inside(q, p) => head[q] = Absent
  BY Inputs, TreeIsFunction DEF TypeOK
<1>2. t \in [Path -> Content \cup {Absent}]
  BY <1>1 DEF Reverted
<1>3. ASSUME NEW p \in Path, NEW q \in Path, t[p] # Absent, Inside(q, p)
      PROVE  t[q] = Absent
  BY <1>1, <1>3 DEF Reverted
<1>4. \A p \in Path : InGit(p) => t[p] = Absent
  BY Inputs DEF TypeOK, Commits, Reverted
<1> QED
  BY <1>2, <1>3, <1>4 DEF Trees, IsTree, Commits

\* The remediated submission is the first one on the paths that are the provider's, and
\* the base on all others that git named.
LEMMA RemediatedTree ==
    ASSUME IInv, phase = "remediate", attempt = 1, NEW renamed \in SUBSET Path,
           NEW paths, paths = FilesToRevert(Touched \ renamed), ~CheckoutFails(paths),
           UNCHANGED <<base, submitted>>, head' = Reverted(paths), hidden' = renamed
    PROVE  \A p \in Path :
               IF Guarded[p] = "accepted"
               THEN head'[p] = submitted[p] \/ Displaced(p)'
               ELSE head'[p] = base[p] \/ p \in hidden'
<1> USE DEF IInv
<1>1. head = submitted
  BY DEF FirstAttempt
<1>2. /\ \A p, q \in Path : base[p] # Absent /\ Inside(q, p) => base[q] = Absent
      /\ \A p, q \in Path : head[p] # Absent /\ Inside(q, p) => head[q] = Absent
  BY Inputs, TreeIsFunction DEF TypeOK
<1>3. \A p \in paths : /\ p \in Path /\ p \in Touched /\ p \notin renamed
                        /\ base[p] # Absent /\ Printed(p) = p /\ Guarded[p] # "accepted"
  BY DEF FilesToRevert, GuardedAsPrinted, CheckoutFails, Touched, Guarded
<1>4. Classify(ContractGuard, <<"quoted">>) # "accepted"
  <2>1. 1 \in DOMAIN <<"quoted">> /\ <<"quoted">>[1] = "quoted"
    OBVIOUS
  <2>2. "quoted" \in Segments(<<"quoted">>)
    BY Zenon, <2>1 DEF Segments
  <2>3. "quoted" \in Illegal
    BY Zenon, RetryAssumption DEF RetryAssumption
  <2>4. UnsafePath(<<"quoted">>)
    BY <2>2, <2>3 DEF UnsafePath
  <2> QED
    BY <2>4 DEF Classify
<1>5. ASSUME NEW p \in Path, Guarded[p] = "accepted"
      PROVE  head'[p] = submitted[p] \/ Displaced(p)'
  <2>1. p \notin paths
    BY <1>3, <1>5
  <2>2. CASE ~\E q \in paths : Inside(p, q) \/ Inside(q, p)
    BY <1>1, <2>1, <2>2 DEF Reverted
  <2>3. ASSUME NEW q \in paths, Inside(p, q) \/ Inside(q, p)
        PROVE  head'[p] = submitted[p] \/ Displaced(p)'
    <3>1. head'[p] = Absent /\ head'[q] = base[q] /\ q \in FilesOf(head)'
      BY <1>3, <2>1, <2>3 DEF Reverted, FilesOf
    <3>2. CASE submitted[q] = Absent
      BY <1>3, <2>3, <3>1, <3>2 DEF Displaced
    <3>3. CASE submitted[q] # Absent
      BY <1>1, <1>2, <1>3, <2>3, <3>1, <3>3
    <3> QED
      BY <3>2, <3>3
  <2> QED
    BY <2>2, <2>3
<1>6. ASSUME NEW p \in Path, Guarded[p] # "accepted", p \notin renamed
      PROVE  head'[p] = base[p]
  <2>1. CASE p \in paths
    BY <2>1 DEF Reverted
  <2>2. CASE p \notin paths
    <3>1. Classify(ContractGuard, Printed(p)) # "accepted"
      BY <1>4, <1>6 DEF Printed, Guarded
    <3>2. head[p] = base[p]
      BY <1>6, <2>2, <3>1 DEF FilesToRevert, GuardedAsPrinted, Touched
    <3>3. ASSUME NEW q \in paths, Inside(p, q) \/ Inside(q, p) PROVE base[p] = Absent
      BY <1>2, <1>3, <3>3
    <3> QED
      BY <2>2, <3>2, <3>3 DEF Reverted
  <2> QED
    BY <2>1, <2>2
<1> QED
  BY <1>5, <1>6

\* Remediation ends the flow, or hands the second contract a submission without a
\* violation, unless git hid one.
LEMMA RemediateStep ==
    ASSUME IInv, NEW renamed \in SUBSET Renameable, Remediate(renamed) PROVE IInv'
<1> USE DEF IInv
<1> DEFINE paths == FilesToRevert(Touched \ renamed)
<1>1. renamed \subseteq Path /\ paths \subseteq Path
  BY DEF Renameable, Touched, FilesToRevert
<1>2. /\ phase = "remediate" /\ hidden' = renamed
      /\ UNCHANGED <<base, bundle, workspace, verdict, escrow, submitted>>
      /\ \/ phase' \in {"done", "raised"} /\ UNCHANGED <<head, attempt>>
         \/ /\ ~CheckoutFails(paths)
            /\ head' = Reverted(paths) /\ attempt' = 2 /\ phase' = "fund"
  BY DEF Remediate
<1>3. attempt = 1 /\ head = submitted /\ escrow[1] = "refunded"
  BY <1>2 DEF FirstAttempt, TypeOK, Attempt
<1>4. TypeOK'
  BY <1>1, <1>2, RevertedIsTree DEF TypeOK, Phase, Attempt, workspace, report
<1>5. AssemblyInv'
  BY <1>2, NoAssembly
<1>6. FirstAttempt'
  BY <1>2, <1>3 DEF FirstAttempt
<1>7. RetryKeepsTheWork'
  <2> SUFFICES ASSUME attempt' = 2 PROVE RetryKeepsTheWork'
    BY DEF RetryKeepsTheWork
  <2>1. ~CheckoutFails(paths) /\ head' = Reverted(paths) /\ phase' = "fund"
    BY <1>2, <1>3
  <2>2. \A p \in Path :
            IF Guarded[p] = "accepted"
            THEN head'[p] = submitted[p] \/ Displaced(p)'
            ELSE head'[p] = base[p] \/ p \in hidden'
    BY <1>1, <1>2, <1>3, <2>1, RemediatedTree
  <2>3. hidden' = {} => Violations' = {}
    BY <1>2, <2>2 DEF Violations, Touched
  <2> QED
    BY <1>2, <1>3, <2>1, <2>2, <2>3 DEF RetryKeepsTheWork
<1> QED
  BY <1>4, <1>5, <1>6, <1>7

\* The invariant is inductive.
LEMMA Inductive == IInv /\ [Next]_vars => IInv'
<1> SUFFICES ASSUME IInv, [Next]_vars PROVE IInv'
  OBVIOUS
<1>1. CASE UNCHANGED vars
  <2>1. /\ UNCHANGED <<base, head, bundle, phase, tree, hooks, applied, quarantined, purged,
                       injected, guardRoots, attempt, verdict, escrow, submitted, hidden>>
        /\ UNCHANGED inputs
    BY <1>1 DEF vars, inputs, workspace, report, flow
  <2>2. TypeOK' /\ FirstAttempt'
    BY <2>1 DEF IInv, TypeOK, FirstAttempt
  <2>3. AssemblyInv'
    <3>1. /\ [p \in Path |-> Quarantined(p)]' = [p \in Path |-> Quarantined(p)]
          /\ [p \in Path |-> Purged(p)]' = [p \in Path |-> Purged(p)]
          /\ [p \in Path |-> Injected(p)]' = [p \in Path |-> Injected(p)]
          /\ [p \in Path |-> Stripped(p)]' = [p \in Path |-> Stripped(p)]
      BY <2>1, InputsUnchanged
    <3> QED
      BY <2>1, <3>1, InputsUnchanged DEF IInv, AssemblyInv
  <2>4. RetryKeepsTheWork'
    <3>1. Violations' = Violations /\ \A p \in Path : Displaced(p)' <=> Displaced(p)
      BY <2>1 DEF Violations, Touched, Displaced, FilesOf
    <3> QED
      BY <2>1, <3>1 DEF IInv, RetryKeepsTheWork
  <2> QED
    BY <2>2, <2>3, <2>4 DEF IInv
<1>2. CASE Finished
  BY <1>1, <1>2 DEF Finished
<1>3. CASE Next /\ ~Finished
  BY <1>3, AssembleStep, MoneyStep, SubmitStep, RemediateStep DEF Next
<1> QED
  BY <1>1, <1>2, <1>3

\* The invariant holds of every behaviour.
LEMMA Invariance == Spec => []IInv
BY InitInvariant, Inductive, PTL DEF Spec

-----------------------------------------------------------------------------

\* Type correctness of the flow and its workspace (TypeOK).
THEOREM TypeCorrect == Spec => []TypeOK
<1>1. IInv => TypeOK
  BY DEF IInv
<1> QED
  BY <1>1, Invariance, PTL

\* What grades is the buyer's (GraderIsBuyers), whatever the provider submits.
THEOREM BuyersGrader == Spec => []GraderIsBuyers
<1>1. IInv => GraderIsBuyers
  <2> SUFFICES ASSUME IInv, phase = "assembled" PROVE GraderIsBuyers
    BY DEF GraderIsBuyers
  <2>1. tree = [p \in Path |-> Stripped(p)]
    BY DEF IInv, AssemblyInv
  <2>2. \A p \in BundleFiles : p \in Path /\ tree[p] = bundle[p]
    BY <2>1 DEF BundleFiles, FilesOf, Stripped, Injected
  <2>3. \A p \in GraderFiles \ BundleFiles : tree[p] = Absent
    BY <2>1 DEF BundleFiles, FilesOf, Stripped, Injected, Purged, GraderFiles
  <2>4. \A p \in FilesOf(tree) \ BundleFiles :
            IsHook(p) => tree[p] = base[p] /\ head[p] = base[p]
    BY <2>1 DEF BundleFiles, FilesOf, Stripped, Injected, Purged, Quarantined, Touched
  <2> QED
    BY <2>2, <2>3, <2>4 DEF GraderIsBuyers
<1> QED
  BY <1>1, Invariance, PTL

\* The provider's bytes stand where the contract lets it write (ProviderConfined).
THEOREM ConfinedProvider == Spec => []ProviderConfined
<1>1. IInv => ProviderConfined
  <2> SUFFICES ASSUME IInv, phase = "assembled", NEW p \in FilesOf(tree) \ BundleFiles,
                      tree[p] # base[p]
               PROVE  Writable(p) /\ tree[p] = head[p]
    BY DEF ProviderConfined
  <2>1. tree = [q \in Path |-> Stripped(q)] /\ Violations = {} /\ p \in Path
    BY DEF IInv, AssemblyInv, FilesOf
  <2>2. tree[p] = head[p]
    BY <2>1 DEF BundleFiles, FilesOf, Stripped, Injected, Purged, Quarantined
  <2>3. Guarded[p] = "accepted"
    BY <2>1, <2>2 DEF Violations, Touched
  <2> QED
    BY <2>1, <2>2, <2>3, AcceptedIsWritable
<1> QED
  BY <1>1, Invariance, PTL

\* A path that does not stand as submitted is reported, and the purge is redundant
\* (NoSilentFixup).
THEOREM EveryFixupIsReported == Spec => []NoSilentFixup
<1>1. IInv => NoSilentFixup
  <2> SUFFICES ASSUME IInv, phase = "assembled" PROVE NoSilentFixup
    BY DEF NoSilentFixup
  <2>1. /\ tree = [p \in Path |-> Stripped(p)] /\ Violations = {} /\ purged = {}
        /\ injected = FilesOf(bundle)
        /\ \A p \in Touched : IsHook(p) /\ ~InGit(p) => head[p] = Absent \/ p \in quarantined
    BY DEF IInv, AssemblyInv
  <2>2. ASSUME NEW p \in Touched PROVE tree[p] = head[p] \/ p \in quarantined \cup injected
    <3>1. p \in Path /\ Guarded[p] = "accepted"
      BY <2>1 DEF Violations, Touched
    <3>2. p \notin GraderFiles
      BY <3>1, AcceptedIsWritable
    <3>3. ~InGit(p)
      BY <3>1, Inputs DEF IInv, TypeOK, Commits, Touched
    <3> QED
      BY <2>1, <3>1, <3>2, <3>3 DEF Stripped, Injected, Purged, Quarantined, FilesOf
  <2> QED
    BY <2>1, <2>2 DEF NoSilentFixup
<1> QED
  BY <1>1, Invariance, PTL

\* The retry keeps the provider's work and, but for a hidden rename, is accepted
\* (RetryKeepsTheWork).
THEOREM WorkIsKept == Spec => []RetryKeepsTheWork
<1>1. IInv => RetryKeepsTheWork
  BY DEF IInv
<1> QED
  BY <1>1, Invariance, PTL

-----------------------------------------------------------------------------
(* What the runtime guard is given to watch *)

\* The head of an anchored glob is what it says before its first wildcard, and before a
\* trailing slash.
LEMMA LiteralHeadIsPlain ==
    ASSUME NEW pattern \in Seq(STRING), Anchored(pattern)
    PROVE  \E k \in 0 .. Len(pattern) :
              /\ LiteralHead(pattern) = SubSeq(pattern, 1, k)
              /\ \A i \in 1 .. k : pattern[i] \notin Wild \cup {NoName}
<1> DEFINE named == LiteralHead(pattern)
           ends == {i \in 1 .. Len(pattern) : EndsHead(pattern[i])}
           first == CHOOSE i \in ends : \A j \in ends : i <= j
<1>1. named = IF ends = {} THEN pattern
              ELSE SubSeq(pattern, 1, first - 1) \o Stem(pattern[first])
  BY Zenon DEF LiteralHead
<1>2. /\ \A i \in 1 .. Len(pattern) : EndsHead(pattern[i]) => i \in ends
      /\ \A i \in ends : EndsHead(pattern[i])
      /\ ends \subseteq 1 .. Len(pattern) /\ Len(pattern) \in Nat
  OBVIOUS
<1>3. Segments(named) \cap DOMAIN Partial = {} /\ named = SubSeq(pattern, 1, Len(named))
  BY DEF Anchored
<1> HIDE DEF named, ends
<1>4. SUFFICES ASSUME NEW k \in 0 .. Len(pattern), named = SubSeq(pattern, 1, k),
                      \A i \in 1 .. k : i \notin ends
               PROVE  \A i \in 1 .. k : pattern[i] \notin Wild \cup {NoName}
  <2>1. CASE ends = {}
    <3>1. named = SubSeq(pattern, 1, Len(pattern))
      BY <1>1, <2>1, SubSeqFull
    <3> QED
      BY <1>2, <1>4, <2>1, <3>1 DEF named
  <2>2. CASE ends # {}
    <3>0. ends \subseteq Nat
      BY <1>2
    <3>1. \E i \in ends : \A j \in ends : i <= j
      BY <2>2, <3>0, LeastNatural
    <3>2. first \in ends /\ \A j \in ends : first <= j
      BY <3>1
    <3>3. named = SubSeq(pattern, 1, first - 1) \o Stem(pattern[first])
      BY <1>1, <2>2
    <3> HIDE DEF first
    <3>4. /\ first - 1 \in 0 .. Len(pattern)
          /\ SubSeq(pattern, 1, first - 1) \in Seq(STRING)
          /\ Len(SubSeq(pattern, 1, first - 1)) = first - 1
      BY <1>2, <3>2
    <3>5. \A i \in 1 .. first - 1 : i \notin ends
      BY <1>2, <3>2
    <3>6. Stem(pattern[first]) = <<>>
      <4> DEFINE end == pattern[first]
                 before == SubSeq(pattern, 1, first - 1)
                 T == STRING \cup {Partial[end].stem}
      <4>1. SUFFICES ASSUME end \in DOMAIN Partial, Stem(end) = <<Partial[end].stem>>
                     PROVE  FALSE
        BY DEF Stem
      <4>2. Partial[end].stem # end
        BY <1>2, <3>2, <4>1, PathsAssumption DEF PathsAssumption, EndsHead
      <4>3. before \in Seq(T) /\ Len(before) = first - 1 /\ Partial[end].stem \in T
        BY <3>4
      <4>4. named = before \o <<Partial[end].stem>>
        BY <3>3, <4>1
      <4>5. first - 1 \in Nat /\ first \in 1 .. Len(pattern)
        BY <1>2, <3>2, <3>4
      <4> HIDE DEF end, before, T
      <4>6. Len(named) = first /\ named[first] = Partial[end].stem
        BY <4>3, <4>4, <4>5
      <4>7. SubSeq(pattern, 1, first)[first] = pattern[first]
        BY <4>5
      <4> QED
        BY <1>3, <4>2, <4>6, <4>7 DEF end
    <3>7. named = SubSeq(pattern, 1, first - 1)
      BY <3>3, <3>4, <3>6
    <3> QED
      BY <1>4, <3>4, <3>5, <3>7 DEF named
  <2> QED
    BY <2>1, <2>2
<1>5. ASSUME NEW i \in 1 .. k PROVE pattern[i] \notin Wild \cup {NoName}
  <2>1. i \in DOMAIN named /\ named[i] = pattern[i] /\ i \in 1 .. Len(pattern)
    BY <1>4
  <2>2. pattern[i] \notin DOMAIN Partial
    BY <1>3, <2>1 DEF Segments
  <2>3. ~EndsHead(pattern[i])
    BY <1>2, <1>4, <2>1
  <2> QED
    BY <2>2, <2>3 DEF EndsHead, Wild
<1> QED
  BY <1>5

\* A path that the compiled form of an anchored glob fits is its head or lies below it.
LEMMA FitsBelowHead ==
    ASSUME NEW S, NEW path \in Seq(S), NEW pattern \in Seq(STRING) \ {<<>>},
           Anchored(pattern), Fits(path, Compile(pattern))
    PROVE  path = LiteralHead(pattern) \/ Inside(path, LiteralHead(pattern))
<1>1. PICK k \in 0 .. Len(pattern) :
          /\ LiteralHead(pattern) = SubSeq(pattern, 1, k)
          /\ \A i \in 1 .. k : pattern[i] \notin Wild \cup {NoName}
  BY LiteralHeadIsPlain
<1> DEFINE glob == Compile(pattern)
           root == LiteralHead(pattern)
<1>2. /\ glob \in Seq(STRING \cup {"**"}) /\ Len(glob) >= Len(pattern)
      /\ \A i \in 1 .. k : glob[i] = pattern[i]
  BY <1>1, CompileKeepsHead
<1>3. Fits(path, glob)
  OBVIOUS
<1> HIDE DEF glob
<1>4. k \in 0 .. Len(glob) /\ \A i \in 1 .. k : glob[i] \notin Wild
  BY <1>1, <1>2
<1>5. k <= Len(path) /\ \A i \in 1 .. k : path[i] = pattern[i]
  BY <1>2, <1>3, <1>4, HeadIsPrefix
<1>6. Len(root) = k /\ root \in Seq(STRING) /\ \A i \in 1 .. k : root[i] = pattern[i]
  BY <1>1
<1> HIDE DEF root
<1>7. SubSeq(path, 1, k) = root
  <2> DEFINE T == S \cup STRING
  <2>1. /\ SubSeq(path, 1, k) \in Seq(T) /\ Len(SubSeq(path, 1, k)) = k
        /\ \A i \in 1 .. k : SubSeq(path, 1, k)[i] = path[i]
    BY <1>5
  <2>2. root \in Seq(T)
    BY <1>6
  <2> QED
    BY <1>5, <1>6, <2>1, <2>2, SeqEqual
<1>8. Len(path) = k => path = root
  BY <1>7, SubSeqFull
<1>9. Len(path) > k => Inside(path, root)
  BY <1>6, <1>7 DEF Inside
<1> QED
  BY <1>5, <1>8, <1>9 DEF root

\* What an anchored glob matches is the literal head of the glob or lies below it, but for
\* a line break that ends the path: a guard on the head sees every file that the glob
\* matches. Of a glob such as "tests/test_*.py", which is not anchored, it is false.
THEOREM LiteralHeadIsPrefix ==
    ASSUME NEW S, NEW path \in Seq(S), NEW pattern \in Seq(STRING) \ {<<>>},
           Anchored(pattern), Matches(path, pattern)
    PROVE  \E p \in Readings(path) :
              p = LiteralHead(pattern) \/ Inside(p, LiteralHead(pattern))
<1>1. PICK p \in Readings(path) : Fits(p, Compile(pattern))
  BY DEF Matches
<1> DEFINE T == S \cup {Chomped[s] : s \in DOMAIN Chomped}
<1>2. p \in Seq(T)
  BY ReadingIsSequence
<1> HIDE DEF T
<1> QED
  BY <1>1, <1>2, FitsBelowHead

\* A file of the bundle that an anchored grader glob matches has a root of the runtime
\* guard at it or above it (GraderIsGuarded), unless its name ends in a line break. A glob
\* that is not anchored may leave the files that it matches without a root.
THEOREM GuardedGrader == Spec => []GraderIsGuarded
<1>1. IInv => GraderIsGuarded
  <2> SUFFICES ASSUME IInv, phase = "assembled",
                      NEW p \in BundleFiles, NEW pattern \in GraderPaths,
                      Matches(p, pattern), Anchored(pattern), p[Len(p)] \notin DOMAIN Chomped
               PROVE  \E root \in guardRoots : p = root \/ Inside(p, root)
    BY DEF GraderIsGuarded
  <2>1. /\ tree = [q \in Path |-> Stripped(q)]
        /\ guardRoots = ExistingRoots(tree, GraderPaths)
    BY DEF IInv, AssemblyInv
  <2>2. p \in FilesOf(tree) /\ p \in Seq(STRING)
    BY <2>1, WorkspaceAssumption DEF BundleFiles, FilesOf, Stripped, Injected, WorkspaceAssumption
  <2> DEFINE root == LiteralHead(pattern)
  <2>3. \E q \in Readings(p) : q = root \/ Inside(q, root)
    BY <2>2, LiteralHeadIsPrefix, WorkspaceAssumption DEF WorkspaceAssumption
  <2>4. Readings(p) = {p}
    BY DEF Readings
  <2>5. root # <<>>
    BY DEF Anchored
  <2> HIDE DEF root
  <2>6. p = root \/ Inside(p, root)
    BY <2>3, <2>4
  <2>7. root \in guardRoots
    BY <2>1, <2>2, <2>5, <2>6 DEF ExistingRoots, root
  <2> QED
    BY <2>6, <2>7
<1> QED
  BY <1>1, Invariance, PTL

=============================================================================
