---------------------------- MODULE SealedProofs ----------------------------
(***************************************************************************)
(* For every set of evaluations, executions and bundles: a verdict that    *)
(* run_sealed_evaluation returns was graded against the pinned grader, and *)
(* a volume that reports success holds a result.                           *)
(*                                                                         *)
(* The induction is over IInv. A produced manifest stays produced, since   *)
(* nothing touches the grading of an execution that has begun to write     *)
(* (ProducedStays); so it suffices to look at the steps that put a         *)
(* manifest somewhere.                                                     *)
(***************************************************************************)
EXTENDS SealedEvaluation, TLAPS

\* The stages in which an execution may have left a manifest.
Left == {"written", "succeeded", "ended"}

\* A manifest is not the absence of one.
LEMMA ManifestIsThere == \A m \in Manifest : m # NoFile
BY FileAssumption

\* The initial state satisfies the invariant.
LEMMA InitIInv == Init => IInv
<1>. SUFFICES ASSUME Init PROVE IInv
  OBVIOUS
<1>. USE DEF Init, NoOutput, NoJob, NoDispatch
<1>1. TypeOK
  BY SealedAssumption DEF TypeOK, Input, Output, Call, Run, Status
<1>2. GradedIsPinned /\ JobHasEvaluation /\ DispatchHasEvaluation /\ WrittenHasManifest
  BY DEF GradedIsPinned, JobHasEvaluation, DispatchHasEvaluation, WrittenHasManifest
<1>3. ManifestsProduced /\ VerdictIsGraded
  BY DEF ManifestsProduced, VerdictIsGraded
<1>4. SuccessHasResult
  BY SealedAssumption DEF SuccessHasResult
<1>. QED
  BY <1>1, <1>2, <1>3, <1>4 DEF IInv

\* What an execution left behind stays what it graded: its evaluation, its bundle
\* and its verdict change no more.
LEMMA JobsStep ==
    ASSUME TypeOK, [Next]_vars, NEW x \in Execution, jobs[x].stage \in Left
    PROVE  /\ jobs'[x].stage \in Left
           /\ jobs'[x].evaluation = jobs[x].evaluation
           /\ jobs'[x].graded = jobs[x].graded
           /\ jobs'[x].verdict = jobs[x].verdict
<1>. USE DEF Left, TypeOK, Run
<1>1. CASE UNCHANGED jobs
  BY <1>1
<1>2. CASE \E y \in Execution : Execute(y)
  BY <1>2 DEF Execute
<1>3. CASE \E y \in Execution : Job(y)
  <2>. PICK y \in Execution : Job(y)
    BY <1>3
  <2>1. CASE JobLoads(y) \/ JobGrades(y)
    BY <2>1 DEF JobLoads, JobGrades
  <2>2. CASE JobRefuses(y) \/ WriteFirst(y)
    BY <2>2 DEF JobRefuses, WriteFirst, JobMoves
  <2>3. CASE WriteSecond(y) \/ JobKilled(y)
    BY <2>3 DEF WriteSecond, JobKilled, JobMoves
  <2>. QED
    BY <2>1, <2>2, <2>3 DEF Job
<1>. QED
  BY <1>1, <1>2, <1>3 DEF Next, vars, EditBundle, BuildRequest, Orchestrate, PackInputs,
     StageInput, ExecuteReturns, Download, GcloudFails, VerifyResult

\* A produced manifest stays produced.
LEMMA ProducedStays ==
    ASSUME TypeOK, [Next]_vars, NEW m \in Manifest, Produced(m)
    PROVE  Produced(m)'
<1>1. m.by \in Execution
  BY DEF Manifest
<1>2. jobs[m.by].stage \in Left
  BY DEF Produced, Left
<1>. QED
  BY <1>1, <1>2, JobsStep DEF Produced, Left

\* A call under way has an evaluation, and NoDispatch is a call.
LEMMA CallTypes ==
    ASSUME IInv
    PROVE  /\ NoDispatch \in Call
           /\ dispatch.stage # "idle" => dispatch.evaluation \in Evaluation
           /\ dispatch.stage \in {"waiting", "reading"} => dispatch.execution \in Execution
BY DEF NoDispatch, Call, IInv, DispatchHasEvaluation

\* Types, for the steps of the orchestrator.
LEMMA OrchestratorTypes ==
    ASSUME IInv,
           EditBundle \/ (\E e \in Evaluation : BuildRequest(e)) \/ Orchestrate
    PROVE  TypeOK'
<1>. USE CallTypes DEF IInv, TypeOK
<1>1. CASE EditBundle
  BY <1>1 DEF EditBundle
<1>2. CASE \E e \in Evaluation : BuildRequest(e)
  <2>1. dispatch' \in Call
    BY <1>2 DEF BuildRequest, Call
  <2>. QED
    BY <1>2, <2>1 DEF BuildRequest
<1>3. CASE PackInputs
  <2>1. dispatch' \in Call
    BY <1>3 DEF PackInputs, Call, Gcloud
  <2>. QED
    BY <1>3, <2>1 DEF PackInputs
<1>4. CASE \E f \in {"request", "grader"} : StageInput(f)
  <2>. PICK f \in {"request", "grader"} : StageInput(f)
    BY <1>4
  <2>1. dispatch' \in Call
    BY DEF StageInput, Call
  <2>2. inputs' \in [Evaluation -> Input]
    BY DEF StageInput, Call, Input
  <2>. QED
    BY <2>1, <2>2 DEF StageInput
<1>5. CASE \E x \in Execution : Execute(x)
  <2>. PICK x \in Execution : Execute(x)
    BY <1>5
  <2>1. dispatch' \in Call
    BY DEF Execute, Call, Gcloud
  <2>2. [NoJob EXCEPT !.stage = "started", !.evaluation = dispatch.evaluation] \in Run
    BY DEF Execute, NoJob, Run
  <2>. QED
    BY <2>1, <2>2 DEF Execute
<1>6. CASE ExecuteReturns
  <2>1. dispatch' \in Call
    BY <1>6 DEF ExecuteReturns, Call, Gcloud
  <2>. QED
    BY <1>6, <2>1 DEF ExecuteReturns
<1>7. CASE \E f \in {"manifest", "status"} : Download(f)
  <2>. PICK f \in {"manifest", "status"} : Download(f)
    BY <1>7
  <2>1. dispatch' \in Call
    BY DEF Download, Call
  <2>2. outputs[dispatch.evaluation] \in Output
    BY DEF Download
  <2>3. local' \in Output
    BY <2>2 DEF Download, Output
  <2>. QED
    BY <2>1, <2>3 DEF Download
<1>8. CASE GcloudFails
  BY <1>8 DEF GcloudFails
<1>9. CASE VerifyResult
  <2>1. dispatch' = NoDispatch /\ UNCHANGED <<bundle, inputs, outputs, local, jobs>>
    BY <1>9 DEF VerifyResult
  <2>2. dispatch.evaluation \in Evaluation /\ dispatch.execution \in Execution
    BY <1>9 DEF VerifyResult
  <2>3. Describes(local, dispatch) => local.manifest \in Manifest
    BY DEF Describes, Output
  <2>4. accepted' \subseteq [evaluation : Evaluation, execution : Execution, manifest : Manifest]
    BY <1>9, <2>2, <2>3 DEF VerifyResult
  <2>. QED
    BY <2>1, <2>4
<1>. QED
  BY <1>1, <1>2, <1>3, <1>4, <1>5, <1>6, <1>7, <1>8, <1>9 DEF Orchestrate

\* What an execution that has graded writes is a manifest.
LEMMA ManifestType ==
    ASSUME IInv, NEW x \in Execution, jobs[x].stage = "graded"
    PROVE  ManifestOf(x) \in Manifest
BY SealedAssumption DEF IInv, GradedIsPinned, ManifestOf, Manifest

\* Types, for the steps of an execution.
LEMMA JobTypes ==
    ASSUME IInv, NEW x \in Execution, Job(x)
    PROVE  TypeOK'
<1>. USE DEF IInv, TypeOK
<1>. DEFINE e == jobs[x].evaluation
<1>1. e \in Evaluation
  BY DEF JobHasEvaluation, Job, JobLoads, JobGrades, JobRefuses, WriteFirst, WriteSecond,
         JobKilled
<1>2. \A stage \in {"written", "succeeded", "ended"} :
          [jobs EXCEPT ![x].stage = stage, ![x].request = NoBundle] \in [Execution -> Run]
  BY DEF Run
<1>3. CASE JobLoads(x)
  <2>1. inputs[e].request \in Bundle \cup {NoBundle}
    BY <1>1 DEF Input
  <2>2. [jobs[x] EXCEPT !.stage = "loaded", !.request = inputs[e].request] \in Run
    BY <2>1 DEF Run
  <2>3. jobs' = [jobs EXCEPT ![x] = [jobs[x] EXCEPT !.stage = "loaded",
                                                   !.request = inputs[e].request]]
    BY <1>3 DEF JobLoads
  <2>4. jobs' \in [Execution -> Run]
    BY <2>2, <2>3
  <2>. QED
    BY <1>3, <2>4 DEF JobLoads
<1>4. CASE JobGrades(x)
  <2>1. inputs[e].grader \in Bundle \cup {NoBundle}
    BY <1>1 DEF Input
  <2>2. PICK v \in Verdict :
          jobs' = [jobs EXCEPT ![x] = [jobs[x] EXCEPT !.stage = "graded",
                                                     !.request = NoBundle,
                                                     !.graded = inputs[e].grader,
                                                     !.verdict = v]]
    BY <1>4 DEF JobGrades
  <2>3. [jobs[x] EXCEPT !.stage = "graded", !.request = NoBundle,
                        !.graded = inputs[e].grader, !.verdict = v] \in Run
    BY <2>1 DEF Run
  <2>4. jobs' \in [Execution -> Run]
    BY <2>2, <2>3
  <2>. QED
    BY <1>4, <2>4 DEF JobGrades
<1>5. CASE JobRefuses(x)
  <2>1. outputs' \in [Evaluation -> Output]
    BY <1>1, <1>5 DEF JobRefuses, Output, Status
  <2>. QED
    BY <1>2, <1>5, <2>1 DEF JobRefuses, JobMoves
<1>6. CASE WriteFirst(x)
  <2>1. outputs' \in [Evaluation -> Output]
    BY <1>1, <1>6, ManifestType DEF WriteFirst, First, FileOf, Output
  <2>. QED
    BY <1>2, <1>6, <2>1 DEF WriteFirst, JobMoves
<1>7. CASE WriteSecond(x)
  <2>1. outputs' \in [Evaluation -> Output]
    BY <1>1, <1>7 DEF WriteSecond, First, FileOf, Output, Status
  <2>. QED
    BY <1>2, <1>7, <2>1 DEF WriteSecond, JobMoves
<1>8. CASE JobKilled(x)
  BY <1>2, <1>8 DEF JobKilled, JobMoves
<1>. QED
  BY <1>3, <1>4, <1>5, <1>6, <1>7, <1>8 DEF Job

\* The invariants of the executions: an execution that graded did so against the
\* pinned bundle.
LEMMA JobsInvariants ==
    ASSUME IInv, [Next]_vars
    PROVE  GradedIsPinned' /\ JobHasEvaluation'
<1>. USE DEF IInv, TypeOK, Run, GradedIsPinned, JobHasEvaluation
<1>1. CASE UNCHANGED jobs
  BY <1>1
<1>2. CASE \E y \in Execution : Execute(y)
  BY <1>2 DEF Execute, DispatchHasEvaluation
<1>3. CASE \E y \in Execution : Job(y)
  <2>. PICK y \in Execution : Job(y)
    BY <1>3
  <2>1. CASE JobLoads(y)
    BY <2>1 DEF JobLoads
  <2>2. CASE JobGrades(y)
    BY <2>2 DEF JobGrades, Grades
  <2>3. CASE JobRefuses(y) \/ WriteFirst(y)
    BY <2>3 DEF JobRefuses, WriteFirst, JobMoves
  <2>4. CASE WriteSecond(y) \/ JobKilled(y)
    BY <2>4 DEF WriteSecond, JobKilled, JobMoves
  <2>. QED
    BY <2>1, <2>2, <2>3, <2>4 DEF Job
<1>. QED
  BY <1>1, <1>2, <1>3 DEF Next, vars, EditBundle, BuildRequest, Orchestrate, PackInputs,
     StageInput, ExecuteReturns, Download, GcloudFails, VerifyResult

\* The orchestrator's call knows what it is about.
LEMMA DispatchInvariant ==
    ASSUME IInv, [Next]_vars
    PROVE  DispatchHasEvaluation'
<1>. USE DEF IInv, TypeOK, Call, DispatchHasEvaluation
<1>1. CASE UNCHANGED dispatch
  BY <1>1
<1>2. CASE (\E e \in Evaluation : BuildRequest(e)) \/ PackInputs
  BY <1>2 DEF BuildRequest, PackInputs, NoDispatch
<1>3. CASE \E f \in {"request", "grader"} : StageInput(f)
  BY <1>3 DEF StageInput
<1>4. CASE (\E x \in Execution : Execute(x)) \/ ExecuteReturns
  BY <1>4 DEF Execute, ExecuteReturns
<1>5. CASE \E f \in {"manifest", "status"} : Download(f)
  BY <1>5 DEF Download
<1>6. CASE GcloudFails \/ VerifyResult
  BY <1>6 DEF GcloudFails, VerifyResult, NoDispatch
<1>. QED
  BY <1>1, <1>2, <1>3, <1>4, <1>5, <1>6 DEF Next, vars, EditBundle, Orchestrate, Job,
     JobLoads, JobGrades, JobRefuses, WriteFirst, WriteSecond, JobKilled, JobMoves

\* The manifests on the volume, in the orchestrator's copy and in what it returned
\* were produced.
LEMMA ManifestsStep ==
    ASSUME IInv, [Next]_vars
    PROVE  ManifestsProduced' /\ VerdictIsGraded'
<1>. USE DEF IInv, ManifestsProduced, VerdictIsGraded
<1>1. \A m \in Manifest : Produced(m) => Produced(m)'
  BY ProducedStays
<1>2. /\ \A e \in Evaluation : outputs[e].manifest \in Manifest \cup {NoFile}
      /\ local.manifest \in Manifest \cup {NoFile}
      /\ \A a \in accepted : a.manifest \in Manifest
  BY DEF TypeOK, Output
<1>3. CASE UNCHANGED <<outputs, local, accepted>>
  BY <1>1, <1>2, <1>3
<1>4. CASE \E f \in {"manifest", "status"} : Download(f)
  <2>1. UNCHANGED <<outputs, accepted>>
    BY <1>4 DEF Download
  <2>2. dispatch.evaluation \in Evaluation
    BY <1>4 DEF Download, DispatchHasEvaluation
  <2>3. local'.manifest \in {local.manifest, outputs[dispatch.evaluation].manifest}
    BY <1>4, <2>2 DEF Download, TypeOK, Output
  <2>. QED
    BY <1>1, <1>2, <2>1, <2>2, <2>3
<1>5. CASE VerifyResult
  <2>1. UNCHANGED <<outputs, local>>
    BY <1>5 DEF VerifyResult
  <2>2. \A a \in accepted' : a \in accepted \/ (/\ a.manifest = local.manifest
                                                /\ a.manifest.evaluation = a.evaluation
                                                /\ local.manifest # NoFile)
    BY <1>5 DEF VerifyResult, Describes
  <2>. QED
    BY <1>1, <1>2, <2>1, <2>2
<1>6. CASE \E x \in Execution : JobRefuses(x) \/ WriteSecond(x)
  <2>1. UNCHANGED <<local, accepted>>
    BY <1>6 DEF JobRefuses, WriteSecond, JobMoves
  <2>2. \A e \in Evaluation : outputs'[e].manifest = outputs[e].manifest
    <3>. PICK x \in Execution : JobRefuses(x) \/ WriteSecond(x)
      BY <1>6
    <3>. DEFINE d == jobs[x].evaluation
    <3>1. CASE JobRefuses(x)
      <4>1. outputs' = [outputs EXCEPT ![d] = [outputs[d] EXCEPT !.status = "failed"]]
        BY <3>1 DEF JobRefuses
      <4>. QED
        BY <4>1 DEF TypeOK, Output
    <3>2. CASE WriteSecond(x)
      <4>1. outputs' = [outputs EXCEPT ![d] = [outputs[d] EXCEPT !.status = FileOf("status", x)]]
        BY <3>2 DEF WriteSecond, First
      <4>. QED
        BY <4>1 DEF TypeOK, Output
    <3>. QED
      BY <3>1, <3>2
  <2>. QED
    BY <1>1, <1>2, <2>1, <2>2
<1>7. CASE \E x \in Execution : WriteFirst(x)
  <2>. PICK x \in Execution : WriteFirst(x)
    BY <1>7
  <2>1. UNCHANGED <<local, accepted>>
    BY DEF WriteFirst, JobMoves
  <2>2. /\ jobs[x].evaluation \in Evaluation
        /\ jobs[x].graded = Pinned
    BY DEF WriteFirst, GradedIsPinned
  <2>3. Produced(ManifestOf(x))'
    BY <2>2 DEF WriteFirst, JobMoves, Produced, ManifestOf, TypeOK, Run
  <2>4. ManifestOf(x)' = ManifestOf(x)
    BY DEF WriteFirst, JobMoves, ManifestOf, TypeOK, Run
  <2>5. \A e \in Evaluation :
          outputs'[e].manifest = IF e = jobs[x].evaluation THEN ManifestOf(x)
                                                           ELSE outputs[e].manifest
    BY DEF WriteFirst, First, FileOf, TypeOK, Output
  <2>6. ManifestOf(x).evaluation = jobs[x].evaluation
    BY DEF ManifestOf
  <2>. QED
    BY <1>1, <1>2, <2>1, <2>2, <2>3, <2>4, <2>5, <2>6
<1>. QED
  BY <1>3, <1>4, <1>5, <1>6, <1>7 DEF Next, vars, EditBundle, BuildRequest, Orchestrate,
     PackInputs, StageInput, Execute, ExecuteReturns, GcloudFails, Job, JobLoads,
     JobGrades, JobKilled, JobMoves

\* A volume keeps its manifest, so a success that is written has one.
LEMMA SuccessStep ==
    ASSUME IInv, [Next]_vars
    PROVE  WrittenHasManifest' /\ SuccessHasResult'
<1>. USE DEF IInv, TypeOK, Output, Run, WrittenHasManifest, SuccessHasResult
<1>1. CASE UNCHANGED <<outputs, jobs>>
  BY <1>1
<1>2. CASE \E x \in Execution : Execute(x) \/ JobLoads(x) \/ JobGrades(x)
  <2>. PICK x \in Execution : Execute(x) \/ JobLoads(x) \/ JobGrades(x)
    BY <1>2
  <2>1. UNCHANGED outputs /\ jobs'[x].stage # "written"
    <3>1. CASE Execute(x)
      BY <3>1 DEF Execute, NoJob
    <3>2. CASE JobLoads(x)
      BY <3>2 DEF JobLoads
    <3>3. CASE JobGrades(x)
      <4>1. PICK v \in Verdict :
              jobs' = [jobs EXCEPT ![x] = [jobs[x] EXCEPT !.stage = "graded",
                                                         !.request = NoBundle,
                                                         !.graded = inputs[jobs[x].evaluation].grader,
                                                         !.verdict = v]]
        BY <3>3 DEF JobGrades
      <4>2. UNCHANGED outputs
        BY <3>3 DEF JobGrades
      <4>. QED
        BY <4>1, <4>2
    <3>. QED
      BY <3>1, <3>2, <3>3
  <2>2. \A y \in Execution \ {x} : jobs'[y] = jobs[y]
    BY DEF Execute, JobLoads, JobGrades
  <2>. QED
    BY <2>1, <2>2
<1>3. CASE \E x \in Execution : JobKilled(x)
  BY <1>3 DEF JobKilled, JobMoves
<1>4. CASE \E x \in Execution : JobRefuses(x)
  BY <1>4, SealedAssumption DEF JobRefuses, JobMoves
<1>5. CASE \E x \in Execution : WriteFirst(x)
  <2>. PICK x \in Execution : WriteFirst(x)
    BY <1>5
  <2>1. ManifestOf(x) # NoFile
    BY ManifestIsThere, ManifestType DEF WriteFirst
  <2>. QED
    BY <2>1 DEF WriteFirst, JobMoves, First, FileOf, JobHasEvaluation
<1>6. CASE \E x \in Execution : WriteSecond(x)
  BY <1>6 DEF WriteSecond, JobMoves, First, FileOf, JobHasEvaluation
<1>. QED
  BY <1>1, <1>2, <1>3, <1>4, <1>5, <1>6 DEF Next, vars, EditBundle, BuildRequest,
     Orchestrate, PackInputs, StageInput, ExecuteReturns, Download, GcloudFails,
     VerifyResult, Job

\* Every step keeps the invariant.
LEMMA StepIInv == IInv /\ [Next]_vars => IInv'
<1>. SUFFICES ASSUME IInv, [Next]_vars PROVE IInv'
  OBVIOUS
<1>1. TypeOK'
  <2>1. CASE UNCHANGED vars
    BY <2>1 DEF vars, IInv, TypeOK
  <2>2. CASE Next
    BY <2>2, OrchestratorTypes, JobTypes DEF Next
  <2>. QED
    BY <2>1, <2>2
<1>. QED
  BY <1>1, JobsInvariants, DispatchInvariant, ManifestsStep, SuccessStep DEF IInv

\* IInv holds throughout.
THEOREM Invariance == Spec => []IInv
BY InitIInv, StepIInv, PTL DEF Spec

\* The variables have their types.
THEOREM TypeCorrect == Spec => []TypeOK
<1>1. IInv => TypeOK
  BY DEF IInv
<1>. QED
  BY <1>1, Invariance, PTL

\* Whatever run_sealed_evaluation returns was graded, for that evaluation, against
\* the grader the contract pins.
THEOREM NoManufacturedVerdict == Spec => []VerdictIsGraded
<1>1. IInv => VerdictIsGraded
  BY DEF IInv
<1>. QED
  BY <1>1, Invariance, PTL

\* A volume that reports success holds a manifest, wherever a job was killed.
THEOREM NoSuccessWithoutResult == Spec => []SuccessHasResult
<1>1. IInv => SuccessHasResult
  BY DEF IInv
<1>. QED
  BY <1>1, Invariance, PTL

=============================================================================
