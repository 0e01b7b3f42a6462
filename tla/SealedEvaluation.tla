-------------------------- MODULE SealedEvaluation --------------------------
(***************************************************************************)
(* run_sealed_evaluation (mergegate/verifier/dispatch.py) and the job it   *)
(* starts (job.py, evaluate.py), with the storage volume between them.     *)
(*                                                                         *)
(* The orchestrator dispatches one evaluation at a time, each any number   *)
(* of times. A gcloud call may fail or exceed its timeout at any point;    *)
(* the execution it was waiting for then goes on, beside the next one of   *)
(* the same evaluation, which uses the same volume prefix. The grader      *)
(* bundle on the orchestrator's disk may change in between.                *)
(*                                                                         *)
(* Files are read and written one by one. Of a manifest are kept what      *)
(* verify_result compares, the verdict, and two histories: the bundle it   *)
(* was graded against and the execution that wrote it.                     *)
(***************************************************************************)
EXTENDS Naturals

CONSTANTS
    Evaluation,     \* correlation ids: a contract hash and a commit
    Execution,      \* executions of the Cloud Run job
    NoExecution,
    Bundle,         \* grader bundles, by their hashes
    Pinned,         \* the bundle the contracts pin
    NoBundle,
    NoFile          \* a file that is not there

Verdict == {"PASS", "FAIL"}

ASSUME SealedAssumption ==
    /\ Pinned \in Bundle /\ NoBundle \notin Bundle
    /\ NoExecution \notin Execution
    /\ {NoFile, "failed"} \cap Evaluation = {}

Manifest ==
    [evaluation : Evaluation, grader : {Pinned}, verdict : Verdict,
     graded : Bundle, by : Execution]

ASSUME FileAssumption == NoFile \notin Manifest \cup Bundle

\* status.json: a success names its correlation id, a failure names none.
Status == Evaluation \cup {"failed", NoFile}

VARIABLES
    bundle,     \* the grader bundle on the orchestrator's disk
    inputs,     \* per evaluation, what in/ of its prefix holds
    outputs,    \* per evaluation, what out/ of its prefix holds
    local,      \* workdir/result, the copy of out/ the orchestrator reads
    dispatch,   \* the call of run_sealed_evaluation under way
    jobs,       \* the executions
    accepted    \* the SealedEvaluations returned

vars == <<bundle, inputs, outputs, local, dispatch, jobs, accepted>>

NoOutput == [manifest |-> NoFile, status |-> NoFile]

NoJob == [stage |-> "none", evaluation |-> NoFile, request |-> NoBundle,
          graded |-> NoBundle, verdict |-> "none"]

NoDispatch == [stage |-> "idle", evaluation |-> NoFile, request |-> NoBundle,
               packed |-> NoBundle, files |-> {}, execution |-> NoExecution]

-----------------------------------------------------------------------------

Init ==
    /\ bundle = Pinned
    /\ inputs = [e \in Evaluation |-> [request |-> NoBundle, grader |-> NoBundle]]
    /\ outputs = [e \in Evaluation |-> NoOutput]
    /\ local = NoOutput
    /\ dispatch = NoDispatch
    /\ jobs = [x \in Execution |-> NoJob]
    /\ accepted = {}

\* Someone works on the grader directory.
EditBundle ==
    /\ bundle' \in Bundle \ {bundle}
    /\ UNCHANGED <<inputs, outputs, local, dispatch, jobs, accepted>>

-----------------------------------------------------------------------------
(* The orchestrator *)

\* build_request hashes the bundle into the request. Execution bounds the calls:
\* none is made once every execution has been started.
BuildRequest(e) ==
    /\ dispatch.stage = "idle"
    /\ \E x \in Execution : jobs[x].stage = "none"
    /\ dispatch' = [NoDispatch EXCEPT !.stage = "built", !.evaluation = e, !.request = bundle]
    /\ UNCHANGED <<bundle, inputs, outputs, local, jobs, accepted>>

\* pack_inputs reads the bundle again.
PackInputs ==
    /\ dispatch.stage = "built"
    /\ dispatch' = [dispatch EXCEPT !.stage = "staging", !.packed = bundle,
                                    !.files = {"request", "grader"}]
    /\ UNCHANGED <<bundle, inputs, outputs, local, jobs, accepted>>

\* rsync uploads a file.
StageInput(f) ==
    /\ dispatch.stage = "staging" /\ f \in dispatch.files
    /\ inputs' = [inputs EXCEPT ![dispatch.evaluation][f] =
                     IF f = "request" THEN dispatch.request ELSE dispatch.packed]
    /\ dispatch' = [dispatch EXCEPT !.files = @ \ {f}]
    /\ UNCHANGED <<bundle, outputs, local, jobs, accepted>>

\* gcloud run jobs execute.
Execute(x) ==
    /\ dispatch.stage = "staging" /\ dispatch.files = {}
    /\ jobs[x].stage = "none"
    /\ jobs' = [jobs EXCEPT ![x] = [NoJob EXCEPT !.stage = "started",
                                                 !.evaluation = dispatch.evaluation]]
    /\ dispatch' = [dispatch EXCEPT !.stage = "waiting", !.execution = x,
                                    !.packed = NoBundle]
    /\ UNCHANGED <<bundle, inputs, outputs, local, accepted>>

\* --wait: the execution succeeded.
ExecuteReturns ==
    /\ dispatch.stage = "waiting"
    /\ jobs[dispatch.execution].stage = "succeeded"
    /\ dispatch' = [dispatch EXCEPT !.stage = "reading", !.files = {"manifest", "status"}]
    /\ UNCHANGED <<bundle, inputs, outputs, local, jobs, accepted>>

\* rsync downloads a file, and deletes none that is not at the source.
Download(f) ==
    LET source == outputs[dispatch.evaluation][f]
    IN  /\ dispatch.stage = "reading" /\ f \in dispatch.files
        /\ local' = IF source = NoFile THEN local ELSE [local EXCEPT ![f] = source]
        /\ dispatch' = [dispatch EXCEPT !.files = @ \ {f}]
        /\ UNCHANGED <<bundle, inputs, outputs, jobs, accepted>>

\* Mutant: waiting for the execution has no timeout.
MutantGcloud == {"staging", "reading"}

\* The stages in which gcloud runs, under a timeout.
Gcloud == {"staging", "waiting", "reading"}

\* A gcloud call fails, is lost, or is killed by its timeout: an exception leaves
\* the call, and nothing is undone.
GcloudFails ==
    /\ dispatch.stage \in Gcloud
    /\ dispatch' = NoDispatch
    /\ UNCHANGED <<bundle, inputs, outputs, local, jobs, accepted>>

\* verify_result, field by field.
Describes(output, request) ==
    /\ output.status = request.evaluation
    /\ output.manifest # NoFile
    /\ output.manifest.evaluation = request.evaluation
    /\ output.manifest.grader = request.request

\* The result is returned under the execution the call started, or refused.
VerifyResult ==
    /\ dispatch.stage = "reading" /\ dispatch.files = {}
    /\ accepted' =
          IF Describes(local, dispatch)
          THEN accepted \cup {[evaluation |-> dispatch.evaluation,
                               execution |-> dispatch.execution,
                               manifest |-> local.manifest]}
          ELSE accepted
    /\ dispatch' = NoDispatch
    /\ UNCHANGED <<bundle, inputs, outputs, local, jobs>>

-----------------------------------------------------------------------------
(* The job *)

\* The request an execution loaded is of no use once it has graded.
JobMoves(x, stage) ==
    /\ jobs' = [jobs EXCEPT ![x].stage = stage, ![x].request = NoBundle]
    /\ UNCHANGED <<bundle, inputs, local, dispatch, accepted>>

\* JobRequest.load.
JobLoads(x) ==
    /\ jobs[x].stage = "started"
    /\ jobs' = [jobs EXCEPT ![x].stage = "loaded",
                            ![x].request = inputs[jobs[x].evaluation].request]
    /\ UNCHANGED <<bundle, inputs, outputs, local, dispatch, accepted>>

\* Mutant: evaluate takes the bundle on trust.
MutantGrades(grader, request) == grader = request

\* run_job compares the bundle on the volume with the request, evaluate with the
\* hash the contract pins.
Grades(grader, request) == grader = request /\ grader = Pinned

\* The bundle is extracted and the commit graded. A pinned command that times out
\* is a FAIL, so two executions of one evaluation may disagree.
JobGrades(x) ==
    LET grader == inputs[jobs[x].evaluation].grader
    IN  /\ jobs[x].stage = "loaded"
        /\ Grades(grader, jobs[x].request)
        /\ \E v \in Verdict :
              jobs' = [jobs EXCEPT ![x].stage = "graded", ![x].request = NoBundle,
                                   ![x].graded = grader, ![x].verdict = v]
        /\ UNCHANGED <<bundle, inputs, outputs, local, dispatch, accepted>>

\* fail(), on a bundle that does not match and on any exception: status.json alone
\* is written, over whatever was there.
JobRefuses(x) ==
    /\ jobs[x].stage \in {"started", "loaded"}
    /\ outputs' = [outputs EXCEPT ![jobs[x].evaluation].status = "failed"]
    /\ JobMoves(x, "ended")

\* Mutant: the status is written before the manifest.
MutantFirst == "status"

\* manifest.json first, then status.json.
First == "manifest"

ManifestOf(x) ==
    [evaluation |-> jobs[x].evaluation, grader |-> Pinned, verdict |-> jobs[x].verdict,
     graded |-> jobs[x].graded, by |-> x]

\* Mutant: the status of a success carries the verdict for its correlation id.
MutantFileOf(f, x) == IF f = "manifest" THEN ManifestOf(x) ELSE jobs[x].verdict

FileOf(f, x) == IF f = "manifest" THEN ManifestOf(x) ELSE jobs[x].evaluation

WriteFirst(x) ==
    /\ jobs[x].stage = "graded"
    /\ outputs' = [outputs EXCEPT ![jobs[x].evaluation][First] = FileOf(First, x)]
    /\ JobMoves(x, "written")

WriteSecond(x) ==
    /\ jobs[x].stage = "written"
    /\ \E f \in {"manifest", "status"} \ {First} :
          outputs' = [outputs EXCEPT ![jobs[x].evaluation][f] = FileOf(f, x)]
    /\ JobMoves(x, "succeeded")

\* The platform ends the execution: its own timeout, or a lost instance.
JobKilled(x) ==
    /\ jobs[x].stage \in {"started", "loaded", "graded", "written"}
    /\ JobMoves(x, "ended")
    /\ UNCHANGED outputs

-----------------------------------------------------------------------------

Orchestrate ==
    \/ PackInputs
    \/ \E f \in {"request", "grader"} : StageInput(f)
    \/ \E x \in Execution : Execute(x)
    \/ ExecuteReturns
    \/ \E f \in {"manifest", "status"} : Download(f)
    \/ GcloudFails
    \/ VerifyResult

Job(x) ==
    \/ JobLoads(x) \/ JobGrades(x) \/ JobRefuses(x)
    \/ WriteFirst(x) \/ WriteSecond(x) \/ JobKilled(x)

Next ==
    \/ EditBundle
    \/ \E e \in Evaluation : BuildRequest(e)
    \/ Orchestrate
    \/ \E x \in Execution : Job(x)

Spec == Init /\ [][Next]_vars

\* The orchestrator goes on; an execution may hang for ever.
FairSpec == Spec /\ WF_vars(Orchestrate)

-----------------------------------------------------------------------------
(* Properties *)

Input == [request : Bundle \cup {NoBundle}, grader : Bundle \cup {NoBundle}]

Output == [manifest : Manifest \cup {NoFile}, status : Status]

Call ==
    [stage : {"idle", "built"} \cup Gcloud, evaluation : Evaluation \cup {NoFile},
     request : Bundle \cup {NoBundle}, packed : Bundle \cup {NoBundle},
     files : SUBSET {"request", "grader", "manifest", "status"},
     execution : Execution \cup {NoExecution}]

Run ==
    [stage : {"none", "started", "loaded", "graded", "written", "succeeded", "ended"},
     evaluation : Evaluation \cup {NoFile}, request : Bundle \cup {NoBundle},
     graded : Bundle \cup {NoBundle}, verdict : Verdict \cup {"none"}]

\* Types of the variables.
TypeOK ==
    /\ bundle \in Bundle
    /\ inputs \in [Evaluation -> Input]
    /\ outputs \in [Evaluation -> Output]
    /\ local \in Output
    /\ dispatch \in Call
    /\ jobs \in [Execution -> Run]
    /\ accepted \subseteq
          [evaluation : Evaluation, execution : Execution, manifest : Manifest]

\* A manifest an execution arrived at, over the bundle the contract pins.
Produced(m) ==
    /\ m.graded = Pinned
    /\ jobs[m.by].stage \in {"written", "succeeded", "ended"}
    /\ jobs[m.by].evaluation = m.evaluation
    /\ jobs[m.by].graded = Pinned
    /\ jobs[m.by].verdict = m.verdict

\* "Nothing here can manufacture a verdict": whatever is accepted for an evaluation
\* was graded by an execution of that evaluation against the pinned grader,
\* however the bundle was edited, the calls failed and the executions overlapped.
VerdictIsGraded ==
    \A a \in accepted : a.manifest.evaluation = a.evaluation /\ Produced(a.manifest)

\* A volume that reports success holds a result, whenever the job was killed
\* (job.py: "never 0 without a manifest").
SuccessHasResult ==
    \A e \in Evaluation : outputs[e].status = e => outputs[e].manifest # NoFile

\* Every call of run_sealed_evaluation ends, with a hung execution too.
DispatchEnds == (dispatch.stage # "idle") ~> (dispatch.stage = "idle")

\* The execution a receipt names is the one that produced the verdict
\* (receipt.py:113-114).
ReceiptNamesItsExecution == \A a \in accepted : a.manifest.by = a.execution

-----------------------------------------------------------------------------
(* The inductive invariant of SealedProofs *)

\* Grading means grading against the pinned bundle.
GradedIsPinned ==
    \A x \in Execution :
        jobs[x].stage \in {"graded", "written", "succeeded"} =>
            /\ jobs[x].evaluation \in Evaluation
            /\ jobs[x].graded = Pinned
            /\ jobs[x].verdict \in Verdict

\* An execution that is under way has an evaluation.
JobHasEvaluation ==
    \A x \in Execution : jobs[x].stage # "none" => jobs[x].evaluation \in Evaluation

\* The orchestrator's call has an evaluation, and an execution once it waits.
DispatchHasEvaluation ==
    /\ dispatch.stage # "idle" => dispatch.evaluation \in Evaluation
    /\ dispatch.stage \in {"waiting", "reading"} => dispatch.execution \in Execution

\* Every manifest there is was produced, on the volume under its own prefix.
ManifestsProduced ==
    /\ \A e \in Evaluation :
          outputs[e].manifest # NoFile =>
              outputs[e].manifest.evaluation = e /\ Produced(outputs[e].manifest)
    /\ local.manifest # NoFile => Produced(local.manifest)

\* Between its two writes an execution has left a manifest.
WrittenHasManifest ==
    \A x \in Execution :
        jobs[x].stage = "written" => outputs[jobs[x].evaluation].manifest # NoFile

IInv ==
    /\ TypeOK
    /\ GradedIsPinned
    /\ JobHasEvaluation
    /\ DispatchHasEvaluation
    /\ ManifestsProduced
    /\ WrittenHasManifest
    /\ VerdictIsGraded
    /\ SuccessHasResult

=============================================================================
