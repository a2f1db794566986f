----------------------------- MODULE WorkflowDag -----------------------------
(***************************************************************************)
(* One run of a workflow: workflowService.Execute and runAsync, and the    *)
(* DAG engine (Engine.Execute) with its main loop, one goroutine per step, *)
(* the shared outputs map and the pending counters behind one mutex.       *)
(*                                                                         *)
(* Steps are identified with their names. The dependency rows are any      *)
(* relation on the steps: insertSteps refuses an unknown name, the primary *)
(* key a duplicate row, and nothing refuses a cycle.                       *)
(***************************************************************************)
EXTENDS Integers, FiniteSets

CONSTANTS
    Steps,        \* wf.Steps
    MaxFailures   \* bound: crashes and database errors in one behaviour

ASSUME StepsAssumption == IsFiniteSet(Steps) /\ MaxFailures \in Nat

VARIABLES
    deps,        \* step.DependsOn
    main,        \* where workflowService.Execute / runAsync is
    runStatus,   \* workflow_runs.status ("none": no row yet)
    pending,     \* unsatisfied dependencies of each step
    ready,       \* the names in the ready channel
    remaining,   \* steps the main loop has not started
    pc,          \* the goroutine of each step
    seen,        \* currentOutputs: the outputs its prompt is rendered from
    result,      \* how its agent run ended
    outputs,     \* the steps that have an entry in outputs
    errs,        \* the steps that sent to the errs channel
    failures     \* crashes and database errors so far

graphVars == <<pending, ready, remaining>>
stepVars == <<pc, seen, result, outputs, errs>>
vars == <<deps, main, runStatus, graphVars, stepVars, failures>>

MainPCs == {"idle", "mark", "loop", "finish", "ended", "dead"}
RunStates == {"none", "pending", "running", "completed", "failed"}
StepPCs == {"none", "start", "run", "output", "unblock", "exited"}
Results == {"none", "ok", "failed", "paused"}

Failure == failures < MaxFailures /\ failures' = failures + 1

\* The dependents map.
Dependents(s) == {t \in Steps : s \in deps[t]}

Goto(s, label) == pc' = [pc EXCEPT ![s] = label]

Init ==
    /\ deps \in [Steps -> SUBSET Steps]
    /\ main = "idle" /\ runStatus = "none"
    /\ pending = [s \in Steps |-> 0]
    /\ ready = {} /\ remaining = 0
    /\ pc = [s \in Steps |-> "none"]
    /\ seen = [s \in Steps |-> {}]
    /\ result = [s \in Steps |-> "none"]
    /\ outputs = {} /\ errs = {}
    /\ failures = 0

(***************************************************************************)
(* workflowService.                                                        *)
(***************************************************************************)
\* Execute inserts the run.
Execute ==
    /\ main = "idle"
    /\ main' = "mark" /\ runStatus' = "pending"
    /\ UNCHANGED <<deps, graphVars, stepVars, failures>>

\* Mutant: the count is off by one.
DepCountOffByOne(s) == Cardinality(deps[s]) - 1

\* pending[step.Name] = len(step.DependsOn).
DepCount(s) == Cardinality(deps[s])

\* Execute marks it running, ignoring an error, and starts runAsync, whose
\* engine counts the dependencies and seeds the ready channel.
StartEngine ==
    /\ main = "mark"
    /\ main' = "loop"
    /\ pending' = [s \in Steps |-> DepCount(s)]
    /\ ready' = {s \in Steps : deps[s] = {}}
    /\ remaining' = Cardinality(Steps)
    /\ \/ runStatus' = "running" /\ UNCHANGED failures
       \/ Failure /\ UNCHANGED runStatus
    /\ UNCHANGED <<deps, stepVars>>

\* runAsync: any collected error fails the run.
FinalStatus == IF errs = {} THEN "completed" ELSE "failed"

\* runAsync writes the outcome; a failed write is only logged.
Finish ==
    /\ main = "finish"
    /\ main' = "ended"
    /\ \/ runStatus' = FinalStatus /\ UNCHANGED failures
       \/ Failure /\ UNCHANGED runStatus
    /\ UNCHANGED <<deps, graphVars, stepVars>>

(***************************************************************************)
(* Engine.Execute: the main loop.                                          *)
(***************************************************************************)
\* A ready step is taken from the channel and its goroutine started.
TakeReady(s) ==
    /\ main = "loop" /\ remaining > 0
    /\ s \in ready
    /\ ready' = ready \ {s}
    /\ remaining' = remaining - 1
    /\ Goto(s, "start")
    /\ UNCHANGED <<deps, main, runStatus, pending, seen, result, outputs, errs, failures>>

\* wg.Wait(): every goroutine that was started has returned.
GoroutinesDone == \A s \in Steps : pc[s] \in {"none", "exited"}

\* The loop is over and the goroutines are waited for.
Collect ==
    /\ main = "loop" /\ remaining = 0
    /\ GoroutinesDone
    /\ main' = "finish"
    /\ UNCHANGED <<deps, runStatus, graphVars, stepVars, failures>>

(***************************************************************************)
(* Engine.Execute: the goroutine of a step. Each action is one critical    *)
(* section of mu, or the agent run between two of them.                    *)
(***************************************************************************)
\* The outputs so far are copied to render the prompt.
CopyOutputs(s) ==
    /\ main # "dead" /\ pc[s] = "start"
    /\ Goto(s, "run")
    /\ seen' = [seen EXCEPT ![s] = outputs]
    /\ UNCHANGED <<deps, main, runStatus, graphVars, result, outputs, errs, failures>>

\* The agent is resolved and runs. A failure at any point sends an error and
\* goes on to unblock the dependents; a run that pauses on an approval
\* returns without an error, like one that completed.
RunAgent(s) ==
    /\ main # "dead" /\ pc[s] = "run"
    /\ \E r \in {"ok", "failed", "paused"} :
         /\ result' = [result EXCEPT ![s] = r]
         /\ errs' = IF r = "failed" THEN errs \cup {s} ELSE errs
         /\ Goto(s, IF r = "failed" THEN "unblock" ELSE "output")
    /\ UNCHANGED <<deps, main, runStatus, graphVars, seen, outputs, failures>>

\* Mutant: an empty answer, which a paused run returns, is not stored.
StoreOutputUnlessPaused(s) == outputs' = IF result[s] = "paused" THEN outputs ELSE outputs \cup {s}

\* outputs[s.Name] = res.FinalAnswer.
StoreOutput(s) == outputs' = outputs \cup {s}

\* The critical section that stores the output of a step.
WriteOutput(s) ==
    /\ main # "dead" /\ pc[s] = "output"
    /\ Goto(s, "unblock")
    /\ StoreOutput(s)
    /\ UNCHANGED <<deps, main, runStatus, graphVars, seen, result, errs, failures>>

\* Mutant: a dependent is ready once it has at most one open dependency.
NowReadyEarly(s) == {t \in Dependents(s) : pending[t] <= 2}

\* Mutant: a failed step does not unblock its dependents.
NowReadyUnlessFailed(s) == {t \in Dependents(s) : pending[t] = 1 /\ result[s] # "failed"}

\* The dependents whose counter unblockDependents takes to 0.
NowReady(s) == {t \in Dependents(s) : pending[t] = 1}

\* unblockDependents, then the goroutine returns.
UnblockDependents(s) ==
    /\ main # "dead" /\ pc[s] = "unblock"
    /\ Goto(s, "exited")
    /\ pending' = [t \in Steps |-> IF t \in Dependents(s) THEN pending[t] - 1 ELSE pending[t]]
    /\ ready' = ready \cup NowReady(s)
    /\ UNCHANGED <<deps, main, runStatus, remaining, seen, result, outputs, errs, failures>>

\* The process dies, or a step panics: its goroutine has no recover, so the
\* process goes down with it. Nothing picks the run up again.
Crash ==
    /\ main \in {"mark", "loop", "finish"}
    /\ Failure
    /\ main' = "dead"
    /\ UNCHANGED <<deps, runStatus, graphVars, stepVars>>

MainStep == Execute \/ StartEngine \/ (\E s \in Steps : TakeReady(s)) \/ Collect \/ Finish

StepAction(s) == CopyOutputs(s) \/ RunAgent(s) \/ WriteOutput(s) \/ UnblockDependents(s)

Next == MainStep \/ (\E s \in Steps : StepAction(s)) \/ Crash

Spec == Init /\ [][Next]_vars

\* Goroutines are scheduled, and an agent run returns (it is bounded by
\* MaxIterations and by the timeouts of its model calls).
FairSpec == Spec /\ WF_vars(MainStep) /\ \A s \in Steps : WF_vars(StepAction(s))

(***************************************************************************)
(* Properties.                                                             *)
(***************************************************************************)
\* Every variable stays within its type; in particular no pending counter
\* and not the remaining counter goes below zero.
TypeOK ==
    /\ deps \in [Steps -> SUBSET Steps]
    /\ main \in MainPCs /\ runStatus \in RunStates
    /\ pending \in [Steps -> Nat]
    /\ ready \subseteq Steps /\ remaining \in Nat
    /\ pc \in [Steps -> StepPCs]
    /\ seen \in [Steps -> SUBSET Steps]
    /\ result \in [Steps -> Results]
    /\ outputs \subseteq Steps /\ errs \subseteq Steps
    /\ failures \in 0..MaxFailures

\* "Dependent steps wait for all their prerequisites before starting": the
\* goroutine of every prerequisite has returned before a step is started,
\* whatever the order in which the prerequisites finish.
StepWaitsForPrereqs ==
    \A s \in Steps : s \in ready \/ pc[s] # "none" =>
        \A d \in deps[s] : pc[d] = "exited"

\* The prompt of a step is rendered from the outputs of all its prerequisites
\* that had no error.
PrereqOutputsSeen ==
    \A s \in Steps : pc[s] \notin {"none", "start"} => deps[s] \ errs \subseteq seen[s]

\* A run recorded as completed has run every step to its end, and none failed.
CompletedRunIsWhole ==
    runStatus = "completed" =>
        \A s \in Steps : pc[s] = "exited" /\ result[s] # "failed" /\ s \in outputs

\* The run without the engine: what its steps have done, and its outcome.
Begun == {s \in Steps : pc[s] # "none"}
Returned == {s \in Steps : pc[s] = "exited"}
RunOutcome == IF runStatus \in {"completed", "failed"} THEN runStatus ELSE "open"
Ordered == INSTANCE OrderedRun
             WITH begun <- Begun, stored <- outputs, failed <- errs,
                  ended <- Returned, outcome <- RunOutcome

\* Channel, counters, goroutines and phases implement an ordered run: no step
\* begins twice or before its prerequisites have ended, none ends without an
\* output or an error, and the run row gets one outcome, the right one, after
\* the last step has ended.
RunIsOrdered == Ordered!Spec

\* When the engine has nothing running and nothing ready but steps left, the
\* workflow has a cycle: the steps left wait for each other, so no step is
\* ever forgotten.
StuckOnlyOnCycle ==
    main = "loop" /\ remaining > 0 /\ ready = {} /\ GoroutinesDone =>
        \A s \in Steps : pc[s] = "none" => \E d \in deps[s] : pc[d] = "none"

\* The dependency relation has no cycle: every set of steps has one that
\* depends on none of the others.
Acyclic == \A S \in SUBSET Steps : S # {} => \E s \in S : deps[s] \cap S = {}

Finished == runStatus \in {"completed", "failed"}

\* A run of an acyclic workflow ends, however its steps fail or interleave,
\* unless a crash or a database error intervenes.
AcyclicRunFinishes == Acyclic /\ main # "idle" ~> Finished \/ failures > 0
=============================================================================
