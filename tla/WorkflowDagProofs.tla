-------------------------- MODULE WorkflowDagProofs --------------------------
(***************************************************************************)
(* Proofs about WorkflowDag, for any finite set of steps, any dependency   *)
(* relation and any number of failures.                                    *)
(***************************************************************************)
EXTENDS WorkflowDag, FiniteSetTheorems, TLAPS

USE DEF Goto, Failure

(***************************************************************************)
(* The inductive invariant: what the counters count, and what each phase   *)
(* of the main loop leaves true.                                           *)
(***************************************************************************)
\* The prerequisites of s that have not returned.
Open(s) == {d \in deps[s] : pc[d] # "exited"}

NotTaken == {s \in Steps : pc[s] = "none"}

\* pending counts the open prerequisites, remaining the steps not taken.
Counted ==
    main = "loop" =>
        /\ \A s \in Steps : pending[s] = Cardinality(Open(s))
        /\ remaining = Cardinality(NotTaken)

\* Before the loop nothing is started, after it everything has returned.
Phases ==
    /\ main \in {"idle", "mark"} => ready = {} /\ \A s \in Steps : pc[s] = "none"
    /\ main \in {"finish", "ended"} => \A s \in Steps : pc[s] = "exited"
    /\ runStatus = "completed" => main = "ended" /\ errs = {}

\* A name is in the channel until it is taken; a step that is neither taken
\* nor in the channel has an open prerequisite.
Channel ==
    /\ \A s \in ready : pc[s] = "none"
    /\ main = "loop" => \A s \in Steps : pc[s] = "none" /\ s \notin ready => Open(s) # {}

\* What a step leaves behind before it unblocks its dependents.
Traces ==
    /\ \A s \in Steps : pc[s] \in {"unblock", "exited"} => s \in outputs \cup errs
    /\ \A s \in Steps : result[s] = "failed" => s \in errs

IndInv ==
    /\ TypeOK /\ Counted /\ Phases /\ Channel /\ Traces
    /\ StepWaitsForPrereqs /\ PrereqOutputsSeen

\* The open prerequisites and the steps not taken are finite sets.
LEMMA Finite ==
    ASSUME TypeOK
    PROVE  /\ \A s \in Steps : IsFiniteSet(deps[s]) /\ IsFiniteSet(Open(s))
           /\ IsFiniteSet(NotTaken)
<1>1. \A s \in Steps : deps[s] \subseteq Steps /\ Open(s) \subseteq Steps
    BY DEF TypeOK, Open
<1>2. NotTaken \subseteq Steps
    BY DEF NotTaken
<1> QED BY <1>1, <1>2, StepsAssumption, FS_Subset

(***************************************************************************)
(* Type correctness.                                                       *)
(***************************************************************************)
\* The initial state has the types.
LEMMA InitTyping == Init => TypeOK
    BY StepsAssumption DEF Init, TypeOK, MainPCs, RunStates, StepPCs, Results

\* Every step keeps the types; that no counter goes below zero needs what
\* the counters count.
LEMMA NextTyping == ASSUME IndInv, [Next]_vars PROVE TypeOK'
<1>1. TypeOK
    BY DEF IndInv
<1> USE <1>1 DEF TypeOK, graphVars, stepVars, MainPCs, RunStates, StepPCs, Results
<1>2. CASE Execute
    BY <1>2 DEF Execute
<1>3. CASE StartEngine
    <2>1. pending' \in [Steps -> Nat] /\ remaining' \in Nat
        BY <1>3, Finite, StepsAssumption, FS_CardinalityType DEF StartEngine, DepCount
    <2> QED BY <1>3, <2>1, StepsAssumption DEF StartEngine
<1>4. ASSUME NEW s \in Steps, TakeReady(s) PROVE TypeOK'
    BY <1>4 DEF TakeReady
<1>5. CASE Collect
    BY <1>5 DEF Collect
<1>6. CASE Finish
    BY <1>6, StepsAssumption DEF Finish, FinalStatus
<1>7. ASSUME NEW s \in Steps, StepAction(s) PROVE TypeOK'
    <2>1. CASE CopyOutputs(s)
        BY <2>1 DEF CopyOutputs
    <2>2. CASE RunAgent(s)
        BY <2>2 DEF RunAgent
    <2>3. CASE WriteOutput(s)
        BY <2>3 DEF WriteOutput, StoreOutput
    <2>4. CASE UnblockDependents(s)
        <3>1. main = "loop" 
            BY <2>4 DEF IndInv, Phases, UnblockDependents
        <3>2. \A t \in Dependents(s) : pending[t] - 1 \in Nat
            <4> TAKE t \in Dependents(s)
            <4>1. t \in Steps /\ s \in Open(t) /\ pending[t] = Cardinality(Open(t))
                BY <2>4, <3>1 DEF UnblockDependents, Dependents, Open, IndInv, Counted
            <4>2. Cardinality(Open(t)) # 0
                BY <4>1, Finite, FS_EmptySet
            <4> QED BY <4>1, <4>2
        <3> QED BY <2>4, <3>2 DEF UnblockDependents, Dependents, NowReady
    <2> QED BY <1>7, <2>1, <2>2, <2>3, <2>4 DEF StepAction
<1>8. CASE Crash
    BY <1>8, StepsAssumption DEF Crash
<1>9. CASE UNCHANGED vars
    BY <1>9 DEF vars
<1> QED BY <1>2, <1>3, <1>4, <1>5, <1>6, <1>7, <1>8, <1>9 DEF Next, MainStep

(***************************************************************************)
(* The steps that start and end the engine.                                *)
(***************************************************************************)
\* The counters and the channel are right when the engine starts.
LEMMA StartPreserves == ASSUME IndInv, TypeOK', StartEngine PROVE IndInv'
<1> USE DEF IndInv, graphVars, stepVars
<1>1. \A s \in Steps : pc[s] = "none" /\ pc'[s] = "none"
    BY DEF StartEngine, Phases
<1>2. \A s \in Steps : Open(s)' = deps[s]
    BY <1>1 DEF StartEngine, Open, TypeOK
<1>3. NotTaken' = Steps
    BY <1>1 DEF NotTaken
<1>4. Counted'
    BY <1>2, <1>3 DEF StartEngine, Counted, DepCount
<1>5. Phases'
    BY DEF StartEngine, Phases
<1>6. Channel'
    BY <1>1, <1>2 DEF StartEngine, Channel
<1>7. StepWaitsForPrereqs'
    BY <1>1 DEF StartEngine, StepWaitsForPrereqs
<1>8. Traces' /\ PrereqOutputsSeen'
    BY <1>1 DEF StartEngine, Traces, PrereqOutputsSeen
<1> QED BY <1>4, <1>5, <1>6, <1>7, <1>8

\* Leaving the loop, and the writes of the run row, touch no step.
LEMMA MainPreserves ==
    ASSUME IndInv, TypeOK', Execute \/ Collect \/ Finish \/ Crash \/ UNCHANGED vars
    PROVE  IndInv'
<1>1. UNCHANGED <<deps, graphVars, stepVars>>
    BY DEF Execute, Collect, Finish, Crash, vars, graphVars, stepVars
<1> USE DEF IndInv, graphVars, stepVars
<1>2. NotTaken' = NotTaken /\ (\A s \in Steps : Open(s)' = Open(s))
    BY <1>1 DEF NotTaken, Open
<1>3. main' = "loop" => main = "loop"
    BY DEF Execute, Collect, Finish, Crash, vars
<1>4. Counted' /\ Channel' /\ Traces' /\ StepWaitsForPrereqs' /\ PrereqOutputsSeen'
    BY <1>1, <1>2, <1>3 DEF Counted, Channel, Traces, StepWaitsForPrereqs, PrereqOutputsSeen
<1>5. Phases'
    <2>1. CASE Execute \/ Finish \/ Crash \/ UNCHANGED vars
        BY <1>1, <2>1 DEF Execute, Finish, Crash, vars, Phases, FinalStatus
    <2>2. CASE Collect
        <3>1. \A s \in Steps : pc[s] # "none"
            BY <2>2, Finite, FS_EmptySet DEF Collect, Counted, NotTaken
        <3> QED BY <2>2, <3>1 DEF Collect, Phases, GoroutinesDone
    <2> QED BY <2>1, <2>2
<1> QED BY <1>4, <1>5

(***************************************************************************)
(* The steps of the loop and of the goroutines.                            *)
(***************************************************************************)
\* A step whose goroutine moves without returning leaves every count alone.
LEMMA MovePreserves ==
    ASSUME IndInv, TypeOK', NEW s \in Steps,
           CopyOutputs(s) \/ RunAgent(s) \/ WriteOutput(s)
    PROVE  IndInv'
<1> USE DEF IndInv, graphVars, stepVars
<1>1. /\ UNCHANGED <<deps, main, runStatus, graphVars, failures>>
      /\ pc[s] \in {"start", "run", "output"}
      /\ pc'[s] \in {"run", "output", "unblock"}
      /\ \A t \in Steps : t # s => pc'[t] = pc[t]
      /\ main = "loop" \/ main = "dead"
    BY DEF CopyOutputs, RunAgent, WriteOutput, TypeOK, Phases, MainPCs
<1>2. NotTaken' = NotTaken /\ (\A t \in Steps : Open(t)' = Open(t))
    BY <1>1 DEF NotTaken, Open, TypeOK
<1>3. outputs \subseteq outputs' /\ errs \subseteq errs'
    BY DEF CopyOutputs, RunAgent, WriteOutput, StoreOutput
<1>4. Counted'
    BY <1>1, <1>2 DEF Counted
<1>5. Channel'
    BY <1>1, <1>2 DEF Channel, TypeOK
<1>6. StepWaitsForPrereqs'
    BY <1>1 DEF StepWaitsForPrereqs, TypeOK
<1>7. Traces'
    BY DEF CopyOutputs, RunAgent, WriteOutput, StoreOutput, Traces, TypeOK
<1>8. PrereqOutputsSeen'
    <2>1. CASE CopyOutputs(s)
        <3>1. deps[s] \ errs \subseteq outputs
            BY <1>1 DEF StepWaitsForPrereqs, Traces, TypeOK
        <3> QED BY <2>1, <3>1 DEF CopyOutputs, PrereqOutputsSeen, TypeOK
    <2>2. CASE RunAgent(s) \/ WriteOutput(s)
        BY <2>2, <1>3 DEF RunAgent, WriteOutput, PrereqOutputsSeen, TypeOK
    <2> QED BY <2>1, <2>2
<1>9. Phases'
    BY <1>1 DEF Phases
<1> QED BY <1>4, <1>5, <1>6, <1>7, <1>8, <1>9

\* Taking a name from the channel moves it from one count to the other.
LEMMA TakePreserves == ASSUME IndInv, TypeOK', NEW s \in Steps, TakeReady(s) PROVE IndInv'
<1> USE DEF IndInv, graphVars, stepVars
<1>1. /\ pc[s] = "none" /\ s \in ready
      /\ pc' = [pc EXCEPT ![s] = "start"]
      /\ main = "loop" /\ main' = "loop"
    BY DEF TakeReady, Channel
<1>2. \A t \in Steps : Open(t)' = Open(t)
    BY <1>1 DEF TakeReady, Open, TypeOK
<1>3. NotTaken' = NotTaken \ {s} /\ s \in NotTaken
    BY <1>1 DEF NotTaken, TypeOK
<1>4. Cardinality(NotTaken') = Cardinality(NotTaken) - 1
    BY <1>3, Finite, FS_RemoveElement
<1>5. Counted'
    BY <1>1, <1>2, <1>4 DEF TakeReady, Counted
<1>6. Channel'
    BY <1>1, <1>2 DEF TakeReady, Channel, TypeOK
<1>7. StepWaitsForPrereqs'
    BY <1>1 DEF TakeReady, StepWaitsForPrereqs, TypeOK
<1>8. Traces' /\ PrereqOutputsSeen' /\ Phases'
    BY <1>1 DEF TakeReady, Traces, PrereqOutputsSeen, Phases, TypeOK
<1> QED BY <1>5, <1>6, <1>7, <1>8

\* unblockDependents closes s for each of its dependents, and puts exactly
\* those in the channel that wait for nothing else.
LEMMA UnblockPreserves ==
    ASSUME IndInv, TypeOK', NEW s \in Steps, UnblockDependents(s)
    PROVE  IndInv'
<1> USE DEF IndInv, graphVars, stepVars
<1>1. /\ pc[s] = "unblock" /\ pc' = [pc EXCEPT ![s] = "exited"]
      /\ main = "loop" /\ main' = "loop" /\ UNCHANGED <<deps, remaining>>
    BY DEF UnblockDependents, Phases, TypeOK, MainPCs
<1>2. NotTaken' = NotTaken
    BY <1>1 DEF NotTaken, TypeOK
<1>3. \A t \in Steps : Open(t)' = Open(t) \ {s} /\ (t \in Dependents(s) <=> s \in Open(t))
    BY <1>1 DEF Open, Dependents, TypeOK
<1>4. \A t \in Steps : pending'[t] = Cardinality(Open(t)')
    <2> TAKE t \in Steps
    <2>1. CASE t \in Dependents(s)
        <3>1. Cardinality(Open(t) \ {s}) = Cardinality(Open(t)) - 1
            BY <1>3, <2>1, Finite, FS_RemoveElement
        <3> QED BY <1>1, <1>3, <2>1, <3>1 DEF UnblockDependents, Counted
    <2>2. CASE t \notin Dependents(s)
        <3>1. Open(t)' = Open(t)
            BY <1>3, <2>2
        <3> QED BY <1>1, <2>2, <3>1 DEF UnblockDependents, Counted
    <2> QED BY <2>1, <2>2
<1>5. Counted'
    BY <1>1, <1>2, <1>4 DEF Counted
<1>6. \A t \in Steps : t \in NowReady(s) => Open(t)' = {} /\ pc[t] = "none" /\ t # s
    <2> SUFFICES ASSUME NEW t \in Steps, t \in NowReady(s)
                 PROVE  Open(t)' = {} /\ pc[t] = "none" /\ t # s
        OBVIOUS
    <2>1. t \in Dependents(s) /\ pending'[t] = 0
        BY DEF NowReady, UnblockDependents, TypeOK
    <2>2. Open(t)' = {}
        <3>1. IsFiniteSet(Open(t) \ {s})
            BY <1>3, <2>1, Finite, FS_RemoveElement
        <3> QED BY <1>3, <1>4, <2>1, <3>1, FS_EmptySet
    <2>3. pc[t] = "none"
        BY <1>1, <2>1 DEF Dependents, StepWaitsForPrereqs
    <2> QED BY <1>1, <2>2, <2>3
<1>7. \A t \in Steps : Open(t)' = {} => Open(t) = {} \/ t \in NowReady(s)
    <2> SUFFICES ASSUME NEW t \in Steps, Open(t)' = {}, Open(t) # {} PROVE t \in NowReady(s)
        OBVIOUS
    <2>1. Open(t) = {s} /\ t \in Dependents(s)
        BY <1>3
    <2>2. pending[t] = 1
        BY <1>1, <2>1, FS_Singleton DEF Counted
    <2> QED BY <2>1, <2>2 DEF NowReady
<1>8. Channel'
    <2>1. \A t \in ready' : pc'[t] = "none"
        BY <1>1, <1>6 DEF UnblockDependents, Channel, NowReady, Dependents, TypeOK
    <2>2. \A t \in Steps : pc'[t] = "none" /\ t \notin ready' => Open(t)' # {}
        BY <1>1, <1>7 DEF UnblockDependents, Channel, TypeOK
    <2> QED BY <2>1, <2>2 DEF Channel
<1>9. StepWaitsForPrereqs'
    <2>1. \A t \in Steps : Open(t)' = {} => \A d \in deps[t] : pc'[d] = "exited"
        BY <1>1 DEF Open
    <2>2. \A t \in Steps : t \in ready \/ pc[t] # "none" => \A d \in deps[t] : pc'[d] = "exited"
        BY <1>1 DEF StepWaitsForPrereqs, TypeOK
    <2> QED BY <1>1, <1>6, <2>1, <2>2 DEF UnblockDependents, StepWaitsForPrereqs, TypeOK
<1>10. Traces' /\ PrereqOutputsSeen' /\ Phases'
    BY <1>1 DEF UnblockDependents, Traces, PrereqOutputsSeen, Phases, TypeOK
<1> QED BY <1>5, <1>8, <1>9, <1>10

(***************************************************************************)
(* The theorems.                                                           *)
(***************************************************************************)
\* IndInv holds at first and is kept by every step.
LEMMA Inductive == Spec => []IndInv
<1>1. Init => IndInv
    BY InitTyping DEF Init, IndInv, Counted, Phases, Channel, Traces, StepWaitsForPrereqs,
        PrereqOutputsSeen
<1>2. IndInv /\ [Next]_vars => IndInv'
    <2> SUFFICES ASSUME IndInv, [Next]_vars PROVE IndInv'
        OBVIOUS
    <2>1. TypeOK'
        BY NextTyping
    <2>2. CASE StartEngine
        BY <2>1, <2>2, StartPreserves
    <2>3. CASE Execute \/ Collect \/ Finish \/ Crash \/ UNCHANGED vars
        BY <2>1, <2>3, MainPreserves
    <2>4. ASSUME NEW s \in Steps, TakeReady(s) PROVE IndInv'
        BY <2>1, <2>4, TakePreserves
    <2>5. ASSUME NEW s \in Steps, StepAction(s) PROVE IndInv'
        BY <2>1, <2>5, MovePreserves, UnblockPreserves DEF StepAction
    <2> QED BY <2>2, <2>3, <2>4, <2>5 DEF Next, MainStep
<1> QED BY <1>1, <1>2, PTL DEF Spec

\* Type correctness: in particular the pending counters, which every
\* goroutine decrements, and the remaining counter never go below zero.
THEOREM TypeCorrect == Spec => []TypeOK
<1>1. IndInv => TypeOK
    BY DEF IndInv
<1> QED BY <1>1, Inductive, PTL

\* No step is queued or started before all its prerequisites have returned,
\* for every dependency relation, cyclic ones included.
THEOREM StepWaitsForPrereqsThm == Spec => []StepWaitsForPrereqs
<1>1. IndInv => StepWaitsForPrereqs
    BY DEF IndInv
<1> QED BY <1>1, Inductive, PTL

\* Every prompt is rendered from the outputs of all prerequisites that had no
\* error.
THEOREM PrereqOutputsSeenThm == Spec => []PrereqOutputsSeen
<1>1. IndInv => PrereqOutputsSeen
    BY DEF IndInv
<1> QED BY <1>1, Inductive, PTL

\* A run recorded as completed has run every step, and none failed.
THEOREM CompletedRunIsWholeThm == Spec => []CompletedRunIsWhole
<1>1. IndInv => CompletedRunIsWhole
    BY DEF IndInv, Phases, Traces, CompletedRunIsWhole
<1> QED BY <1>1, Inductive, PTL

\* The engine gets stuck only on steps that wait for each other.
THEOREM StuckOnlyOnCycleThm == Spec => []StuckOnlyOnCycle
<1>1. IndInv => StuckOnlyOnCycle
    BY DEF IndInv, TypeOK, Channel, Open, StuckOnlyOnCycle, GoroutinesDone
<1> QED BY <1>1, Inductive, PTL

\* A workflow without a cycle never gets stuck: as long as steps are left,
\* one of them is ready or a goroutine is at work. This is the safety part of
\* AcyclicRunFinishes.
THEOREM AcyclicNeverStuck ==
    Spec => [](Acyclic /\ main = "loop" /\ remaining > 0 => ready # {} \/ ~GoroutinesDone)
<1>1. IndInv /\ Acyclic /\ main = "loop" /\ remaining > 0 => ready # {} \/ ~GoroutinesDone
    <2> SUFFICES ASSUME IndInv, Acyclic, main = "loop", remaining > 0, ready = {}, GoroutinesDone
                 PROVE  FALSE
        OBVIOUS
    <2>1. NotTaken # {}
        BY FS_EmptySet DEF IndInv, Counted
    <2>2. PICK s \in NotTaken : deps[s] \cap NotTaken = {}
        BY <2>1 DEF Acyclic, NotTaken
    <2>3. \E d \in deps[s] : pc[d] # "exited"
        BY <2>2 DEF IndInv, Channel, NotTaken, Open
    <2>4. \A d \in deps[s] : d \in Steps /\ pc[d] # "none"
        BY <2>2 DEF IndInv, TypeOK, NotTaken
    <2> QED BY <2>3, <2>4 DEF GoroutinesDone
<1> QED BY <1>1, Inductive, PTL

\* How far the goroutine of a step, and the engine, have come.
StepRank == [none |-> 0, start |-> 1, run |-> 2, output |-> 3, unblock |-> 4, exited |-> 5]
MainRank == [idle |-> 0, mark |-> 1, loop |-> 2, finish |-> 3, ended |-> 4, dead |-> 5]

\* Nothing goes back, and something comes further.
Advances ==
    /\ MainRank[main] <= MainRank[main']
    /\ \A s \in Steps : StepRank[pc[s]] <= StepRank[pc'[s]]
    /\ \/ MainRank[main] < MainRank[main']
       \/ \E s \in Steps : StepRank[pc[s]] < StepRank[pc'[s]]

\* Every step of a run, failed ones included, brings it closer to its end: the
\* ranks are bounded, so no run takes more than 5 * |Steps| + 5 steps. With
\* AcyclicNeverStuck, what AcyclicRunFinishes adds is only the fairness.
THEOREM EveryStepAdvances == Spec => [][Advances]_vars
<1>1. IndInv /\ [Next]_vars => [Advances]_vars
    <2> SUFFICES ASSUME IndInv, Next PROVE Advances
        BY DEF vars
    <2> USE DEF IndInv, TypeOK, Advances, MainPCs, StepPCs, StepRank, MainRank, graphVars, stepVars
    <2>1. \A s \in Steps : StepRank[pc[s]] \in Nat /\ StepRank[pc'[s]] \in Nat
        BY NextTyping
    <2>2. CASE Execute \/ StartEngine \/ Collect \/ Finish \/ Crash
        <3>1. pc' = pc
            BY <2>2 DEF Execute, StartEngine, Collect, Finish, Crash
        <3>2. MainRank[main] < MainRank[main']
            BY <2>2 DEF Execute, StartEngine, Collect, Finish, Crash
        <3>3. \A s \in Steps : StepRank[pc[s]] <= StepRank[pc'[s]]
            BY <2>1, <3>1
        <3>4. MainRank[main] <= MainRank[main']
            BY <2>2 DEF Execute, StartEngine, Collect, Finish, Crash
        <3> QED BY <3>2, <3>3, <3>4
    <2>3. ASSUME NEW s \in Steps, TakeReady(s) \/ StepAction(s) PROVE Advances
        <3>1. main' = main /\ StepRank[pc[s]] < StepRank[pc'[s]]
            BY <2>3 DEF TakeReady, Channel, StepAction, CopyOutputs, RunAgent, WriteOutput,
                UnblockDependents
        <3>2. \A t \in Steps : t # s => pc'[t] = pc[t]
            BY <2>3 DEF TakeReady, StepAction, CopyOutputs, RunAgent, WriteOutput,
                UnblockDependents
        <3>3. \A t \in Steps : StepRank[pc[t]] <= StepRank[pc'[t]]
            <4> TAKE t \in Steps
            <4>1. StepRank[pc[t]] \in Nat /\ StepRank[pc[s]] \in Nat /\ StepRank[pc'[s]] \in Nat
                BY <2>1
            <4> QED BY <3>1, <3>2, <4>1
        <3>4. MainRank[main] <= MainRank[main']
            BY <3>1
        <3> QED BY <3>1, <3>3, <3>4
    <2> QED BY <2>2, <2>3 DEF Next, MainStep
<1> QED BY <1>1, Inductive, PTL DEF Spec

(***************************************************************************)
(* The engine implements an ordered run.                                   *)
(***************************************************************************)
Settled == {"completed", "failed"}

\* A step leaves its output or its error on its way to unblock, and not
\* earlier; only the last write of the engine settles the run.
MarkInv ==
    /\ \A s \in Steps : pc[s] \in {"none", "start", "run", "output"} => s \notin outputs \cup errs
    /\ runStatus \in Settled => main = "ended"

\* MarkInv is inductive relative to IndInv: a name in the channel is one of a
\* step that was not taken.
LEMMA MarkInvariant == Spec => []MarkInv
<1>1. Init => MarkInv
    BY DEF Init, MarkInv, Settled
<1>2. IndInv /\ MarkInv /\ [Next]_vars => MarkInv'
    <2> SUFFICES ASSUME IndInv, MarkInv, [Next]_vars PROVE MarkInv'
        OBVIOUS
    <2> USE DEF IndInv, MarkInv, TypeOK, Settled, graphVars, stepVars
    <2>1. CASE Execute \/ StartEngine \/ Collect \/ Finish \/ Crash \/ UNCHANGED vars
        <3>1. UNCHANGED <<pc, outputs, errs>>
            BY <2>1 DEF Execute, StartEngine, Collect, Finish, Crash, vars
        <3>2. runStatus' \in Settled => main' = "ended"
            BY <2>1 DEF Execute, StartEngine, Collect, Finish, Crash, vars
        <3> QED BY <3>1, <3>2
    <2>2. ASSUME NEW s \in Steps, TakeReady(s) PROVE MarkInv'
        BY <2>2 DEF TakeReady, Channel
    <2>3. ASSUME NEW s \in Steps, CopyOutputs(s) \/ UnblockDependents(s) PROVE MarkInv'
        BY <2>3 DEF CopyOutputs, UnblockDependents
    <2>4. ASSUME NEW s \in Steps, RunAgent(s) PROVE MarkInv'
        BY <2>4 DEF RunAgent
    <2>5. ASSUME NEW s \in Steps, WriteOutput(s) PROVE MarkInv'
        BY <2>5 DEF WriteOutput, StoreOutput
    <2> QED BY <2>1, <2>2, <2>3, <2>4, <2>5 DEF Next, MainStep, StepAction
<1> QED BY <1>1, <1>2, Inductive, PTL DEF Spec

\* The step of a goroutine, or of the loop that starts it, seen from outside.
LEMMA StepSimulation ==
    ASSUME IndInv, MarkInv, NEW s \in Steps, TakeReady(s) \/ StepAction(s)
    PROVE  [Ordered!Next]_(Ordered!vars)
<1> USE DEF IndInv, TypeOK, graphVars, stepVars
<1>1. CASE TakeReady(s)
    <2>1. Begun' = Begun \cup {s} /\ Returned' = Returned /\ s \notin Begun
        BY <1>1 DEF TakeReady, Channel, Begun, Returned
    <2>2. deps[s] \subseteq Returned
        BY <1>1 DEF TakeReady, StepWaitsForPrereqs, Returned
    <2>3. Ordered!Begin(s)
        BY <1>1, <2>1, <2>2 DEF TakeReady, Ordered!Begin, RunOutcome
    <2> QED BY <2>3 DEF Ordered!Next
<1>2. CASE CopyOutputs(s)
    BY <1>2 DEF CopyOutputs, Ordered!vars, Begun, Returned, RunOutcome
<1>3. CASE RunAgent(s)
    <2>1. /\ Begun' = Begun /\ Returned' = Returned /\ s \in Begun \ Returned
          /\ s \notin outputs \cup errs
        BY <1>3 DEF RunAgent, Begun, Returned, MarkInv
    <2>2. errs' = errs \/ errs' = errs \cup {s}
        BY <1>3 DEF RunAgent
    <2>3. CASE errs' = errs
        BY <1>3, <2>1, <2>3 DEF RunAgent, Ordered!vars, RunOutcome
    <2>4. CASE errs' = errs \cup {s}
        <3>1. Ordered!Fail(s)
            BY <1>3, <2>1, <2>4 DEF RunAgent, Ordered!Fail, RunOutcome
        <3> QED BY <3>1 DEF Ordered!Next
    <2> QED BY <2>2, <2>3, <2>4
<1>4. CASE WriteOutput(s)
    <2>1. /\ Begun' = Begun /\ Returned' = Returned /\ s \in Begun \ Returned
          /\ s \notin errs
        BY <1>4 DEF WriteOutput, Begun, Returned, MarkInv
    <2>2. Ordered!Store(s)
        BY <1>4, <2>1 DEF WriteOutput, StoreOutput, Ordered!Store, RunOutcome
    <2> QED BY <2>2 DEF Ordered!Next
<1>5. CASE UnblockDependents(s)
    <2>1. Begun' = Begun /\ Returned' = Returned \cup {s} /\ s \in Begun \ Returned
        BY <1>5 DEF UnblockDependents, Begun, Returned
    <2>2. s \in outputs \cup errs
        BY <1>5 DEF UnblockDependents, Traces
    <2>3. Ordered!End(s)
        BY <1>5, <2>1, <2>2 DEF UnblockDependents, Ordered!End, RunOutcome
    <2> QED BY <2>3 DEF Ordered!Next
<1> QED BY <1>1, <1>2, <1>3, <1>4, <1>5 DEF StepAction

\* The engine implements an ordered run, for every finite set of steps and
\* every dependency relation: channel, counters and goroutines never start a
\* step twice or early, lose its output or error, or conclude a run early.
THEOREM RunIsOrderedThm == Spec => RunIsOrdered
<1>1. Init => Ordered!Init
    BY DEF Init, Ordered!Init, Begun, Returned, RunOutcome
<1>2. IndInv /\ MarkInv /\ [Next]_vars => [Ordered!Next]_(Ordered!vars)
    <2> SUFFICES ASSUME IndInv, MarkInv, [Next]_vars PROVE [Ordered!Next]_(Ordered!vars)
        OBVIOUS
    <2> USE DEF graphVars, stepVars
    <2>1. CASE Execute \/ StartEngine \/ Collect \/ Crash \/ UNCHANGED vars
        BY <2>1 DEF Execute, StartEngine, Collect, Crash, vars, MarkInv, Settled,
            Ordered!vars, Begun, Returned, RunOutcome
    <2>2. CASE Finish
        <3>1. Returned = Steps /\ Returned' = Returned /\ Begun' = Begun
            BY <2>2 DEF Finish, IndInv, Phases, Returned, Begun
        <3>2. RunOutcome = "open"
            BY <2>2 DEF Finish, MarkInv, Settled, RunOutcome
        <3>3. CASE runStatus' = FinalStatus
            <4>1. Ordered!Conclude
                BY <2>2, <3>1, <3>2, <3>3 DEF Finish, FinalStatus, Ordered!Conclude, RunOutcome
            <4> QED BY <4>1 DEF Ordered!Next
        <3>4. CASE UNCHANGED runStatus
            BY <2>2, <3>1, <3>4 DEF Finish, Ordered!vars, RunOutcome
        <3> QED BY <2>2, <3>3, <3>4 DEF Finish
    <2>3. ASSUME NEW s \in Steps, TakeReady(s) \/ StepAction(s)
          PROVE  [Ordered!Next]_(Ordered!vars)
        BY <2>3, StepSimulation
    <2> QED BY <2>1, <2>2, <2>3 DEF Next, MainStep
<1> QED BY <1>1, <1>2, Inductive, MarkInvariant, PTL DEF Spec, RunIsOrdered, Ordered!Spec
=============================================================================
