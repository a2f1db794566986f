------------------------- MODULE ApprovalFlowProofs -------------------------
(***************************************************************************)
(* Proofs about ApprovalFlow, for any number of goroutines, humans,        *)
(* approvals and failures and for any timeouts with                        *)
(* ResumeTimeout + PersistTimeout <= StaleAfter.                           *)
(***************************************************************************)
EXTENDS ApprovalFlow, TLAPS

\* The facts about where a goroutine may jump, named once.
USE DEF Goto, Failure

(***************************************************************************)
(* Type correctness.                                                       *)
(***************************************************************************)
\* The steps of the goroutine of the first run keep the types.
LEMMA RunnerTyping == TypeOK /\ RunnerStep => TypeOK'
<1> SUFFICES ASSUME TypeOK, RunnerStep PROVE TypeOK'
    OBVIOUS
<1> USE DEF TypeOK, Threads, PCs, rowVars, apVars
<1>1. CASE CreateRun
    BY <1>1, BoundsAssumption DEF CreateRun, RunStates, BoardStates
<1>2. CASE ExecuteStart
    BY <1>2, BoundsAssumption DEF ExecuteStart, RunStates
<1>3. CASE BeginCreate
    BY <1>3, BoundsAssumption DEF BeginCreate, Exit, RunStates, ExecStates, Outcomes
<1>4. CASE MarkStarted
    BY <1>4, BoundsAssumption DEF MarkStarted, ExecStates
<1> QED BY <1>1, <1>2, <1>3, <1>4 DEF RunnerStep

\* A goroutine that ends, or goes on after a sync, keeps the types of the
\* locals.
LocalsOK ==
    /\ pc \in [Threads -> PCs]
    /\ ap \in [Threads -> Approvals \cup {0}]
    /\ iter \in [Threads -> 0..MaxIterations]
    /\ out \in [Threads -> Outcomes]
    /\ snap \in [Threads -> RunStates]
    /\ left \in [Threads -> Nat]

\* A goroutine that returns keeps the types of its locals.
LEMMA ExitTyping ==
    ASSUME LocalsOK, NEW t \in Threads, Exit(t) PROVE LocalsOK'
BY BoundsAssumption DEF LocalsOK, Exit, PCs, Outcomes, RunStates

\* So does one that goes on after a sync of the run,
LEMMA AfterSyncTyping ==
    ASSUME LocalsOK, NEW t \in Threads, AfterSync(t) PROVE LocalsOK'
BY ExitTyping DEF LocalsOK, AfterSync, PCs, RunStates

\* one whose Run or Resume has returned,
LEMMA FinishTyping ==
    ASSUME LocalsOK, NEW t \in Threads, NEW r \in Outcomes, Finish(t, r),
           UNCHANGED <<ap, snap>>
    PROVE  LocalsOK'
BY BoundsAssumption DEF LocalsOK, Finish, PCs

\* and one that starts to resume an approval.
LEMMA SpawnTyping ==
    ASSUME TypeOK, NEW w \in Workers, NEW a \in Approvals, Spawn(w, a)
    PROVE  LocalsOK'
BY BoundsAssumption DEF TypeOK, LocalsOK, Spawn, Threads, PCs, Outcomes

\* The agent loop, the persisting and the mirroring keep the types.
LEMMA AgentTyping ==
    ASSUME TypeOK, NEW t \in Threads, AgentStep(t) PROVE TypeOK'
<1>0. LocalsOK
    BY DEF TypeOK, LocalsOK
<1>f. Outcomes \subseteq ExecStates /\ "failed" \in Outcomes /\ "completed" \in Outcomes
        /\ "awaiting_approval" \in Outcomes
    BY DEF Outcomes, ExecStates
<1>1. CASE LoopStep(t)
    <2>1. LocalsOK'
        BY <1>0, <1>1, <1>f, FinishTyping, BoundsAssumption
           DEF LoopStep, ToolCalls, LocalsOK, IterationsLeft, PCs
    <2> QED BY <1>1, <2>1 DEF LoopStep, ToolCalls, TypeOK, LocalsOK, rowVars, apVars, Decided
<1>2. CASE PauseForApproval(t)
    <2>1. LocalsOK'
        BY <1>0, <1>2, <1>f, FinishTyping DEF PauseForApproval
    <2>2. apStatus' \in [Approvals -> {"none", "pending"} \cup Verdicts]
          /\ apIter' \in [Approvals -> 0..MaxIterations]
        BY <1>2 DEF PauseForApproval, TypeOK, apVars
    <2>3. failures' \in 0..MaxFailures
        BY <1>2, BoundsAssumption DEF PauseForApproval, TypeOK
    <2> QED BY <1>2, <2>1, <2>2, <2>3 DEF PauseForApproval, TypeOK, LocalsOK, rowVars
<1>3. CASE PersistResult(t)
    <2>1. LocalsOK'
        BY <1>0, <1>3 DEF PersistResult, LocalsOK, PCs
    <2>2. execStatus' \in ExecStates /\ execErr' \in BOOLEAN
        BY <1>3, <1>f DEF PersistResult, WriteOutcome, TypeOK
    <2>3. failures' \in 0..MaxFailures
        BY <1>3, BoundsAssumption DEF PersistResult, TypeOK
    <2> QED BY <1>3, <2>1, <2>2, <2>3 DEF PersistResult, WriteOutcome, TypeOK, LocalsOK, apVars
<1>4. CASE ReadBack(t)
    <2>1. LocalsOK'
        BY <1>0, <1>4 DEF ReadBack, LocalsOK, PCs, ApplyExecution, RunStates
    <2>3. failures' \in 0..MaxFailures
        BY <1>4, BoundsAssumption DEF ReadBack, TypeOK, ApplyExecution
    <2> QED BY <1>4, <2>1, <2>3 DEF ReadBack, TypeOK, LocalsOK, apVars, rowVars
<1>5. CASE SyncRun(t)
    <2>1. LocalsOK'
        BY <1>0, <1>5, AfterSyncTyping DEF SyncRun, LocalsOK, PCs
    <2>2. runStatus' \in RunStates
        BY <1>5 DEF SyncRun, TypeOK
    <2>4. runLinked' \in BOOLEAN
        BY <1>5, Zenon DEF SyncRun, TypeOK
    <2>3. failures' \in 0..MaxFailures
        BY <1>5, BoundsAssumption DEF SyncRun, TypeOK
    <2> QED BY <1>5, <2>1, <2>2, <2>3, <2>4 DEF SyncRun, TypeOK, LocalsOK, apVars
<1>6. CASE SyncBoard(t)
    <2>1. LocalsOK'
        BY <1>0, <1>6, AfterSyncTyping DEF SyncBoard, LocalsOK, PCs
    <2>2. board' \in BoardStates
        BY <1>6 DEF SyncBoard, TypeOK, BoardStates
    <2>3. failures' \in 0..MaxFailures
        BY <1>6, BoundsAssumption DEF SyncBoard, TypeOK
    <2> QED BY <1>6, <2>1, <2>2, <2>3 DEF SyncBoard, TypeOK, LocalsOK, apVars
<1>7. CASE SyncBoardDone(t)
    <2>1. LocalsOK'
        BY <1>0, <1>7, AfterSyncTyping DEF SyncBoardDone, LocalsOK, PCs
    <2>2. board' \in BoardStates
        BY <1>7 DEF SyncBoardDone, TypeOK, BoardStates
    <2>3. failures' \in 0..MaxFailures
        BY <1>7, BoundsAssumption DEF SyncBoardDone, TypeOK
    <2> QED BY <1>7, <2>1, <2>2, <2>3 DEF SyncBoardDone, TypeOK, LocalsOK, apVars
<1> QED BY <1>1, <1>2, <1>3, <1>4, <1>5, <1>6, <1>7 DEF AgentStep

\* The count of abandoned claims stays a natural number.
LEMMA AbandonTyping ==
    ASSUME TypeOK, NEW t \in Threads, Abandon(t) PROVE abandoned' \in [Approvals -> Nat]
BY DEF TypeOK, Abandon

\* The steps of a resume goroutine keep the types.
LEMMA WorkerTyping ==
    ASSUME TypeOK, NEW w \in Workers, WorkerStep(w) PROVE TypeOK'
<1>0. LocalsOK /\ w \in Threads
    BY DEF TypeOK, LocalsOK, Threads
<1>1. CASE ClaimResume(w)
    <2>1. LocalsOK'
        BY <1>0, <1>1, ExitTyping DEF ClaimResume, LocalsOK, PCs
    <2>2. claimAge' \in [Approvals -> NoClaim..(StaleAfter + 1)]
        BY <1>1, BoundsAssumption DEF ClaimResume, TypeOK, NoClaim
    <2>3. failures' \in 0..MaxFailures
        BY <1>1, BoundsAssumption DEF ClaimResume, TypeOK
    <2> QED BY <1>1, <2>1, <2>2, <2>3 DEF ClaimResume, TypeOK, LocalsOK, rowVars
<1>2. CASE MarkResuming(w)
    <2>1. LocalsOK'
        BY <1>0, <1>2, ExitTyping DEF MarkResuming, LocalsOK, PCs
    <2>2. execStatus' \in ExecStates
        BY <1>2 DEF MarkResuming, TypeOK, ExecStates
    <2>3. failures' \in 0..MaxFailures
        BY <1>2, BoundsAssumption DEF MarkResuming, TypeOK
    <2>4. abandoned' \in [Approvals -> Nat]
        BY <1>0, <1>2, AbandonTyping DEF MarkResuming, TypeOK
    <2> QED BY <1>2, <2>1, <2>2, <2>3, <2>4 DEF MarkResuming, TypeOK, LocalsOK, apVars
<1>3. CASE RereadExecution(w)
    <2>1. LocalsOK'
        BY <1>0, <1>3 DEF RereadExecution, LocalsOK, PCs, ApplyExecution, RunStates
    <2>3. failures' \in 0..MaxFailures
        BY <1>3, BoundsAssumption DEF RereadExecution, TypeOK, ApplyExecution
    <2> QED BY <1>3, <2>1, <2>3 DEF RereadExecution, TypeOK, LocalsOK, apVars, rowVars
<1>4. CASE Resume(w)
    <2>1. LocalsOK'
        BY <1>0, <1>4, FinishTyping DEF Resume, LocalsOK, PCs, Outcomes
    <2>2. toolRuns' \in [Approvals -> Nat]
        BY <1>4 DEF Resume, RunPendingTool, TypeOK
    <2> QED BY <1>4, <2>1, <2>2 DEF Resume, TypeOK, LocalsOK, apVars, rowVars
<1>5. CASE MarkResumed(w)
    <2>1. LocalsOK'
        BY <1>0, <1>5, ExitTyping DEF MarkResumed
    <2>2. resumed' \in [Approvals -> BOOLEAN]
        BY <1>5 DEF MarkResumed, SetResumedAt, TypeOK
    <2>3. failures' \in 0..MaxFailures
        BY <1>5, BoundsAssumption DEF MarkResumed, TypeOK
    <2>4. abandoned' \in [Approvals -> Nat]
        BY <1>0, <1>5, AbandonTyping DEF MarkResumed, TypeOK
    <2> QED BY <1>5, <2>1, <2>2, <2>3, <2>4 DEF MarkResumed, TypeOK, LocalsOK, rowVars
<1> QED BY <1>1, <1>2, <1>3, <1>4, <1>5 DEF WorkerStep

\* Humans, recovery, cancellation, crashes and the clock keep the types.
LEMMA EnvironmentTyping ==
    ASSUME TypeOK,
           \/ \E d \in Deciders : DecideCommit(d) \/ \E a \in Approvals : DecideRead(d, a)
           \/ \E a \in Approvals : RecoverUnresumed(a)
           \/ Cancel \/ Tick \/ \E t \in Threads : Crash(t)
    PROVE  TypeOK'
<1>0. LocalsOK
    BY DEF TypeOK, LocalsOK
<1>1. ASSUME NEW d \in Deciders, DecideCommit(d) PROVE TypeOK'
    <2>0. dpc[d] \in Approvals
        BY <1>1 DEF DecideCommit, TypeOK
    <2>1. LocalsOK'
        BY <1>0, <1>1, <2>0, SpawnTyping DEF DecideCommit, LocalsOK, threadVars
    <2>2. apStatus' \in [Approvals -> {"none", "pending"} \cup Verdicts]
        BY <1>1, <2>0 DEF DecideCommit, UpdateDecision, TypeOK
    <2>3. failures' \in 0..MaxFailures
        BY <1>1, BoundsAssumption DEF DecideCommit, TypeOK
    <2>4. dpc' \in [Deciders -> Approvals \cup {0}]
        BY <1>1 DEF DecideCommit, TypeOK
    <2> QED BY <1>1, <2>1, <2>2, <2>3, <2>4 DEF DecideCommit, TypeOK, LocalsOK, rowVars
<1>2. ASSUME NEW d \in Deciders, NEW a \in Approvals, DecideRead(d, a) PROVE TypeOK'
    BY <1>2 DEF DecideRead, TypeOK, rowVars, apVars, threadVars
<1>3. ASSUME NEW a \in Approvals, RecoverUnresumed(a) PROVE TypeOK'
    <2>1. LocalsOK'
        BY <1>3, SpawnTyping DEF RecoverUnresumed
    <2> QED BY <1>3, <2>1 DEF RecoverUnresumed, TypeOK, LocalsOK, rowVars, apVars
<1>4. CASE Cancel
    BY <1>4 DEF Cancel, TypeOK, ExecStates, apVars, threadVars
<1>5. CASE Tick
    <2>1. left' \in [Threads -> Nat]
        BY <1>5, RunnerAssumption DEF Tick, TypeOK, Threads
    <2>2. claimAge' \in [Approvals -> NoClaim..(StaleAfter + 1)]
        BY <1>5, BoundsAssumption DEF Tick, TypeOK, NoClaim
    <2> QED BY <1>5, <2>1, <2>2 DEF Tick, TypeOK, rowVars
<1>6. ASSUME NEW t \in Threads, Crash(t) PROVE TypeOK'
    <2>1. LocalsOK'
        BY <1>0, <1>6, ExitTyping DEF Crash
    <2>2. failures' \in 0..MaxFailures
        BY <1>6, BoundsAssumption DEF Crash, TypeOK
    <2>3. abandoned' \in [Approvals -> Nat]
        BY <1>6, AbandonTyping DEF Crash
    <2> QED BY <1>6, <2>1, <2>2, <2>3 DEF Crash, TypeOK, LocalsOK, rowVars, apVars
<1> QED BY <1>1, <1>2, <1>3, <1>4, <1>5, <1>6

\* The initial state has the types.
LEMMA InitTyping == Init => TypeOK
<1> SUFFICES ASSUME Init PROVE TypeOK
    OBVIOUS
<1>1. LocalsOK
    BY BoundsAssumption DEF Init, LocalsOK, PCs, Outcomes, RunStates
<1>2. /\ apStatus \in [Approvals -> {"none", "pending"} \cup Verdicts]
      /\ apIter \in [Approvals -> 0..MaxIterations]
      /\ claimAge \in [Approvals -> NoClaim..(StaleAfter + 1)]
      /\ dpc \in [Deciders -> Approvals \cup {0}]
      /\ failures \in 0..MaxFailures
      /\ toolRuns \in [Approvals -> Nat]
      /\ abandoned \in [Approvals -> Nat]
    BY BoundsAssumption DEF Init, NoClaim
<1>3. /\ execStatus \in ExecStates /\ execErr \in BOOLEAN
      /\ runStatus \in RunStates /\ runLinked \in BOOLEAN /\ board \in BoardStates
    BY DEF Init, ExecStates, RunStates, BoardStates
<1>4. resumed \in [Approvals -> BOOLEAN]
    BY DEF Init
<1> QED BY <1>1, <1>2, <1>3, <1>4 DEF TypeOK, LocalsOK

\* Every step keeps the types.
LEMMA NextTyping == TypeOK /\ [Next]_vars => TypeOK'
<1>1. ASSUME TypeOK, UNCHANGED vars PROVE TypeOK'
    BY <1>1 DEF TypeOK, vars, rowVars, apVars, threadVars
<1> QED BY <1>1, RunnerTyping, AgentTyping, WorkerTyping, EnvironmentTyping DEF Next

\* Every reachable state of the approval flow is well typed: no deadline is
\* overrun, no run goes beyond MaxIterations.
THEOREM TypeCorrect == Spec => []TypeOK
BY InitTyping, NextTyping, PTL DEF Spec

(***************************************************************************)
(* The inductive invariant. A resume goroutine's claim is younger than the *)
(* deadline it runs under allows, so nobody can take it over while the     *)
(* goroutine is alive; whoever holds the claim is therefore alone, and the *)
(* tool count of its approval is settled against the abandoned claims.     *)
(***************************************************************************)
BeforeResult == {"claim", "mark", "reread", "resume", "loop", "pause"}
Syncing == {"syncrun", "board", "done"}

\* How old the claim of w can get before its present deadline is due.
Budget(w) == IF out[w] = "none" THEN ResumeTimeout ELSE ResumeTimeout + PersistTimeout

ClaimInv(w) ==
    /\ pc[w] # "idle" => ap[w] \in Approvals
    /\ pc[w] \in BeforeResult => out[w] = "none"
    /\ pc[w] \in {"persist", "readback"} => out[w] # "none"
    /\ pc[w] = "claim" => left[w] <= ResumeTimeout
    /\ pc[w] \in ClaimedPCs =>
         /\ Decided(ap[w]) /\ ~resumed[ap[w]]
         /\ 0 <= claimAge[ap[w]]
         /\ claimAge[ap[w]] + left[w] <= Budget(w)

\* w holds its claim and has not come to the approved tool yet.
PreTool(w) ==
    pc[w] \in {"mark", "reread", "resume"} \/ (pc[w] \in Syncing /\ out[w] = "none")

ToolInv(a) ==
    /\ toolRuns[a] > 0 => apStatus[a] = "approved"
    /\ toolRuns[a] <= 1 + abandoned[a]
    /\ (\A w \in Workers : ~Resuming(w, a)) /\ ~resumed[a] => toolRuns[a] <= abandoned[a]
    /\ \A w \in Workers : Resuming(w, a) /\ PreTool(w) => toolRuns[a] <= abandoned[a]

IndInv ==
    /\ TypeOK
    /\ ap[Runner] = 0
    /\ \A w \in Workers : ClaimInv(w)
    /\ OneLiveResume
    /\ \A a \in Approvals : ToolInv(a)

\* What the steps of one goroutine leave alone in the others, and what every
\* step leaves alone in the approvals.
Frame(t) ==
    \A v \in Workers \ {t} :
        pc'[v] = pc[v] /\ ap'[v] = ap[v] /\ out'[v] = out[v] /\ left'[v] = left[v]
DecidedKept == \A a \in Approvals : Decided(a) => apStatus'[a] = apStatus[a]

\* What a step of the agent loop or of the mirroring does to the claims: the
\* goroutine keeps its claim, and opens a new deadline only as Run or Resume
\* returns.
AgentEffect(t) ==
    /\ Frame(t) /\ DecidedKept
    /\ UNCHANGED <<claimAge, resumed, toolRuns, abandoned>>
    /\ t \in Workers =>
         /\ pc[t] \in ClaimedPCs /\ pc'[t] \in ClaimedPCs /\ ap'[t] = ap[t]
         /\ pc'[t] \in BeforeResult => out'[t] = "none"
         /\ pc'[t] \in {"persist", "readback"} => out'[t] # "none"
         /\ \/ out'[t] = out[t] /\ left'[t] = left[t]
            \/ out[t] = "none" /\ out'[t] # "none" /\ left'[t] = PersistTimeout
         /\ PreTool(t)' => PreTool(t)

\* What a step of the agent loop or of a sync may change of the claims.
LEMMA AgentStepEffect ==
    ASSUME IndInv, NEW t \in Threads, AgentStep(t) PROVE AgentEffect(t)
<1> USE DEF PCs, ClaimedPCs, BeforeResult, Syncing, Threads, LocalsOK
<1>0. LocalsOK /\ (t \in Workers => ClaimInv(t) /\ t # Runner)
    BY RunnerAssumption DEF IndInv, TypeOK
<1>a. ASSUME AfterSync(t), pc[t] \in Syncing
      PROVE  /\ Frame(t)
             /\ t \in Workers =>
                  /\ pc'[t] \in {"resume", "markresumed"} /\ ap'[t] = ap[t]
                  /\ out'[t] = out[t] /\ left'[t] = left[t]
                  /\ pc'[t] = "resume" => out[t] = "none"
    BY <1>0, <1>a DEF AfterSync, Exit, Frame
<1>b. ASSUME NEW r, Finish(t, r), UNCHANGED ap
      PROVE  /\ Frame(t)
             /\ t \in Workers =>
                  pc'[t] = "persist" /\ ap'[t] = ap[t] /\ out'[t] = r
                    /\ left'[t] = PersistTimeout
    BY <1>0, <1>b DEF Finish, Frame
<1>1. CASE LoopStep(t)
    BY <1>0, <1>1, <1>b DEF LoopStep, ToolCalls, apVars, AgentEffect, DecidedKept, Frame, PreTool, ClaimInv
<1>2. CASE PauseForApproval(t)
    <2>1. DecidedKept
        BY <1>2 DEF PauseForApproval, DecidedKept, Decided, IndInv, TypeOK, Verdicts
    <2>2. \E r \in {"failed", "awaiting_approval"} : Finish(t, r)
        BY <1>2 DEF PauseForApproval
    <2> QED BY <1>0, <1>2, <2>1, <2>2, <1>b
            DEF PauseForApproval, AgentEffect, PreTool, ClaimInv
<1>3. CASE PersistResult(t)
    BY <1>0, <1>3 DEF PersistResult, WriteOutcome, apVars, AgentEffect, DecidedKept, Frame, PreTool, ClaimInv
<1>4. CASE ReadBack(t)
    BY <1>0, <1>4 DEF ReadBack, apVars, AgentEffect, DecidedKept, Frame, PreTool, ClaimInv,
        ApplyExecution
<1>5. CASE SyncRun(t)
    <2>1. DecidedKept /\ UNCHANGED <<claimAge, resumed, toolRuns, abandoned>>
        BY <1>5 DEF SyncRun, apVars, DecidedKept
    <2>2. \/ AfterSync(t)
          \/ Goto(t, "board") /\ UNCHANGED <<ap, out, left>>
        BY <1>5 DEF SyncRun
    <2>3. pc[t] = "syncrun"
        BY <1>5 DEF SyncRun
    <2> QED BY <1>0, <1>a, <2>1, <2>2, <2>3 DEF AgentEffect, Frame, PreTool, ClaimInv
<1>6. CASE SyncBoard(t)
    <2>1. DecidedKept /\ UNCHANGED <<claimAge, resumed, toolRuns, abandoned>>
        BY <1>6 DEF SyncBoard, apVars, DecidedKept
    <2>2. \/ AfterSync(t)
          \/ Goto(t, "done") /\ UNCHANGED <<ap, out, left>>
        BY <1>6 DEF SyncBoard
    <2>3. pc[t] = "board"
        BY <1>6 DEF SyncBoard
    <2> QED BY <1>0, <1>a, <2>1, <2>2, <2>3 DEF AgentEffect, Frame, PreTool, ClaimInv
<1>7. CASE SyncBoardDone(t)
    BY <1>0, <1>7, <1>a DEF SyncBoardDone, apVars, AgentEffect, DecidedKept, PreTool, ClaimInv
<1> QED BY <1>1, <1>2, <1>3, <1>4, <1>5, <1>6, <1>7 DEF AgentStep

\* The part of IndInv that is about claims and tools.
ClaimsOK ==
    /\ \A w \in Workers : ClaimInv(w)
    /\ OneLiveResume
    /\ \A a \in Approvals : ToolInv(a)

\* The steps of the agent loop and of the syncs keep the claims.
LEMMA AgentPreserves ==
    ASSUME IndInv, NEW t \in Threads, AgentStep(t) PROVE ClaimsOK'
<1> USE BoundsAssumption
<1>1. AgentEffect(t)
    BY AgentStepEffect
<1>2. \A w \in Workers : Resuming(w, ap[w])' <=> Resuming(w, ap[w])
    BY <1>1 DEF AgentEffect, Frame, Resuming
<1>3. ASSUME NEW w \in Workers PROVE ClaimInv(w)'
    <2>1. w = t \/ w # t
        OBVIOUS
    <2>2. ClaimInv(w) /\ ap[w] \in Approvals \cup {0} /\ left[w] \in Nat /\ left'[w] \in Int
        BY <1>1, <1>3 DEF IndInv, TypeOK, Threads, AgentEffect, Frame
    <2>3. claimAge \in [Approvals -> Int]
        BY DEF IndInv, TypeOK, NoClaim
    <2> QED BY <1>1, <2>1, <2>2, <2>3
        DEF ClaimInv, AgentEffect, Frame, DecidedKept, Decided, Budget, ClaimedPCs,
            BeforeResult, PCs
<1>4. OneLiveResume'
    BY <1>1 DEF AgentEffect, Frame, IndInv, OneLiveResume, Resuming
<1>5. ASSUME NEW a \in Approvals PROVE ToolInv(a)'
    <2>0. \A w \in Workers : (Resuming(w, a)' <=> Resuming(w, a)) /\ (PreTool(w)' => PreTool(w))
        BY <1>1 DEF AgentEffect, Frame, Resuming, PreTool
    <2>1. ToolInv(a)
        BY DEF IndInv
    <2> QED BY <1>1, <2>0, <2>1 DEF ToolInv, AgentEffect, DecidedKept, Decided, Verdicts
<1> QED BY <1>3, <1>4, <1>5 DEF ClaimsOK

\* Steps that touch no resume goroutine and replace no decision.
LEMMA FramePreserves ==
    ASSUME IndInv,
           UNCHANGED <<claimAge, resumed, toolRuns, abandoned>>, DecidedKept,
           \A w \in Workers : pc'[w] = pc[w] /\ ap'[w] = ap[w] /\ out'[w] = out[w]
                                /\ left'[w] = left[w]
    PROVE  ClaimsOK'
<1>1. ASSUME NEW w \in Workers PROVE ClaimInv(w)'
    <2>1. ClaimInv(w)
        BY DEF IndInv
    <2> QED BY <2>1
        DEF ClaimInv, Budget, DecidedKept, Decided, ClaimedPCs, BeforeResult, PCs
<1>2. OneLiveResume'
    BY DEF IndInv, OneLiveResume, Resuming
<1>3. ASSUME NEW a \in Approvals PROVE ToolInv(a)'
    <2>1. ToolInv(a)
        BY DEF IndInv
    <2> QED BY <2>1 DEF ToolInv, Resuming, PreTool, DecidedKept, Decided, Verdicts
<1> QED BY <1>1, <1>2, <1>3 DEF ClaimsOK

\* A goroutine that starts, and holds no claim yet.
LEMMA SpawnPreserves ==
    ASSUME IndInv, NEW w \in Workers, NEW a \in Approvals, Spawn(w, a), DecidedKept,
           UNCHANGED <<claimAge, resumed, toolRuns, abandoned>>
    PROVE  ClaimsOK'
<1>0. /\ pc'[w] = "claim" /\ ap'[w] = a /\ out'[w] = "none" /\ left'[w] = ResumeTimeout
      /\ pc[w] = "idle" /\ Frame(w)
    BY DEF Spawn, IndInv, TypeOK, Threads, Frame
<1>1. ASSUME NEW v \in Workers PROVE ClaimInv(v)'
    <2>1. ClaimInv(v)
        BY DEF IndInv
    <2> QED BY <1>0, <2>1, BoundsAssumption
        DEF ClaimInv, Frame, Budget, DecidedKept, Decided, ClaimedPCs, BeforeResult, PCs
<1>2. \A v \in Workers, b \in Approvals : Resuming(v, b)' <=> Resuming(v, b)
    BY <1>0 DEF Frame, Resuming, ClaimedPCs
<1>3. OneLiveResume'
    BY <1>2 DEF IndInv, OneLiveResume
<1>4. ASSUME NEW b \in Approvals PROVE ToolInv(b)'
    <2>1. ToolInv(b)
        BY DEF IndInv
    <2>2. \A v \in Workers : PreTool(v)' => PreTool(v)
        BY <1>0 DEF Frame, PreTool, Syncing
    <2> QED BY <2>1, <2>2, <1>2 DEF ToolInv, DecidedKept, Decided, Verdicts
<1> QED BY <1>1, <1>3, <1>4 DEF ClaimsOK

\* A goroutine that ends before it won a claim, leaving everything else.
LEMMA LoserPreserves ==
    ASSUME IndInv, NEW w \in Workers, pc[w] \notin ClaimedPCs, Exit(w), DecidedKept,
           UNCHANGED <<claimAge, resumed, toolRuns, abandoned>>
    PROVE  ClaimsOK'
<1>0. pc'[w] = "idle" /\ Frame(w)
    BY DEF Exit, IndInv, TypeOK, Threads, Frame
<1>1. ASSUME NEW v \in Workers PROVE ClaimInv(v)'
    <2>1. ClaimInv(v)
        BY DEF IndInv
    <2> QED BY <1>0, <2>1
        DEF ClaimInv, Frame, Budget, DecidedKept, Decided, ClaimedPCs, BeforeResult, PCs
<1>2. \A v \in Workers, b \in Approvals : Resuming(v, b)' <=> Resuming(v, b)
    BY <1>0 DEF Frame, Resuming, ClaimedPCs
<1>3. OneLiveResume'
    BY <1>2 DEF IndInv, OneLiveResume
<1>4. ASSUME NEW b \in Approvals PROVE ToolInv(b)'
    <2>1. ToolInv(b)
        BY DEF IndInv
    <2>2. \A v \in Workers : PreTool(v)' => PreTool(v)
        BY <1>0 DEF Frame, PreTool, Syncing
    <2> QED BY <2>1, <2>2, <1>2 DEF ToolInv, DecidedKept, Decided, Verdicts
<1> QED BY <1>1, <1>3, <1>4 DEF ClaimsOK

\* A goroutine that ends while it holds the claim: either the approval is
\* marked resumed, or the claim is counted as abandoned.
LEMMA HolderEndsPreserves ==
    ASSUME IndInv, NEW w \in Workers, pc[w] \in ClaimedPCs, Exit(w), DecidedKept,
           UNCHANGED <<claimAge, toolRuns>>,
           \/ SetResumedAt(w) /\ UNCHANGED abandoned
           \/ Abandon(w) /\ UNCHANGED resumed
    PROVE  ClaimsOK'
<1>0. pc'[w] = "idle" /\ Frame(w)
    BY DEF Exit, IndInv, TypeOK, Threads, Frame
<1>1. ap[w] \in Approvals /\ ap[w] # 0 /\ Resuming(w, ap[w]) /\ ~resumed[ap[w]]
    BY DEF IndInv, ClaimInv, ClaimedPCs, PCs, Resuming, Approvals
<1>2. \A v \in Workers : Resuming(v, ap[w]) => v = w
    BY <1>1 DEF IndInv, OneLiveResume
<1>3. \A b \in Approvals : b # ap[w] => resumed'[b] = resumed[b] /\ abandoned'[b] = abandoned[b]
    BY <1>1 DEF SetResumedAt, Abandon, IndInv, TypeOK
<1>4. \A v \in Workers, b \in Approvals : Resuming(v, b)' <=> Resuming(v, b) /\ v # w
    BY <1>0 DEF Frame, Resuming, ClaimedPCs
<1>5. ASSUME NEW v \in Workers PROVE ClaimInv(v)'
    <2>1. ClaimInv(v) /\ (v # w /\ pc[v] \in ClaimedPCs => ap[v] # ap[w])
        BY <1>2 DEF IndInv, Resuming
    <2> QED BY <1>0, <1>3, <2>1
        DEF ClaimInv, Frame, Budget, DecidedKept, Decided, ClaimedPCs, BeforeResult, PCs
<1>6. OneLiveResume'
    BY <1>4 DEF IndInv, OneLiveResume
<1>7. ASSUME NEW b \in Approvals PROVE ToolInv(b)'
    <2>1. ToolInv(b) /\ toolRuns[b] \in Nat /\ abandoned[b] \in Nat
        BY DEF IndInv, TypeOK
    <2>2. \A v \in Workers : v # w => (PreTool(v)' <=> PreTool(v))
        BY <1>0 DEF Frame, PreTool
    <2>3. CASE b # ap[w]
        <3>1. ~Resuming(w, b)
            BY <2>3 DEF Resuming
        <3> QED BY <2>1, <2>2, <2>3, <3>1, <1>3, <1>4
            DEF ToolInv, DecidedKept, Decided, Verdicts
    <2>4. CASE b = ap[w]
        <3>1. \A v \in Workers : ~Resuming(v, b)'
            BY <1>2, <1>4, <2>4
        <3>2. \/ resumed'[b] /\ abandoned'[b] = abandoned[b]
              \/ abandoned'[b] = abandoned[b] + 1
            BY <1>1, <2>4 DEF SetResumedAt, Abandon, IndInv, TypeOK
        <3> QED BY <2>1, <3>1, <3>2 DEF ToolInv, DecidedKept, Decided, Verdicts
    <2> QED BY <2>3, <2>4
<1> QED BY <1>5, <1>6, <1>7 DEF ClaimsOK

\* A claimable approval has no live holder: the claim of one is too young.
LEMMA ClaimableIsFree ==
    ASSUME IndInv, NEW a \in Approvals, Claimable(a), NEW v \in Workers
    PROVE  ~Resuming(v, a)
<1> SUFFICES ASSUME Resuming(v, a) PROVE FALSE
    OBVIOUS
<1>1. ClaimInv(v) /\ pc[v] \in ClaimedPCs /\ ap[v] = a
    BY DEF IndInv, Resuming
<1>2. Budget(v) <= StaleAfter /\ left[v] \in Nat /\ claimAge[a] \in Int
    BY BoundsAssumption, StaleAssumption DEF Budget, IndInv, TypeOK, Threads, NoClaim
<1>3. 0 <= claimAge[a] /\ claimAge[a] + left[v] <= Budget(v)
    BY <1>1 DEF ClaimInv
<1>4. Budget(v) \in Int
    BY BoundsAssumption DEF Budget
<1> QED BY <1>2, <1>3, <1>4, BoundsAssumption DEF Claimable, NoClaim

\* Winning the claim: a live holder would have made it unclaimable.
LEMMA ClaimPreserves ==
    ASSUME IndInv, NEW w \in Workers, pc[w] = "claim", Claimable(ap[w]),
           claimAge' = [claimAge EXCEPT ![ap[w]] = 0], Goto(w, "mark"),
           UNCHANGED <<ap, out, left, apStatus, resumed, toolRuns, abandoned>>
    PROVE  ClaimsOK'
<1>0. /\ ap[w] \in Approvals /\ out[w] = "none" /\ left[w] <= ResumeTimeout
      /\ left[w] \in Nat
    BY DEF IndInv, ClaimInv, BeforeResult, TypeOK, Threads
<1>1. pc'[w] = "mark" /\ \A v \in Workers \ {w} : pc'[v] = pc[v]
    BY DEF IndInv, TypeOK, Threads
<1>2. \A v \in Workers : ~Resuming(v, ap[w])
    BY <1>0, ClaimableIsFree
<1>3. \A v \in Workers, b \in Approvals :
        Resuming(v, b)' <=> Resuming(v, b) \/ (v = w /\ b = ap[w])
    BY <1>1 DEF Resuming, ClaimedPCs, PCs
<1>4. ASSUME NEW v \in Workers PROVE ClaimInv(v)'
    <2>1. ClaimInv(v)
        BY DEF IndInv
    <2>2. CASE v = w
        BY <1>0, <1>1, <2>2, BoundsAssumption
           DEF ClaimInv, Claimable, Decided, Budget, BeforeResult, IndInv, TypeOK
    <2>3. CASE v # w
        <3>1. pc[v] \in ClaimedPCs => ap[v] # ap[w]
            BY <1>2 DEF Resuming
        <3>2. pc[v] \in ClaimedPCs => claimAge'[ap[v]] = claimAge[ap[v]]
            BY <3>1, <2>1 DEF ClaimInv, IndInv, TypeOK, ClaimedPCs
        <3> QED BY <1>1, <2>1, <2>3, <3>2
            DEF ClaimInv, Decided, Budget, BeforeResult, ClaimedPCs, PCs
    <2> QED BY <2>2, <2>3
<1>5. OneLiveResume'
    BY <1>2, <1>3 DEF IndInv, OneLiveResume
<1>6. ASSUME NEW b \in Approvals PROVE ToolInv(b)'
    <2>1. ToolInv(b)
        BY DEF IndInv
    <2>2. \A v \in Workers : v # w => (PreTool(v)' <=> PreTool(v))
        BY <1>1 DEF PreTool
    <2>3. CASE b = ap[w]
        BY <1>2, <2>1, <2>3 DEF ToolInv, Claimable
    <2>4. CASE b # ap[w]
        BY <1>3, <2>1, <2>2, <2>4 DEF ToolInv, Resuming
    <2> QED BY <2>3, <2>4
<1> QED BY <1>4, <1>5, <1>6 DEF ClaimsOK

\* A holder that moves on without a new outcome or deadline.
LEMMA HolderMovesPreserves ==
    ASSUME IndInv, NEW w \in Workers, NEW from \in ClaimedPCs, NEW to \in ClaimedPCs,
           pc[w] = from, Goto(w, to), to \in BeforeResult => out[w] = "none",
           to \notin {"persist", "readback"},
           from \in {"mark", "reread", "resume"},
           UNCHANGED <<ap, out, left, apStatus, claimAge, resumed, toolRuns, abandoned>>
    PROVE  ClaimsOK'
<1>1. pc'[w] = to /\ \A v \in Workers \ {w} : pc'[v] = pc[v]
    BY DEF IndInv, TypeOK, Threads
<1>2. \A v \in Workers, b \in Approvals : Resuming(v, b)' <=> Resuming(v, b)
    BY <1>1 DEF Resuming
<1>3. ASSUME NEW v \in Workers PROVE ClaimInv(v)'
    <2>1. ClaimInv(v)
        BY DEF IndInv
    <2> QED BY <1>1, <2>1 DEF ClaimInv, Decided, Budget, BeforeResult, ClaimedPCs, PCs
<1>4. OneLiveResume'
    BY <1>2 DEF IndInv, OneLiveResume
<1>5. ASSUME NEW b \in Approvals PROVE ToolInv(b)'
    <2>1. ToolInv(b)
        BY DEF IndInv
    <2>2. \A v \in Workers : PreTool(v)' => PreTool(v)
        BY <1>1 DEF PreTool
    <2> QED BY <1>2, <2>1, <2>2 DEF ToolInv
<1> QED BY <1>3, <1>4, <1>5 DEF ClaimsOK

\* Executor.Resume runs the approved tool, alone and for the first time under
\* this claim, or fails before it.
LEMMA ResumePreserves ==
    ASSUME IndInv, NEW w \in Workers, Resume(w) PROVE ClaimsOK'
<1>0. pc[w] = "resume" /\ out[w] = "none" /\ ap[w] \in Approvals /\ Resuming(w, ap[w])
        /\ ClaimInv(w) /\ left[w] \in Nat
    BY DEF Resume, IndInv, ClaimInv, BeforeResult, Resuming, ClaimedPCs, PCs, TypeOK, Threads
<1>1. /\ \A v \in Workers \ {w} : pc'[v] = pc[v] /\ out'[v] = out[v] /\ left'[v] = left[v]
      /\ UNCHANGED <<ap, apStatus, claimAge, resumed, abandoned>>
    BY DEF Resume, Finish, apVars, IndInv, TypeOK, Threads
<1>2. \/ /\ pc'[w] \in {"loop", "pause"} /\ out'[w] = "none" /\ left'[w] = left[w]
         /\ RunPendingTool(w)
      \/ /\ pc'[w] = "persist" /\ out'[w] = "failed" /\ left'[w] = PersistTimeout
         /\ UNCHANGED toolRuns
    BY <1>0 DEF Resume, Finish, IndInv, TypeOK, Threads
<1>3. \A v \in Workers, b \in Approvals : Resuming(v, b)' <=> Resuming(v, b)
    BY <1>0, <1>1, <1>2 DEF Resuming, ClaimedPCs, PCs
<1>4. ASSUME NEW v \in Workers PROVE ClaimInv(v)'
    <2>1. ClaimInv(v)
        BY DEF IndInv
    <2>2. CASE v # w
        BY <1>1, <2>1, <2>2 DEF ClaimInv, Decided, Budget, BeforeResult, ClaimedPCs, PCs
    <2>3. CASE v = w
        <3>1. claimAge[ap[w]] \in Int
            BY <1>0 DEF IndInv, TypeOK, NoClaim
        <3>2. Decided(ap[w]) /\ ~resumed[ap[w]] /\ 0 <= claimAge[ap[w]]
                /\ claimAge[ap[w]] + left[w] <= ResumeTimeout
            BY <1>0 DEF ClaimInv, ClaimedPCs, PCs, Budget
        <3> QED BY <1>0, <1>1, <1>2, <2>3, <3>1, <3>2, BoundsAssumption
            DEF ClaimInv, Decided, Budget, BeforeResult
    <2> QED BY <2>2, <2>3
<1>5. OneLiveResume'
    BY <1>3 DEF IndInv, OneLiveResume
<1>6. ASSUME NEW b \in Approvals PROVE ToolInv(b)'
    <2>1. ToolInv(b) /\ toolRuns[b] \in Nat /\ abandoned[b] \in Nat
        BY DEF IndInv, TypeOK
    <2>2. \A v \in Workers : v # w => (PreTool(v)' <=> PreTool(v))
        BY <1>1 DEF PreTool
    <2>3. ~PreTool(w)'
        BY <1>2 DEF PreTool, Syncing
    <2>4. CASE b # ap[w]
        <3>1. toolRuns'[b] = toolRuns[b]
            BY <1>0, <1>2, <2>4 DEF RunPendingTool, IndInv, TypeOK
        <3> QED BY <1>1, <1>3, <2>1, <2>2, <2>3, <3>1 DEF ToolInv
    <2>5. CASE b = ap[w]
        <3>1. \A v \in Workers : Resuming(v, b) => v = w
            BY <1>0, <2>5 DEF IndInv, OneLiveResume
        <3>2. toolRuns[b] <= abandoned[b]
            BY <1>0, <2>1, <2>5 DEF ToolInv, PreTool
        <3>3. \/ toolRuns'[b] = toolRuns[b]
              \/ toolRuns'[b] = toolRuns[b] + 1 /\ apStatus[b] = "approved"
            BY <1>0, <1>2, <2>5 DEF RunPendingTool, IndInv, TypeOK
        <3>4. Resuming(w, b)'
            BY <1>0, <1>3, <2>5
        <3> QED BY <1>1, <1>3, <2>1, <2>3, <3>1, <3>2, <3>3, <3>4 DEF ToolInv
    <2> QED BY <2>4, <2>5
<1> QED BY <1>4, <1>5, <1>6 DEF ClaimsOK

\* Time makes claims older and deadlines nearer by the same amount.
LEMMA TickPreserves == ASSUME IndInv, Tick PROVE ClaimsOK'
<1>1. UNCHANGED <<pc, ap, out, apStatus, resumed, toolRuns, abandoned>>
    BY DEF Tick
<1>2. \A v \in Workers, b \in Approvals : Resuming(v, b)' <=> Resuming(v, b)
    BY <1>1 DEF Resuming
<1>3. ASSUME NEW w \in Workers PROVE ClaimInv(w)'
    <2>1. ClaimInv(w) /\ left[w] \in Nat
        BY DEF IndInv, TypeOK, Threads
    <2>2. pc[w] # "idle" => left'[w] = left[w] - 1
        BY RunnerAssumption DEF Tick, Threads
    <2>3. CASE pc[w] \in ClaimedPCs
        <3>1. ap[w] \in Approvals /\ claimAge[ap[w]] \in Int
            BY <2>1, <2>3 DEF ClaimInv, ClaimedPCs, IndInv, TypeOK, NoClaim
        <3>2. Budget(w)' = Budget(w) /\ Budget(w) \in Int
            BY <1>1, BoundsAssumption DEF Budget
        <3>3. 0 <= claimAge[ap[w]] /\ claimAge[ap[w]] + left[w] <= Budget(w)
            BY <2>1, <2>3 DEF ClaimInv
        <3>4. claimAge'[ap[w]] \in {claimAge[ap[w]], claimAge[ap[w]] + 1}
            BY <3>1 DEF Tick
        <3>5. left'[w] = left[w] - 1
            BY <2>2, <2>3 DEF ClaimedPCs
        <3>6. 0 <= claimAge'[ap[w]] /\ claimAge'[ap[w]] + left'[w] <= Budget(w)'
            BY <2>1, <3>1, <3>2, <3>3, <3>4, <3>5
        <3> QED BY <1>1, <2>1, <2>3, <3>6 DEF ClaimInv, Decided, BeforeResult, ClaimedPCs
    <2>4. CASE pc[w] \notin ClaimedPCs
        BY <1>1, <2>1, <2>2, <2>4, BoundsAssumption
           DEF ClaimInv, Decided, BeforeResult, ClaimedPCs, PCs
    <2> QED BY <2>3, <2>4
<1>4. OneLiveResume'
    BY <1>2 DEF IndInv, OneLiveResume
<1>5. ASSUME NEW b \in Approvals PROVE ToolInv(b)'
    <2>1. ToolInv(b)
        BY DEF IndInv
    <2> QED BY <1>1, <1>2, <2>1 DEF ToolInv, PreTool
<1> QED BY <1>3, <1>4, <1>5 DEF ClaimsOK

\* The steps of a resume goroutine keep the claims.
LEMMA WorkerPreserves ==
    ASSUME IndInv, NEW w \in Workers, WorkerStep(w) PROVE ClaimsOK'
<1>1. CASE ClaimResume(w)
    <2>1. CASE Claimable(ap[w]) /\ claimAge' = [claimAge EXCEPT ![ap[w]] = 0] /\ Goto(w, "mark")
                 /\ UNCHANGED <<ap, out, left>>
        BY <1>1, <2>1, ClaimPreserves DEF ClaimResume
    <2>2. CASE Exit(w) /\ UNCHANGED claimAge
        <3>1. pc[w] \notin ClaimedPCs /\ DecidedKept
            BY <1>1 DEF ClaimResume, ClaimedPCs, DecidedKept
        <3> QED BY <1>1, <2>2, <3>1, LoserPreserves DEF ClaimResume
    <2> QED BY <1>1, <2>1, <2>2 DEF ClaimResume
<1>2. CASE MarkResuming(w)
    <2>0. pc[w] = "mark" /\ out[w] = "none" /\ "mark" \in ClaimedPCs /\ DecidedKept
        BY <1>2 DEF MarkResuming, IndInv, ClaimInv, BeforeResult, ClaimedPCs, PCs, DecidedKept,
            apVars
    <2>1. CASE \E to \in {"reread", "markresumed"} :
                 Goto(w, to) /\ UNCHANGED <<ap, out, left, abandoned>>
        BY <1>2, <2>0, <2>1, HolderMovesPreserves DEF MarkResuming, apVars, ClaimedPCs, PCs
    <2>2. CASE Exit(w) /\ Abandon(w)
        BY <1>2, <2>0, <2>2, HolderEndsPreserves DEF MarkResuming, apVars
    <2> QED BY <1>2, <2>1, <2>2 DEF MarkResuming
<1>3. CASE RereadExecution(w)
    <2>0. pc[w] = "reread" /\ out[w] = "none" /\ "reread" \in ClaimedPCs
        BY <1>3 DEF RereadExecution, IndInv, ClaimInv, BeforeResult, ClaimedPCs, PCs
    <2>1. \E to \in {"syncrun", "resume"} : Goto(w, to)
        BY <1>3, Zenon DEF RereadExecution
    <2> QED BY <1>3, <2>0, <2>1, HolderMovesPreserves DEF RereadExecution, apVars, ClaimedPCs, PCs
<1>4. CASE Resume(w)
    BY <1>4, ResumePreserves
<1>5. CASE MarkResumed(w)
    <2>0. pc[w] \in ClaimedPCs /\ DecidedKept
        BY <1>5 DEF MarkResumed, ClaimedPCs, PCs, DecidedKept
    <2> QED BY <1>5, <2>0, HolderEndsPreserves DEF MarkResumed
<1> QED BY <1>1, <1>2, <1>3, <1>4, <1>5 DEF WorkerStep

\* A crash keeps the claims: it leaves one behind, counted in abandoned.
LEMMA CrashPreserves ==
    ASSUME IndInv, NEW t \in Threads, Crash(t) PROVE ClaimsOK'
<1>0. DecidedKept /\ UNCHANGED <<claimAge, resumed, toolRuns>> /\ Exit(t) /\ Abandon(t)
    BY DEF Crash, apVars, DecidedKept
<1>1. CASE t \in Workers /\ pc[t] \in ClaimedPCs
    BY <1>0, <1>1, HolderEndsPreserves
<1>2. CASE pc[t] \notin ClaimedPCs /\ t \in Workers
    BY <1>0, <1>2, LoserPreserves DEF Abandon
<1>3. CASE t = Runner
    <2>1. \A w \in Workers : pc'[w] = pc[w] /\ ap'[w] = ap[w] /\ out'[w] = out[w]
                               /\ left'[w] = left[w]
        BY <1>0, <1>3, RunnerAssumption DEF Exit, IndInv, TypeOK, Threads
    <2>2. UNCHANGED abandoned
        BY <1>0, <1>3 DEF Abandon, IndInv
    <2> QED BY <1>0, <2>1, <2>2, FramePreserves
<1> QED BY <1>1, <1>2, <1>3 DEF Threads

\* The first run never works for an approval.
LEMMA RunnerHasNoApproval == ASSUME IndInv, [Next]_vars PROVE ap'[Runner] = 0
<1> USE RunnerAssumption DEF IndInv, TypeOK, Threads
<1>1. ASSUME NEW w \in Workers, NEW a, Spawn(w, a) PROVE ap'[Runner] = 0
    BY <1>1 DEF Spawn
<1>2. ASSUME NEW t \in Threads, Exit(t) PROVE ap'[Runner] = 0
    BY <1>2 DEF Exit
<1>3. ASSUME NEW t \in Threads, AfterSync(t) PROVE ap'[Runner] = 0
    BY <1>2, <1>3 DEF AfterSync
<1>4. CASE RunnerStep
    BY <1>2, <1>4
       DEF RunnerStep, CreateRun, ExecuteStart, BeginCreate, MarkStarted
<1>5. ASSUME NEW t \in Threads, AgentStep(t) PROVE ap'[Runner] = 0
    <2>1. CASE LoopStep(t) \/ PauseForApproval(t) \/ PersistResult(t)
        BY <2>1 DEF LoopStep, ToolCalls, PauseForApproval, PersistResult, WriteOutcome
    <2>2. CASE ReadBack(t)
        BY <2>2, Zenon DEF ReadBack
    <2>3. CASE SyncRun(t) \/ SyncBoard(t) \/ SyncBoardDone(t)
        BY <2>3, <1>3 DEF SyncRun, SyncBoard, SyncBoardDone
    <2> QED BY <1>5, <2>1, <2>2, <2>3 DEF AgentStep
<1>6. ASSUME NEW w \in Workers, WorkerStep(w) PROVE ap'[Runner] = 0
    <2>1. CASE ClaimResume(w) \/ MarkResuming(w) \/ Resume(w) \/ MarkResumed(w)
        BY <2>1, <1>2 DEF ClaimResume, MarkResuming, Resume, MarkResumed
    <2>2. CASE RereadExecution(w)
        BY <2>2, Zenon DEF RereadExecution
    <2> QED BY <1>6, <2>1, <2>2 DEF WorkerStep
<1>7. ASSUME NEW t \in Threads, Crash(t) PROVE ap'[Runner] = 0
    BY <1>2, <1>7 DEF Crash
<1>8. ASSUME NEW d \in Deciders, DecideCommit(d) PROVE ap'[Runner] = 0
    BY <1>1, <1>8 DEF DecideCommit, threadVars
<1>9. ASSUME NEW d \in Deciders, NEW a \in Approvals, DecideRead(d, a) PROVE ap'[Runner] = 0
    BY <1>9 DEF DecideRead, threadVars
<1>10. ASSUME NEW a \in Approvals, RecoverUnresumed(a) PROVE ap'[Runner] = 0
    BY <1>1, <1>10 DEF RecoverUnresumed
<1>11. CASE Cancel \/ Tick \/ UNCHANGED vars
    BY <1>11 DEF Cancel, Tick, vars, threadVars
<1> QED BY <1>4, <1>5, <1>6, <1>7, <1>8, <1>9, <1>10, <1>11 DEF Next

\* Every step keeps the claims.
LEMMA NextPreserves == ASSUME IndInv, [Next]_vars PROVE ClaimsOK'
<1>1. CASE RunnerStep
    <2>1. /\ UNCHANGED <<claimAge, resumed, toolRuns, abandoned>> /\ DecidedKept
          /\ \A w \in Workers : pc'[w] = pc[w] /\ ap'[w] = ap[w] /\ out'[w] = out[w]
                                  /\ left'[w] = left[w]
        BY <1>1, RunnerAssumption
           DEF RunnerStep, CreateRun, ExecuteStart, BeginCreate, MarkStarted, Exit, apVars,
               DecidedKept, IndInv, TypeOK, Threads
    <2> QED BY <2>1, FramePreserves
<1>2. ASSUME NEW d \in Deciders, DecideCommit(d) PROVE ClaimsOK'
    <2>0. dpc[d] \in Approvals
        BY <1>2 DEF DecideCommit, IndInv, TypeOK
    <2>1. DecidedKept /\ UNCHANGED <<claimAge, resumed, toolRuns, abandoned>>
        BY <1>2, <2>0
           DEF DecideCommit, UpdateDecision, DecidedKept, Decided, Verdicts, IndInv, TypeOK
    <2>2. CASE \E w \in Workers : Spawn(w, dpc[d])
        BY <2>0, <2>1, <2>2, SpawnPreserves
    <2>3. CASE UNCHANGED threadVars
        BY <2>1, <2>3, FramePreserves DEF threadVars
    <2> QED BY <1>2, <2>2, <2>3 DEF DecideCommit
<1>3. ASSUME NEW d \in Deciders, NEW a \in Approvals, DecideRead(d, a) PROVE ClaimsOK'
    BY <1>3, FramePreserves DEF DecideRead, apVars, threadVars, DecidedKept
<1>4. ASSUME NEW a \in Approvals, RecoverUnresumed(a) PROVE ClaimsOK'
    BY <1>4, SpawnPreserves DEF RecoverUnresumed, apVars, DecidedKept
<1>5. CASE Cancel
    BY <1>5, FramePreserves DEF Cancel, apVars, threadVars, DecidedKept
<1>6. CASE UNCHANGED vars
    BY <1>6, FramePreserves DEF vars, apVars, threadVars, DecidedKept
<1> QED BY <1>1, <1>2, <1>3, <1>4, <1>5, <1>6, AgentPreserves, WorkerPreserves,
           CrashPreserves, TickPreserves DEF Next

\* IndInv holds at first.
LEMMA InitIndInv == Init => IndInv
<1> SUFFICES ASSUME Init PROVE IndInv
    OBVIOUS
<1>1. TypeOK
    BY InitTyping
<1>2. \A w \in Threads : pc[w] = "idle" /\ ap[w] = 0
    BY DEF Init
<1>3. \A w \in Workers : ClaimInv(w)
    BY <1>2 DEF ClaimInv, BeforeResult, ClaimedPCs, PCs, Threads
<1>4. \A a \in Approvals, w \in Workers : ~Resuming(w, a)
    BY <1>2 DEF Resuming, ClaimedPCs, Threads
<1>5. \A a \in Approvals : ToolInv(a)
    BY <1>4 DEF Init, ToolInv
<1> QED BY <1>1, <1>2, <1>3, <1>4, <1>5 DEF IndInv, OneLiveResume, Threads

\* IndInv is an invariant.
LEMMA Inductive == Spec => []IndInv
<1>1. IndInv /\ [Next]_vars => IndInv'
    BY NextTyping, RunnerHasNoApproval, NextPreserves DEF IndInv, ClaimsOK
<1> QED BY <1>1, InitIndInv, PTL DEF Spec

(***************************************************************************)
(* The theorems.                                                           *)
(***************************************************************************)
\* A live resume is never run twice: however many goroutines race for an
\* approval, after any crashes and takeovers, at most one holds its claim.
THEOREM OneLiveResumeThm == Spec => []OneLiveResume
<1>1. IndInv => OneLiveResume
    BY DEF IndInv
<1> QED BY <1>1, Inductive, PTL

\* No gated tool runs without an approved decision.
THEOREM ToolNeedsApprovalThm == Spec => []ToolNeedsApproval
<1>1. IndInv => ToolNeedsApproval
    BY DEF IndInv, ToolInv, ToolNeedsApproval
<1> QED BY <1>1, Inductive, PTL

\* An approved tool runs at most once more than its claim was abandoned.
THEOREM ToolOncePerClaimThm == Spec => []ToolOncePerClaim
<1>1. IndInv => ToolOncePerClaim
    BY DEF IndInv, ToolInv, ToolOncePerClaim
<1> QED BY <1>1, Inductive, PTL

\* Only a decide writes a decision, and only over a pending approval; only
\* Resume runs a gated tool, and only for an approval not marked resumed.
LEMMA StepEffects ==
    ASSUME IndInv, Next
    PROVE  DecidedKept /\ \A a \in Approvals : resumed[a] => toolRuns'[a] = toolRuns[a]
<1> USE DEF DecidedKept, apVars
<1>1. CASE RunnerStep
    BY <1>1 DEF RunnerStep, CreateRun, ExecuteStart, BeginCreate, MarkStarted
<1>2. ASSUME NEW t \in Threads, AgentStep(t)
      PROVE  DecidedKept /\ \A a \in Approvals : resumed[a] => toolRuns'[a] = toolRuns[a]
    BY <1>2, AgentStepEffect DEF AgentEffect
<1>3. ASSUME NEW w \in Workers, Resume(w)
      PROVE  DecidedKept /\ \A a \in Approvals : resumed[a] => toolRuns'[a] = toolRuns[a]
    <2>1. ap[w] \in Approvals /\ ~resumed[ap[w]]
        BY <1>3 DEF Resume, IndInv, ClaimInv, ClaimedPCs, PCs
    <2>2. \/ toolRuns' = toolRuns
          \/ toolRuns' = [toolRuns EXCEPT ![ap[w]] = toolRuns[ap[w]] + 1]
        BY <1>3 DEF Resume, RunPendingTool
    <2>3. \A a \in Approvals : a # ap[w] => toolRuns'[a] = toolRuns[a]
        BY <2>1, <2>2 DEF IndInv, TypeOK
    <2> QED BY <1>3, <2>1, <2>3 DEF Resume
<1>4. ASSUME NEW w \in Workers, ClaimResume(w) \/ MarkResuming(w) \/ MarkResumed(w)
      PROVE  DecidedKept /\ \A a \in Approvals : resumed[a] => toolRuns'[a] = toolRuns[a]
    BY <1>4 DEF ClaimResume, MarkResuming, MarkResumed
<1>5. ASSUME NEW w \in Workers, RereadExecution(w)
      PROVE  DecidedKept /\ \A a \in Approvals : resumed[a] => toolRuns'[a] = toolRuns[a]
    BY <1>5, Zenon DEF RereadExecution
<1>6. ASSUME NEW d \in Deciders, DecideCommit(d)
      PROVE  DecidedKept /\ \A a \in Approvals : resumed[a] => toolRuns'[a] = toolRuns[a]
    BY <1>6 DEF DecideCommit, UpdateDecision, Decided, Verdicts, IndInv, TypeOK
<1>7. ASSUME NEW d \in Deciders, NEW b \in Approvals, DecideRead(d, b)
      PROVE  DecidedKept /\ \A a \in Approvals : resumed[a] => toolRuns'[a] = toolRuns[a]
    BY <1>7 DEF DecideRead
<1>8. CASE Cancel \/ Tick \/ (\E b \in Approvals : RecoverUnresumed(b))
             \/ (\E t \in Threads : Crash(t))
    BY <1>8 DEF Cancel, Tick, RecoverUnresumed, Crash
<1> QED BY <1>1, <1>2, <1>3, <1>4, <1>5, <1>6, <1>7, <1>8 DEF Next, WorkerStep

\* Of two racing decides exactly one wins, for any number of humans.
THEOREM DecisionIsFinalThm == Spec => DecisionIsFinal
<1>1. IndInv /\ [Next]_vars => [\A a \in Approvals : Decided(a) => apStatus'[a] = apStatus[a]]_vars
    BY StepEffects DEF DecidedKept
<1> QED BY <1>1, Inductive, PTL DEF Spec, DecisionIsFinal

\* The tool of an approval marked resumed never runs again.
THEOREM ResumedIsFinalThm == Spec => ResumedIsFinal
<1>1. IndInv /\ [Next]_vars => [\A a \in Approvals : resumed[a] => toolRuns'[a] = toolRuns[a]]_vars
    BY StepEffects
<1> QED BY <1>1, Inductive, PTL DEF Spec, ResumedIsFinal

(***************************************************************************)
(* The resume of every approval is a leased job.                           *)
(***************************************************************************)
SameHolders(a) == \A v \in Workers : Resuming(v, a)' <=> Resuming(v, a)

\* A step that changes neither holders nor marks is at most the decision that
\* creates the job.
LEMMA KeepsJob ==
    ASSUME IndInv, NEW a \in Approvals, SameHolders(a), resumed'[a] = resumed[a],
           Decided(a) => apStatus'[a] = apStatus[a]
    PROVE  [Job(a)!Next]_(Job(a)!vars)
<1>1. Resumers(a)' = Resumers(a)
    BY DEF SameHolders, Resumers
<1>2. CASE Decided(a) \/ resumed[a]
    BY <1>1, <1>2 DEF Job!vars, ResumeState, Decided
<1>3. CASE ~Decided(a) /\ ~resumed[a]
    <2>1. Resumers(a) = {}
        BY <1>3 DEF Resumers, Resuming, IndInv, ClaimInv
    <2> QED BY <1>1, <1>3, <2>1 DEF Job!vars, Job!Next, Job!Create, ResumeState, Decided
<1> QED BY <1>2, <1>3

\* The goroutine that wins the claim takes a free job.
LEMMA ClaimTakesJob ==
    ASSUME IndInv, NEW w \in Workers, pc[w] = "claim", Claimable(ap[w]), Goto(w, "mark"),
           UNCHANGED <<ap, apStatus, resumed>>, NEW a \in Approvals
    PROVE  [Job(a)!Next]_(Job(a)!vars)
<1>0. pc'[w] = "mark" /\ \A v \in Workers \ {w} : pc'[v] = pc[v]
    BY DEF IndInv, TypeOK, Threads
<1>1. CASE a # ap[w]
    <2>1. SameHolders(a)
        BY <1>0, <1>1 DEF SameHolders, Resuming
    <2> QED BY <2>1, KeepsJob
<1>2. CASE a = ap[w]
    <2>1. Resumers(a) = {}
        BY <1>2, ClaimableIsFree DEF Resumers
    <2>2. Resumers(a)' = {w}
        BY <1>0, <1>2, <2>1 DEF Resumers, Resuming, ClaimedPCs, PCs
    <2>3. ResumeState(a) = "open" /\ ResumeState(a)' = "open"
        BY <1>2 DEF ResumeState, Claimable, Decided
    <2> QED BY <2>1, <2>2, <2>3 DEF Job!Next, Job!Claim
<1> QED BY <1>1, <1>2

\* A holder that ends lets go of its job and of no other, done if it has
\* marked it.
LEMMA HolderReleasesJob ==
    ASSUME IndInv, NEW w \in Workers, pc[w] \in ClaimedPCs, Exit(w),
           SetResumedAt(w) \/ UNCHANGED resumed, UNCHANGED apStatus, NEW a \in Approvals
    PROVE  [Job(a)!Next]_(Job(a)!vars)
<1>0. pc'[w] = "idle" /\ Frame(w)
    BY DEF Exit, IndInv, TypeOK, Threads, Frame
<1>1. ap[w] \in Approvals /\ Resuming(w, ap[w]) /\ ~resumed[ap[w]] /\ Decided(ap[w])
    BY DEF IndInv, ClaimInv, ClaimedPCs, PCs, Resuming
<1>2. CASE a # ap[w]
    <2>1. SameHolders(a)
        BY <1>0, <1>2 DEF SameHolders, Resuming, Frame, ClaimedPCs
    <2>2. resumed'[a] = resumed[a]
        BY <1>2 DEF SetResumedAt, IndInv, TypeOK
    <2> QED BY <2>1, <2>2, KeepsJob
<1>3. CASE a = ap[w]
    <2>1. \A v \in Workers : Resuming(v, a) => v = w
        BY <1>1, <1>3 DEF IndInv, OneLiveResume
    <2>2. Resumers(a) = {w}
        BY <1>1, <1>3, <2>1 DEF Resumers
    <2>3. Resumers(a)' = {}
        BY <1>0, <2>1 DEF Resumers, Resuming, Frame, ClaimedPCs
    <2>4. ResumeState(a) = "open" /\ ResumeState(a)' \in {"open", "done"}
        BY <1>1, <1>3 DEF ResumeState, Decided
    <2> QED BY <2>2, <2>3, <2>4 DEF Job!Next, Job!Release, Job!vars
<1> QED BY <1>2, <1>3

\* A goroutine that ends without a claim leaves every job alone, and so does
\* one that starts.
LEMMA BystanderKeepsJob ==
    ASSUME IndInv, NEW w \in Workers, pc[w] \notin ClaimedPCs,
           Exit(w) \/ \E b \in Approvals : Spawn(w, b),
           UNCHANGED resumed, DecidedKept, NEW a \in Approvals
    PROVE  [Job(a)!Next]_(Job(a)!vars)
<1>0. pc'[w] \in {"idle", "claim"} /\ Frame(w)
    BY DEF Exit, Spawn, IndInv, TypeOK, Threads, Frame
<1>1. SameHolders(a)
    BY <1>0 DEF SameHolders, Resuming, Frame, ClaimedPCs
<1> QED BY <1>1, KeepsJob DEF DecidedKept

\* A holder that goes on keeps its job.
LEMMA HolderKeepsJob ==
    ASSUME IndInv, NEW w \in Workers, pc[w] \in ClaimedPCs, pc'[w] \in ClaimedPCs,
           \A v \in Workers \ {w} : pc'[v] = pc[v],
           UNCHANGED <<ap, resumed, apStatus>>, NEW a \in Approvals
    PROVE  [Job(a)!Next]_(Job(a)!vars)
<1>1. SameHolders(a)
    BY DEF SameHolders, Resuming
<1> QED BY <1>1, KeepsJob

\* Each step of a resume goroutine is a step of the jobs.
LEMMA WorkerSimulation ==
    ASSUME IndInv, NEW w \in Workers, WorkerStep(w), NEW a \in Approvals
    PROVE  [Job(a)!Next]_(Job(a)!vars)
<1>0. \A l : Goto(w, l) => pc'[w] = l /\ \A v \in Workers \ {w} : pc'[v] = pc[v]
    BY DEF IndInv, TypeOK, Threads
<1> USE DEF apVars
<1>1. CASE ClaimResume(w)
    <2>1. CASE Claimable(ap[w]) /\ Goto(w, "mark") /\ UNCHANGED ap
        BY <1>1, <2>1, ClaimTakesJob DEF ClaimResume
    <2>2. CASE Exit(w)
        <3>1. pc[w] \notin ClaimedPCs /\ DecidedKept
            BY <1>1 DEF ClaimResume, ClaimedPCs, DecidedKept
        <3> QED BY <1>1, <2>2, <3>1, BystanderKeepsJob DEF ClaimResume
    <2> QED BY <1>1, <2>1, <2>2 DEF ClaimResume
<1>2. CASE MarkResuming(w)
    <2>1. CASE \E to \in {"reread", "markresumed"} : Goto(w, to) /\ UNCHANGED ap
        BY <1>0, <1>2, <2>1, HolderKeepsJob DEF MarkResuming, ClaimedPCs, PCs
    <2>2. CASE Exit(w)
        BY <1>2, <2>2, HolderReleasesJob DEF MarkResuming, ClaimedPCs, PCs
    <2> QED BY <1>2, <2>1, <2>2 DEF MarkResuming
<1>3. CASE RereadExecution(w)
    <2>1. \E to \in {"syncrun", "resume"} : Goto(w, to)
        BY <1>3, Zenon DEF RereadExecution
    <2> QED BY <1>0, <1>3, <2>1, HolderKeepsJob DEF RereadExecution, ClaimedPCs, PCs
<1>4. CASE Resume(w)
    <2>1. \E to \in {"loop", "pause", "persist"} : Goto(w, to)
        BY <1>4 DEF Resume, Finish
    <2> QED BY <1>0, <1>4, <2>1, HolderKeepsJob DEF Resume, ClaimedPCs, PCs
<1>5. CASE MarkResumed(w)
    BY <1>5, HolderReleasesJob DEF MarkResumed, ClaimedPCs, PCs
<1> QED BY <1>1, <1>2, <1>3, <1>4, <1>5 DEF WorkerStep

\* Each step of the flow is a step of every job, or none of its business.
LEMMA StepSimulation ==
    ASSUME IndInv, [Next]_vars, NEW a \in Approvals
    PROVE  [Job(a)!Next]_(Job(a)!vars)
<1> USE DEF apVars, threadVars
<1>0. ASSUME \A v \in Workers : pc'[v] = pc[v] /\ ap'[v] = ap[v], UNCHANGED resumed, DecidedKept
      PROVE  [Job(a)!Next]_(Job(a)!vars)
    <2>1. SameHolders(a)
        BY <1>0 DEF SameHolders, Resuming
    <2> QED BY <1>0, <2>1, KeepsJob DEF DecidedKept
<1>1. CASE RunnerStep
    <2>1. UNCHANGED resumed /\ DecidedKept /\ \A w \in Workers : pc'[w] = pc[w] /\ ap'[w] = ap[w]
        BY <1>1, RunnerAssumption
           DEF RunnerStep, CreateRun, ExecuteStart, BeginCreate, MarkStarted, Exit,
               DecidedKept, IndInv, TypeOK, Threads
    <2> QED BY <1>0, <2>1
<1>2. ASSUME NEW t \in Threads, AgentStep(t) PROVE [Job(a)!Next]_(Job(a)!vars)
    <2>1. AgentEffect(t)
        BY <1>2, AgentStepEffect
    <2>2. SameHolders(a)
        BY <2>1 DEF AgentEffect, Frame, Resuming, SameHolders
    <2> QED BY <2>1, <2>2, KeepsJob DEF AgentEffect, DecidedKept
<1>3. ASSUME NEW t \in Threads, Crash(t) PROVE [Job(a)!Next]_(Job(a)!vars)
    <2>1. DecidedKept /\ UNCHANGED <<resumed, apStatus>> /\ Exit(t)
        BY <1>3 DEF Crash, DecidedKept
    <2>2. CASE t \in Workers /\ pc[t] \in ClaimedPCs
        BY <2>1, <2>2, HolderReleasesJob
    <2>3. CASE t \in Workers /\ pc[t] \notin ClaimedPCs
        BY <2>1, <2>3, BystanderKeepsJob
    <2>4. CASE t = Runner
        <3>1. \A w \in Workers : pc'[w] = pc[w] /\ ap'[w] = ap[w]
            BY <2>1, <2>4, RunnerAssumption DEF Exit, IndInv, TypeOK, Threads
        <3> QED BY <1>0, <2>1, <3>1
    <2> QED BY <2>2, <2>3, <2>4 DEF Threads
<1>4. ASSUME NEW d \in Deciders, DecideCommit(d) PROVE [Job(a)!Next]_(Job(a)!vars)
    <2>0. dpc[d] \in Approvals
        BY <1>4 DEF DecideCommit, IndInv, TypeOK
    <2>1. DecidedKept /\ UNCHANGED resumed
        BY <1>4, <2>0
           DEF DecideCommit, UpdateDecision, DecidedKept, Decided, Verdicts, IndInv, TypeOK
    <2>2. ASSUME NEW w \in Workers, Spawn(w, dpc[d]) PROVE [Job(a)!Next]_(Job(a)!vars)
        BY <2>0, <2>1, <2>2, BystanderKeepsJob DEF Spawn, ClaimedPCs
    <2>3. CASE UNCHANGED threadVars
        BY <1>0, <2>1, <2>3
    <2> QED BY <1>4, <2>2, <2>3 DEF DecideCommit
<1>5. ASSUME NEW b \in Approvals, RecoverUnresumed(b) PROVE [Job(a)!Next]_(Job(a)!vars)
    BY <1>5, BystanderKeepsJob DEF RecoverUnresumed, Spawn, ClaimedPCs, DecidedKept
<1>6. CASE Cancel \/ Tick \/ UNCHANGED vars
             \/ \E d \in Deciders, b \in Approvals : DecideRead(d, b)
    BY <1>0, <1>6 DEF Cancel, Tick, vars, DecideRead, DecidedKept
<1> QED BY <1>1, <1>2, <1>3, <1>4, <1>5, <1>6, WorkerSimulation DEF Next

\* Claims, deadlines and recovery implement one leased job per approval, for
\* any number of goroutines, crashes and database errors.
THEOREM ResumesAreLeasedJobsThm == Spec => ResumesAreLeasedJobs
<1>1. Init => \A a \in Approvals : Job(a)!Init
    BY DEF Init, Job!Init, ResumeState, Decided, Verdicts, Resumers, Resuming, ClaimedPCs, Threads
<1>2. IndInv /\ [Next]_vars => [\A a \in Approvals : [Job(a)!Next]_(Job(a)!vars)]_vars
    BY StepSimulation
<1> QED BY <1>1, <1>2, Inductive, PTL DEF Spec, ResumesAreLeasedJobs

(***************************************************************************)
(* A cancelled pause. The first run writes the execution without a look at *)
(* it; but it comes first: no approval exists and nobody else is at work   *)
(* before the execution has a row.                                         *)
(***************************************************************************)
Unstarted ==
    /\ \A w \in Workers : pc[w] = "idle"
    /\ \A a \in Approvals : apStatus[a] = "none"
    /\ pc[Runner] \in {"idle", "execute", "begin"}

RowInv ==
    /\ runStatus = "none" => pc[Runner] = "idle" /\ execStatus = "none"
    /\ pc[Runner] \in {"execute", "begin"} => execStatus = "none"
    /\ execStatus = "none" => Unstarted
    /\ \A t \in Threads : pc[t] \in Syncing => snap[t] # "none"
    /\ \A t \in Threads : pc[t] = "persist" => out[t] # "none"

\* What the steps of goroutine t on an existing row do to the locals.
LocalEffect(t) ==
    /\ \A u \in Threads \ {t} : pc'[u] = pc[u] /\ snap'[u] = snap[u] /\ out'[u] = out[u]
    /\ pc'[t] \notin {"execute", "begin"}
    /\ pc'[t] \in Syncing => snap'[t] # "none"
    /\ pc'[t] = "persist" => out'[t] # "none"

\* The first run creates the row of the execution.
LEMMA RunnerRow == ASSUME IndInv, RowInv, RunnerStep PROVE RowInv'
<1> USE RunnerAssumption DEF IndInv, TypeOK, RowInv, Threads, Unstarted, Syncing, apVars
<1>1. CASE CreateRun
    BY <1>1 DEF CreateRun
<1>2. CASE ExecuteStart
    BY <1>2 DEF ExecuteStart
<1>3. CASE BeginCreate
    BY <1>3 DEF BeginCreate, Exit
<1>4. CASE MarkStarted
    BY <1>4 DEF MarkStarted
<1> QED BY <1>1, <1>2, <1>3, <1>4 DEF RunnerStep

\* Whoever is past the begin of a run works for an execution that has a row,
\* and keeps RowInv if it keeps the row and its locals are in order.
LEMMA WorkerRowKept ==
    ASSUME RowInv, NEW t \in Threads, pc[t] \notin {"idle", "execute", "begin"}
    PROVE  /\ execStatus # "none" /\ runStatus # "none"
           /\ LocalEffect(t) /\ execStatus' # "none" /\ runStatus' # "none" => RowInv'
<1>1. /\ execStatus # "none" /\ runStatus # "none"
      /\ pc[Runner] \notin {"execute", "begin"}
    BY DEF RowInv, Unstarted, Threads
<1>2. ASSUME LocalEffect(t), execStatus' # "none", runStatus' # "none" PROVE RowInv'
    <2>1. pc'[Runner] \notin {"execute", "begin"}
        BY <1>1, <1>2 DEF LocalEffect, Threads
    <2> QED BY <1>2, <2>1 DEF LocalEffect, RowInv
<1> QED BY <1>1, <1>2

\* The agent loop and the syncs keep the row.
LEMMA AgentRow == ASSUME IndInv, RowInv, NEW t \in Threads, AgentStep(t) PROVE RowInv'
<1>0. LocalsOK
    BY DEF IndInv, TypeOK, LocalsOK
<1>1. pc[t] \in {"loop", "pause", "persist", "readback", "syncrun", "board", "done"}
    BY DEF AgentStep, LoopStep, PauseForApproval, PersistResult, ReadBack, SyncRun, SyncBoard,
        SyncBoardDone
<1>2. /\ execStatus # "none" /\ runStatus # "none"
      /\ LocalEffect(t) /\ execStatus' # "none" /\ runStatus' # "none" => RowInv'
    BY <1>1, WorkerRowKept
<1>3. /\ pc[t] \in Syncing => snap[t] # "none"
      /\ pc[t] = "persist" => out[t] # "none"
    BY DEF RowInv
<1> USE DEF Syncing, LocalsOK
<1>a. ASSUME AfterSync(t) PROVE LocalEffect(t)
    BY <1>0, <1>a DEF AfterSync, Exit, LocalEffect
<1>b. ASSUME NEW r \in {"completed", "failed", "awaiting_approval"}, Finish(t, r), UNCHANGED snap
      PROVE  LocalEffect(t)
    BY <1>0, <1>b DEF Finish, LocalEffect
<1>c. ASSUME NEW l, Goto(t, l), l \notin {"execute", "begin", "persist"},
             l \in Syncing => snap[t] # "none", UNCHANGED <<snap, out>>
      PROVE  LocalEffect(t)
    BY <1>0, <1>c DEF LocalEffect
<1>d. \A s, e : ApplyExecution(s, e) # "none"
    BY DEF ApplyExecution
<1>4. CASE LoopStep(t)
    <2>1. CASE \E r \in {"completed", "failed"} : Finish(t, r)
        BY <1>2, <1>4, <1>b, <2>1 DEF LoopStep, rowVars
    <2>2. CASE ToolCalls(t)
        BY <1>2, <1>4, <1>c, <2>2 DEF LoopStep, ToolCalls, rowVars
    <2> QED BY <1>4, <2>1, <2>2 DEF LoopStep
<1>5. CASE PauseForApproval(t)
    BY <1>2, <1>5, <1>b DEF PauseForApproval, rowVars
<1>6. CASE PersistResult(t)
    <2>1. execStatus' # "none" /\ runStatus' # "none"
        BY <1>2, <1>3, <1>6 DEF PersistResult, WriteOutcome
    <2> QED BY <1>2, <1>6, <1>c, <2>1 DEF PersistResult
<1>7. CASE ReadBack(t)
    <2>1. /\ Goto(t, "syncrun") /\ UNCHANGED <<execStatus, runStatus, out>>
          /\ \E s, e : snap' = [snap EXCEPT ![t] = ApplyExecution(s, e)]
        BY <1>7, Zenon DEF ReadBack, rowVars
    <2>2. snap'[t] # "none" /\ \A u \in Threads \ {t} : snap'[u] = snap[u]
        BY <1>0, <1>d, <2>1
    <2> QED BY <1>0, <1>2, <2>1, <2>2 DEF LocalEffect
<1>8. CASE SyncRun(t)
    <2>1. execStatus' # "none" /\ runStatus' # "none"
        BY <1>2, <1>3, <1>8 DEF SyncRun
    <2> QED BY <1>2, <1>3, <1>8, <1>a, <1>c, <2>1 DEF SyncRun
<1>9. CASE SyncBoard(t) \/ SyncBoardDone(t)
    BY <1>2, <1>3, <1>9, <1>a, <1>c DEF SyncBoard, SyncBoardDone
<1> QED BY <1>4, <1>5, <1>6, <1>7, <1>8, <1>9 DEF AgentStep

\* A resume goroutine keeps the row.
LEMMA WorkerRow == ASSUME IndInv, RowInv, NEW w \in Workers, WorkerStep(w) PROVE RowInv'
<1>0. LocalsOK /\ w \in Threads
    BY DEF IndInv, TypeOK, LocalsOK, Threads
<1>1. pc[w] \in {"claim", "mark", "reread", "resume", "markresumed"}
    BY DEF WorkerStep, ClaimResume, MarkResuming, RereadExecution, Resume, MarkResumed
<1>2. /\ execStatus # "none" /\ runStatus # "none"
      /\ LocalEffect(w) /\ execStatus' # "none" /\ runStatus' # "none" => RowInv'
    BY <1>0, <1>1, WorkerRowKept
<1> USE DEF Syncing, LocalsOK
<1>a. ASSUME Exit(w) PROVE LocalEffect(w)
    BY <1>0, <1>a DEF Exit, LocalEffect
<1>c. ASSUME NEW l \in {"mark", "reread", "markresumed", "resume", "loop", "pause"}, Goto(w, l),
             UNCHANGED <<snap, out>>
      PROVE  LocalEffect(w)
    BY <1>0, <1>c DEF LocalEffect
<1>3. CASE ClaimResume(w)
    BY <1>2, <1>3, <1>a, <1>c DEF ClaimResume, rowVars
<1>4. CASE MarkResuming(w)
    <2>1. execStatus' # "none" /\ runStatus' # "none"
        BY <1>2, <1>4 DEF MarkResuming
    <2> QED BY <1>2, <1>4, <1>a, <1>c, <2>1 DEF MarkResuming
<1>5. CASE RereadExecution(w)
    <2>1. CASE Goto(w, "resume") /\ UNCHANGED snap
        BY <1>2, <1>5, <1>c, <2>1 DEF RereadExecution, rowVars
    <2>2. CASE /\ snap' = [snap EXCEPT ![w] = ApplyExecution(execStatus, execErr)]
               /\ Goto(w, "syncrun")
        BY <1>0, <1>2, <1>5, <2>2 DEF RereadExecution, rowVars, LocalEffect, ApplyExecution
    <2> QED BY <1>5, <2>1, <2>2 DEF RereadExecution
<1>6. CASE Resume(w)
    <2>1. CASE Finish(w, "failed")
        BY <1>0, <1>2, <1>6, <2>1 DEF Resume, Finish, LocalEffect, rowVars
    <2>2. CASE \E next \in {"loop", "pause"} : Goto(w, next) /\ UNCHANGED out
        BY <1>2, <1>6, <1>c, <2>2 DEF Resume, rowVars
    <2> QED BY <1>6, <2>1, <2>2 DEF Resume
<1>7. CASE MarkResumed(w)
    BY <1>2, <1>7, <1>a DEF MarkResumed, rowVars
<1> QED BY <1>3, <1>4, <1>5, <1>6, <1>7 DEF WorkerStep

\* So does everybody else: nothing is decided or resumed before the row is
\* there.
LEMMA NextRow == ASSUME IndInv, RowInv, [Next]_vars PROVE RowInv'
<1> USE DEF rowVars, threadVars
<1>0. LocalsOK /\ (execStatus = "none" => Unstarted)
    BY DEF IndInv, TypeOK, LocalsOK, RowInv
<1>1. ASSUME UNCHANGED <<rowVars, pc, snap, out>>, execStatus = "none" => UNCHANGED apStatus
      PROVE  RowInv'
    BY <1>1 DEF RowInv, Unstarted
<1>2. ASSUME NEW t \in Threads, Crash(t) PROVE RowInv'
    BY <1>0, <1>2 DEF Crash, Exit, apVars, RowInv, Unstarted, LocalsOK, Threads, Syncing
<1>3. ASSUME NEW w \in Workers, NEW a \in Approvals, Spawn(w, a), UNCHANGED rowVars,
             execStatus # "none"
      PROVE  RowInv'
    BY <1>0, <1>3, RunnerAssumption DEF Spawn, RowInv, LocalsOK, Threads, Syncing
<1>4. ASSUME NEW d \in Deciders, DecideCommit(d) PROVE RowInv'
    <2>0. dpc[d] \in Approvals
        BY <1>4 DEF DecideCommit, IndInv, TypeOK
    <2>1. CASE apStatus[dpc[d]] = "pending"
        BY <1>0, <1>1, <1>3, <1>4, <2>0, <2>1 DEF DecideCommit, Unstarted
    <2>2. CASE apStatus[dpc[d]] # "pending"
        BY <1>1, <1>4, <2>2 DEF DecideCommit, UpdateDecision
    <2> QED BY <2>1, <2>2
<1>5. ASSUME NEW a \in Approvals, RecoverUnresumed(a) PROVE RowInv'
    BY <1>0, <1>3, <1>5 DEF RecoverUnresumed, Claimable, Decided, Verdicts, Unstarted
<1>6. CASE Cancel
    BY <1>6 DEF Cancel, RowInv, apVars
<1>7. CASE Tick \/ UNCHANGED vars \/ \E d \in Deciders, a \in Approvals : DecideRead(d, a)
    BY <1>1, <1>7 DEF Tick, vars, DecideRead, apVars
<1> QED BY <1>2, <1>4, <1>5, <1>6, <1>7, RunnerRow, AgentRow, WorkerRow DEF Next

\* RowInv is an invariant.
LEMMA RowInvariant == Spec => []RowInv
<1>1. Init => RowInv
    BY DEF Init, RowInv, Unstarted, Threads, Syncing
<1> QED BY <1>1, NextRow, Inductive, PTL DEF Spec

\* No step leaves a cancelled pause: whoever wins a claim finds the execution
\* no longer resumable and goes on to mark its approval.
LEMMA CancelledPauseKept ==
    ASSUME IndInv, RowInv, CancelledPause, [Next]_vars PROVE CancelledPause'
<1>0. LocalsOK /\ execStatus = "cancelled" /\ \A t \in Threads : ~Writing(t)
    BY DEF IndInv, TypeOK, LocalsOK, CancelledPause
<1> USE DEF rowVars, threadVars
<1>1. ASSUME UNCHANGED <<execStatus, pc, out>> PROVE CancelledPause'
    BY <1>0, <1>1 DEF CancelledPause, Writing
<1>2. ASSUME NEW t \in Threads, ~Writing(t)', UNCHANGED execStatus,
             \A u \in Threads \ {t} : pc'[u] = pc[u] /\ out'[u] = out[u]
      PROVE  CancelledPause'
    BY <1>0, <1>2 DEF CancelledPause, Writing
<1>a. ASSUME NEW t \in Threads, Exit(t), UNCHANGED execStatus PROVE CancelledPause'
    <2>1. ~Writing(t)' /\ \A u \in Threads \ {t} : pc'[u] = pc[u] /\ out'[u] = out[u]
        BY <1>0, <1>a DEF Exit, Writing, LocalsOK
    <2> QED BY <1>2, <1>a, <2>1
<1>b. ASSUME NEW t \in Threads, NEW l \in {"claim", "mark", "readback", "markresumed"}, Goto(t, l),
             UNCHANGED <<execStatus, out>>
      PROVE  CancelledPause'
    <2>1. ~Writing(t)' /\ \A u \in Threads \ {t} : pc'[u] = pc[u] /\ out'[u] = out[u]
        BY <1>0, <1>b DEF Writing, LocalsOK
    <2> QED BY <1>2, <1>b, <2>1
<1>c. ASSUME NEW t \in Threads, pc[t] \in Syncing, UNCHANGED execStatus,
             \/ AfterSync(t)
             \/ (\E l \in {"board", "done"} : Goto(t, l)) /\ UNCHANGED out
      PROVE  CancelledPause'
    <2>1. t = Runner \/ out[t] # "none"
        BY <1>0, <1>c DEF Writing, Syncing
    <2>2. CASE t = Runner /\ Exit(t)
        BY <1>a, <1>c, <2>2
    <2>3. CASE Goto(t, "markresumed") /\ UNCHANGED out
        BY <1>b, <1>c, <2>3
    <2>4. CASE (\E l \in {"board", "done"} : Goto(t, l)) /\ UNCHANGED out
        <3>1. ~Writing(t)' /\ \A u \in Threads \ {t} : pc'[u] = pc[u] /\ out'[u] = out[u]
            BY <1>0, <2>1, <2>4 DEF Writing, LocalsOK
        <3> QED BY <1>2, <1>c, <3>1
    <2> QED BY <1>c, <2>1, <2>2, <2>3, <2>4 DEF AfterSync
<1>3. CASE RunnerStep
    <2>1. pc[Runner] \notin {"execute", "begin", "start"} /\ runStatus # "none"
        BY <1>0 DEF RowInv, Writing, Threads
    <2> QED BY <1>3, <2>1 DEF RunnerStep, CreateRun, ExecuteStart, BeginCreate, MarkStarted
<1>4. ASSUME NEW t \in Threads, AgentStep(t) PROVE CancelledPause'
    <2>0. pc[t] \notin {"loop", "pause", "persist"}
        BY <1>0 DEF Writing
    <2>1. CASE ReadBack(t)
        <3>1. Goto(t, "syncrun") /\ UNCHANGED <<execStatus, out>> /\ pc[t] = "readback"
            BY <2>1, Zenon DEF ReadBack
        <3>2. t \in Workers => out[t] # "none"
            BY <3>1 DEF IndInv, ClaimInv
        <3>3. ~Writing(t)' /\ \A u \in Threads \ {t} : pc'[u] = pc[u] /\ out'[u] = out[u]
            BY <1>0, <3>1, <3>2 DEF Writing, LocalsOK, Threads
        <3> QED BY <1>2, <3>1, <3>3
    <2>2. CASE SyncRun(t) \/ SyncBoard(t) \/ SyncBoardDone(t)
        BY <1>c, <2>2 DEF SyncRun, SyncBoard, SyncBoardDone, Syncing
    <2> QED BY <1>4, <2>0, <2>1, <2>2 DEF AgentStep, LoopStep, PauseForApproval, PersistResult
<1>5. ASSUME NEW w \in Workers, WorkerStep(w) PROVE CancelledPause'
    <2>0. pc[w] \notin {"reread", "resume"} /\ w \in Threads
        BY <1>0 DEF Writing, Threads
    <2>1. CASE ClaimResume(w)
        BY <1>a, <1>b, <2>0, <2>1 DEF ClaimResume
    <2>2. CASE MarkResuming(w)
        BY <1>0, <1>a, <1>b, <2>0, <2>2 DEF MarkResuming, Resumable
    <2>3. CASE MarkResumed(w)
        BY <1>a, <2>0, <2>3 DEF MarkResumed
    <2> QED BY <1>5, <2>0, <2>1, <2>2, <2>3 DEF WorkerStep, RereadExecution, Resume
<1>6. ASSUME NEW t \in Threads, Crash(t) PROVE CancelledPause'
    BY <1>a, <1>6 DEF Crash
<1>7. ASSUME NEW w \in Workers, NEW a \in Approvals, Spawn(w, a), UNCHANGED execStatus
      PROVE  CancelledPause'
    <2>1. /\ ~Writing(w)' /\ w \in Threads
          /\ \A u \in Threads \ {w} : pc'[u] = pc[u] /\ out'[u] = out[u]
        BY <1>0, <1>7 DEF Spawn, Writing, LocalsOK, Threads
    <2> QED BY <1>2, <1>7, <2>1
<1>8. ASSUME NEW d \in Deciders, DecideCommit(d) PROVE CancelledPause'
    <2>0. dpc[d] \in Approvals
        BY <1>8 DEF DecideCommit, IndInv, TypeOK
    <2> QED BY <1>1, <1>7, <1>8, <2>0 DEF DecideCommit
<1>9. CASE \/ \E a \in Approvals : RecoverUnresumed(a)
           \/ \E d \in Deciders, a \in Approvals : DecideRead(d, a)
           \/ Cancel \/ Tick \/ UNCHANGED vars
    BY <1>0, <1>1, <1>7, <1>9 DEF RecoverUnresumed, DecideRead, Cancel, Tick, vars
<1> QED BY <1>3, <1>4, <1>5, <1>6, <1>8, <1>9 DEF Next

\* An execution cancelled while nobody may write its outcome is never brought
\* back to life, by however many decisions, claims and recoveries.
THEOREM CancelledPauseIsFinalThm == Spec => CancelledPauseIsFinal
<1>1. IndInv /\ RowInv /\ [Next]_vars => [CancelledPause => CancelledPause']_vars
    BY CancelledPauseKept
<1> QED BY <1>1, Inductive, RowInvariant, PTL DEF Spec, CancelledPauseIsFinal

\* Seen from any later moment: once cancelled in a pause, always cancelled.
THEOREM CancelledForever == Spec => [](CancelledPause => [](execStatus = "cancelled"))
<1>1. IndInv /\ RowInv /\ CancelledPause /\ [Next]_vars => CancelledPause'
    BY CancelledPauseKept
<1>2. CancelledPause => execStatus = "cancelled"
    BY DEF CancelledPause
<1> QED BY <1>1, <1>2, Inductive, RowInvariant, PTL DEF Spec
=============================================================================
