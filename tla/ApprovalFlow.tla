---------------------------- MODULE ApprovalFlow ----------------------------
(***************************************************************************)
(* The life of one agent execution launched as a task run: the goroutine   *)
(* that runs it (taskRunService.execute, executionService.begin/finish),   *)
(* the approvals it pauses on, the humans who decide them, the background  *)
(* goroutines that resume it (approvalService.resumeDecided), the recovery *)
(* loop that picks up lost resumes, and a user who cancels the execution.  *)
(*                                                                         *)
(* Every variable of the first group is a column of a PostgreSQL row; one  *)
(* action is one statement on such a row together with the local code up   *)
(* to the next statement, so threads interleave exactly at the database.   *)
(* Elapsed time is relative: the age of a resume claim and the time left   *)
(* of a context deadline, both moved by Tick.                              *)
(***************************************************************************)
EXTENDS Integers, FiniteSets

CONSTANTS
    Runner,          \* the goroutine of the first run
    Workers,         \* goroutines available to resumeInBackground
    Deciders,        \* humans calling POST /approvals/{id}/decide
    MaxApprovals,    \* bound: approval rows of this execution
    MaxIterations,   \* executor.MaxIterations
    ResumeTimeout,   \* defaultResumeTimeout, in ticks
    PersistTimeout,  \* persistTimeout, in ticks
    StaleAfter,      \* defaultResumeStaleAfter, in ticks
    MaxFailures      \* bound: crashes and database errors in one behaviour

ASSUME RunnerAssumption == Runner \notin Workers
ASSUME BoundsAssumption ==
    /\ MaxApprovals \in Nat /\ MaxIterations \in Nat /\ MaxFailures \in Nat
    /\ ResumeTimeout \in Nat /\ PersistTimeout \in Nat /\ StaleAfter \in Nat
\* defaultResumeStaleAfter is twice defaultResumeTimeout, and persistTimeout
\* is far below defaultResumeTimeout.
ASSUME StaleAssumption == ResumeTimeout + PersistTimeout <= StaleAfter

VARIABLES
    execStatus,   \* agent_executions.status ("none": no row yet)
    execErr,      \* agent_executions.error_message IS NOT NULL
    runStatus,    \* task_runs.status ("none": no row yet)
    runLinked,    \* task_runs.execution_id is set
    board,        \* tasks.status, the board column of the task
    apStatus,     \* approvals.status ("none": no row yet)
    apIter,       \* approvals.resume_state: the iteration it paused at
    claimAge,     \* ticks since resume_claimed_at, NoClaim when NULL
    resumed,      \* approvals.resumed_at IS NOT NULL
    pc,           \* where each goroutine is
    ap,           \* the approval a resume goroutine works for, 0: none
    iter,         \* reactLoopState.iteration
    out,          \* Result of Run/Resume, "none" before it returned
    snap,         \* the run status that mirrors the execution as last read
    left,         \* ticks left of the goroutine's context deadline
    dpc,          \* the approval a decider has read as pending, 0: none
    failures,     \* crashes and database errors so far
    toolRuns,     \* history: executions of the tool approval a gates
    abandoned     \* history: claims on a left behind by a worker that died
                  \* or could not write

rowVars == <<execStatus, execErr, runStatus, runLinked, board>>
apVars == <<apStatus, apIter, claimAge, resumed>>
threadVars == <<pc, ap, iter, out, snap, left>>
vars == <<rowVars, apVars, threadVars, dpc, failures, toolRuns, abandoned>>

Threads == Workers \cup {Runner}
Approvals == 1..MaxApprovals
NoClaim == -1

ExecStates == {"none", "pending", "running", "awaiting_approval",
               "completed", "failed", "cancelled"}
ActiveRuns == {"queued", "running", "awaiting_approval"}
RunStates == {"none", "queued", "running", "awaiting_approval", "completed", "failed"}
BoardStates == {"todo", "in_progress", "done"}
Verdicts == {"approved", "rejected"}
PCs == {"idle", "execute", "begin", "start", "claim", "mark", "reread", "resume",
        "loop", "pause", "persist", "readback", "syncrun", "board", "done",
        "markresumed"}
\* A goroutine in one of these has won ClaimResume and not yet given it up.
ClaimedPCs == PCs \ {"idle", "execute", "begin", "start", "claim"}
Outcomes == {"none", "completed", "failed", "awaiting_approval"}

(***************************************************************************)
(* Helpers.                                                                *)
(***************************************************************************)
\* A crash or a database error, at most MaxFailures of them.
Failure == failures < MaxFailures /\ failures' = failures + 1

Decided(a) == apStatus[a] \in Verdicts

\* Mutants of Claimable: a claim taken over once the resume's own budget has
\* passed, a resumed approval claimed again, and no takeover at all.
ClaimableTooEarly(a) ==
    Decided(a) /\ ~resumed[a] /\ (claimAge[a] = NoClaim \/ claimAge[a] >= ResumeTimeout)
ClaimableResumed(a) == Decided(a) /\ (claimAge[a] = NoClaim \/ claimAge[a] > StaleAfter)
ClaimableUnclaimed(a) == Decided(a) /\ ~resumed[a] /\ claimAge[a] = NoClaim

\* The WHERE clause shared by ClaimResume and ListUnresumed.
Claimable(a) ==
    /\ Decided(a)
    /\ ~resumed[a]
    /\ claimAge[a] = NoClaim \/ claimAge[a] > StaleAfter

\* applyExecution: the run status an execution is mirrored to.
ApplyExecution(status, err) ==
    IF status = "awaiting_approval" THEN "awaiting_approval"
    ELSE IF status \in {"running", "pending"} THEN "running"
    ELSE IF status \in {"failed", "cancelled"} \/ err THEN "failed"
    ELSE "completed"

\* boardStatusForRun for the statuses that move the card.
BoardStatusForRun(r) == IF r = "completed" THEN "done" ELSE "in_progress"

Goto(t, label) == pc' = [pc EXCEPT ![t] = label]

\* Goroutine t returns: its locals are gone.
Exit(t) ==
    /\ Goto(t, "idle")
    /\ ap' = [ap EXCEPT ![t] = 0]
    /\ iter' = [iter EXCEPT ![t] = 0]
    /\ out' = [out EXCEPT ![t] = "none"]
    /\ snap' = [snap EXCEPT ![t] = "none"]
    /\ left' = [left EXCEPT ![t] = 0]

\* What follows a sync of the run: the first run ends, a resume that has not
\* run yet continues the agent, one that has run marks its approval resumed.
AfterSync(t) ==
    \/ t = Runner /\ Exit(t)
    \/ /\ t # Runner
       /\ Goto(t, IF out[t] = "none" THEN "resume" ELSE "markresumed")
       /\ snap' = [snap EXCEPT ![t] = "none"]
       /\ UNCHANGED <<ap, iter, out, left>>

\* A resume goroutine starts: resumeInBackground opens its own deadline.
Spawn(w, a) ==
    /\ pc[w] = "idle"
    /\ Goto(w, "claim")
    /\ ap' = [ap EXCEPT ![w] = a]
    /\ out' = [out EXCEPT ![w] = "none"]
    /\ iter' = [iter EXCEPT ![w] = apIter[a]]
    /\ left' = [left EXCEPT ![w] = ResumeTimeout]
    /\ UNCHANGED snap

\* Run or Resume returned: its outcome is written on a fresh context.
Finish(t, result) ==
    /\ Goto(t, "persist")
    /\ iter' = [iter EXCEPT ![t] = 0]
    /\ out' = [out EXCEPT ![t] = result]
    /\ left' = [left EXCEPT ![t] = PersistTimeout]

Init ==
    /\ execStatus = "none" /\ execErr = FALSE
    /\ runStatus = "none" /\ runLinked = FALSE /\ board = "todo"
    /\ apStatus = [a \in Approvals |-> "none"]
    /\ apIter = [a \in Approvals |-> 0]
    /\ claimAge = [a \in Approvals |-> NoClaim]
    /\ resumed = [a \in Approvals |-> FALSE]
    /\ pc = [t \in Threads |-> "idle"]
    /\ ap = [t \in Threads |-> 0]
    /\ iter = [t \in Threads |-> 0]
    /\ out = [t \in Threads |-> "none"]
    /\ snap = [t \in Threads |-> "none"]
    /\ left = [t \in Threads |-> 0]
    /\ dpc = [d \in Deciders |-> 0]
    /\ failures = 0
    /\ toolRuns = [a \in Approvals |-> 0]
    /\ abandoned = [a \in Approvals |-> 0]

(***************************************************************************)
(* The first run.                                                          *)
(***************************************************************************)
\* taskRunService.CreateRun: a queued run, the card in progress, go execute.
\* A card that cannot be moved is only logged; a crash in between leaves the
\* run queued.
CreateRun ==
    /\ runStatus = "none"
    /\ runStatus' = "queued"
    /\ \/ board' = "in_progress" /\ Goto(Runner, "execute") /\ UNCHANGED failures
       \/ Failure /\ UNCHANGED board /\ \E next \in {"execute", "idle"} : Goto(Runner, next)
    /\ UNCHANGED <<execStatus, execErr, runLinked, apVars, ap, iter, out, snap, left,
                   dpc, toolRuns, abandoned>>

\* execute marks the run running; a failed update is only logged.
ExecuteStart ==
    /\ pc[Runner] = "execute"
    /\ Goto(Runner, "begin")
    /\ \/ runStatus' = "running" /\ UNCHANGED failures
       \/ Failure /\ UNCHANGED runStatus
    /\ UNCHANGED <<execStatus, execErr, runLinked, board, apVars, ap, iter, out, snap,
                   left, dpc, toolRuns, abandoned>>

\* begin creates the execution row, or fails (agent gone, policy, database)
\* and execute then writes a failed run, or fails to.
BeginCreate ==
    /\ pc[Runner] = "begin"
    /\ \/ /\ execStatus' = "pending" /\ Goto(Runner, "start") /\ UNCHANGED runStatus
          /\ UNCHANGED <<ap, iter, out, snap, left, failures>>
       \/ runStatus' = "failed" /\ Exit(Runner) /\ UNCHANGED <<execStatus, failures>>
       \/ Failure /\ Exit(Runner) /\ UNCHANGED <<execStatus, runStatus>>
    /\ UNCHANGED <<execErr, runLinked, board, apVars, dpc, toolRuns, abandoned>>

\* begin's MarkStarted; its error is only logged.
MarkStarted ==
    /\ pc[Runner] = "start"
    /\ Goto(Runner, "loop")
    /\ \/ execStatus' = "running" /\ UNCHANGED failures
       \/ Failure /\ UNCHANGED execStatus
    /\ UNCHANGED <<execErr, runStatus, runLinked, board, apVars, ap, iter, out, snap,
                   left, dpc, toolRuns, abandoned>>

(***************************************************************************)
(* The agent loop, shared by Run and Resume.                               *)
(***************************************************************************)
\* Mutant: the loop bound is off by one.
IterationsLeftOffByOne(t) == iter[t] <= MaxIterations

\* The loop condition: st.iteration + 1 <= MaxIterations.
IterationsLeft(t) == iter[t] < MaxIterations

\* The tool calls of one turn of the model: ungated and unknown tools are
\* dealt with at once and the loop goes on, the first gated one pauses it.
ToolCalls(t) ==
    /\ iter' = [iter EXCEPT ![t] = @ + 1]
    /\ \E next \in {"loop", "pause"} : Goto(t, next)
    /\ UNCHANGED <<out, left>>

\* One iteration of reactLoop or nativeLoop: the cap or the model fails, the
\* model answers, or it calls tools. Beyond MaxIterations the run fails.
LoopStep(t) ==
    /\ pc[t] = "loop"
    /\ \/ /\ ~IterationsLeft(t)
          /\ Finish(t, "failed")
       \/ /\ IterationsLeft(t)
          /\ \E result \in {"completed", "failed"} : Finish(t, result)
       \/ IterationsLeft(t) /\ ToolCalls(t)
    /\ UNCHANGED <<rowVars, apVars, ap, snap, dpc, failures, toolRuns, abandoned>>

\* pauseForApproval: CreatePending inserts the approval with the loop state.
\* A failed insert fails the run; so does running out of the MaxApprovals rows.
PauseForApproval(t) ==
    /\ pc[t] = "pause"
    /\ \/ \E a \in Approvals :
            /\ apStatus[a] = "none"
            /\ \A b \in Approvals : b < a => apStatus[b] # "none"
            /\ apStatus' = [apStatus EXCEPT ![a] = "pending"]
            /\ apIter' = [apIter EXCEPT ![a] = iter[t]]
            /\ Finish(t, "awaiting_approval")
            /\ UNCHANGED failures
       \/ /\ Failure
          /\ Finish(t, "failed")
          /\ UNCHANGED <<apStatus, apIter>>
       \/ /\ \A a \in Approvals : apStatus[a] # "none"
          /\ Finish(t, "failed")
          /\ UNCHANGED <<apStatus, apIter, failures>>
    /\ UNCHANGED <<rowVars, claimAge, resumed, ap, snap, dpc, toolRuns, abandoned>>

(***************************************************************************)
(* Persisting the outcome and mirroring it onto the task run.              *)
(***************************************************************************)
\* MarkCompleted, MarkFailed and MarkAwaitingApproval: none looks at the
\* status it replaces, and only MarkCompleted leaves the error message alone.
WriteOutcome(t) ==
    /\ execStatus' = out[t]
    /\ execErr' = (out[t] = "failed" \/ (out[t] = "completed" /\ execErr))

\* PersistResult: the outcome is written; on an error nothing is.
\* A resume first reads the execution (CompleteResumed) and gives up the sync
\* when that read fails.
PersistResult(t) ==
    /\ pc[t] = "persist"
    /\ \/ WriteOutcome(t) /\ Goto(t, "readback") /\ UNCHANGED failures
       \/ /\ Failure
          /\ \/ Goto(t, "readback")
             \/ t # Runner /\ Goto(t, "markresumed")
          /\ UNCHANGED <<execStatus, execErr>>
    /\ UNCHANGED <<runStatus, runLinked, board, apVars, ap, iter, out, snap, left, dpc,
                   toolRuns, abandoned>>

\* persistOutcome re-reads the row it returns (a pause is reported as a pause
\* whatever the row says); when the read fails it is rebuilt from the result
\* and the row a resume began with, which may have an old error.
ReadBack(t) ==
    /\ pc[t] = "readback"
    /\ Goto(t, "syncrun")
    /\ \/ /\ snap' = [snap EXCEPT ![t] = ApplyExecution(
                 IF out[t] = "awaiting_approval" THEN out[t] ELSE execStatus, execErr)]
          /\ UNCHANGED failures
       \/ /\ Failure
          /\ \E err \in {FALSE, t # Runner} : snap' = [snap EXCEPT ![t] = ApplyExecution(out[t], err)]
    /\ UNCHANGED <<rowVars, apVars, ap, iter, out, left, dpc, toolRuns, abandoned>>

\* finalize: the whole run row is overwritten. The first run also sets
\* execution_id; a resume finds the run by it, and finds none before that.
SyncRun(t) ==
    /\ pc[t] = "syncrun"
    /\ \/ /\ t = Runner \/ runLinked
          /\ \/ /\ runStatus' = snap[t]
                /\ runLinked' = TRUE
                /\ UNCHANGED failures
             \/ Failure /\ UNCHANGED <<runStatus, runLinked>>
          /\ \/ snap[t] = "failed" /\ AfterSync(t)
             \/ snap[t] # "failed" /\ Goto(t, "board") /\ UNCHANGED <<ap, iter, out, snap, left>>
       \/ /\ t # Runner
          /\ \/ ~runLinked /\ UNCHANGED failures
             \/ Failure
          /\ UNCHANGED <<runStatus, runLinked>>
          /\ AfterSync(t)
    /\ UNCHANGED <<execStatus, execErr, board, apVars, dpc, toolRuns, abandoned>>

\* syncBoardStatus: a card goes to in_progress at once, to done only when the
\* task has no active run, counted before the transition.
SyncBoard(t) ==
    /\ pc[t] = "board"
    /\ \/ /\ BoardStatusForRun(snap[t]) = "in_progress"
          /\ board' = "in_progress"
          /\ AfterSync(t) /\ UNCHANGED failures
       \/ /\ BoardStatusForRun(snap[t]) = "done"
          /\ \/ runStatus \in ActiveRuns /\ AfterSync(t)
             \/ /\ runStatus \notin ActiveRuns
                /\ Goto(t, "done") /\ UNCHANGED <<ap, iter, out, snap, left>>
          /\ UNCHANGED <<board, failures>>
       \/ Failure /\ AfterSync(t) /\ UNCHANGED board
    /\ UNCHANGED <<execStatus, execErr, runStatus, runLinked, apVars, dpc, toolRuns,
                   abandoned>>

SyncBoardDone(t) ==
    /\ pc[t] = "done"
    /\ AfterSync(t)
    /\ \/ board' = "done" /\ UNCHANGED failures
       \/ Failure /\ UNCHANGED board
    /\ UNCHANGED <<execStatus, execErr, runStatus, runLinked, apVars, dpc, toolRuns,
                   abandoned>>

(***************************************************************************)
(* Deciding and resuming.                                                  *)
(***************************************************************************)
\* Decide reads the approval and goes on only if it is pending.
DecideRead(d, a) ==
    /\ dpc[d] = 0
    /\ apStatus[a] = "pending"
    /\ dpc' = [dpc EXCEPT ![d] = a]
    /\ UNCHANGED <<rowVars, apVars, threadVars, failures, toolRuns, abandoned>>

\* Mutant: UpdateDecision without AND status = 'pending'.
UpdateDecisionAnyStatus(a, verdict) == apStatus' = [apStatus EXCEPT ![a] = verdict]

\* UpdateDecision matches a pending row only.
UpdateDecision(a, verdict) ==
    /\ apStatus[a] = "pending"
    /\ apStatus' = [apStatus EXCEPT ![a] = verdict]

\* Decide's update, then the reload and the background resume; a crash or a
\* failed reload loses the resume. The loser of a race gets
\* ErrApprovalAlreadyDecided.
DecideCommit(d) ==
    /\ dpc[d] # 0
    /\ dpc' = [dpc EXCEPT ![d] = 0]
    /\ \/ /\ \E verdict \in Verdicts : UpdateDecision(dpc[d], verdict)
          /\ \/ \E w \in Workers : Spawn(w, dpc[d]) /\ UNCHANGED failures
             \/ Failure /\ UNCHANGED threadVars
       \/ /\ apStatus[dpc[d]] # "pending"
          /\ UNCHANGED <<apStatus, threadVars, failures>>
    /\ UNCHANGED <<rowVars, apIter, claimAge, resumed, toolRuns, abandoned>>

\* ClaimResume: the conditional update; an error or a lost claim ends the
\* goroutine.
ClaimResume(w) ==
    /\ pc[w] = "claim"
    /\ \/ /\ Claimable(ap[w])
          /\ claimAge' = [claimAge EXCEPT ![ap[w]] = 0]
          /\ Goto(w, "mark") /\ UNCHANGED <<ap, iter, out, snap, left, failures>>
       \/ ~Claimable(ap[w]) /\ Exit(w) /\ UNCHANGED <<claimAge, failures>>
       \/ Failure /\ Exit(w) /\ UNCHANGED claimAge
    /\ UNCHANGED <<rowVars, apStatus, apIter, resumed, dpc, toolRuns, abandoned>>

\* A worker leaves its claim behind.
Abandon(w) ==
    abandoned' = IF ap[w] # 0 /\ pc[w] \in ClaimedPCs
                 THEN [abandoned EXCEPT ![ap[w]] = @ + 1] ELSE abandoned

\* Mutant: everything that did not complete may be resumed.
ResumableUnlessDone(status) == status \notin {"completed", "failed"}

\* The statuses MarkResuming matches.
Resumable(status) == status \in {"awaiting_approval", "running"}

\* MarkResuming matches awaiting_approval and running; no match means the
\* execution was cancelled or has finished, and the approval is done with.
MarkResuming(w) ==
    /\ pc[w] = "mark"
    /\ \/ /\ Resumable(execStatus)
          /\ execStatus' = "running"
          /\ Goto(w, "reread")
          /\ UNCHANGED <<ap, iter, out, snap, left, failures, abandoned>>
       \/ /\ ~Resumable(execStatus)
          /\ Goto(w, "markresumed")
          /\ UNCHANGED <<execStatus, ap, iter, out, snap, left, failures, abandoned>>
       \/ Failure /\ Exit(w) /\ Abandon(w) /\ UNCHANGED execStatus
    /\ UNCHANGED <<execErr, runStatus, runLinked, board, apVars, dpc, toolRuns>>

\* resumeDecided re-reads the execution to mirror it; an error skips the sync.
RereadExecution(w) ==
    /\ pc[w] = "reread"
    /\ \/ /\ snap' = [snap EXCEPT ![w] = ApplyExecution(execStatus, execErr)]
          /\ Goto(w, "syncrun") /\ UNCHANGED failures
       \/ Failure /\ Goto(w, "resume") /\ UNCHANGED snap
    /\ UNCHANGED <<rowVars, apVars, ap, iter, out, left, dpc, toolRuns, abandoned>>

\* Mutant: the decision is not looked at.
RunPendingToolAlways(w) == toolRuns' = [toolRuns EXCEPT ![ap[w]] = @ + 1]

\* The pending tool of the approval is executed if it was approved.
RunPendingTool(w) ==
    IF apStatus[ap[w]] = "approved"
    THEN toolRuns' = [toolRuns EXCEPT ![ap[w]] = @ + 1]
    ELSE UNCHANGED toolRuns

\* Executor.Resume: an approved tool is executed, a rejection is fed back;
\* then the loop continues, or the next gated call of the same native turn
\* pauses again. The state or the provider may also turn out unusable.
Resume(w) ==
    /\ pc[w] = "resume"
    /\ \/ /\ RunPendingTool(w)
          /\ \E next \in {"loop", "pause"} : Goto(w, next)
          /\ UNCHANGED <<iter, out, left>>
       \/ Finish(w, "failed") /\ UNCHANGED toolRuns
    /\ UNCHANGED <<rowVars, apVars, ap, snap, dpc, failures, abandoned>>

\* Mutant: a resume that paused again does not mark its approval.
SetResumedAtUnlessPaused(w) ==
    resumed' = [resumed EXCEPT ![ap[w]] = @ \/ out[w] # "awaiting_approval"]

\* UPDATE approvals SET resumed_at = NOW().
SetResumedAt(w) == resumed' = [resumed EXCEPT ![ap[w]] = TRUE]

\* MarkResumed; on an error the claim stays and recovery may run it again.
MarkResumed(w) ==
    /\ pc[w] = "markresumed"
    /\ Exit(w)
    /\ \/ SetResumedAt(w) /\ UNCHANGED <<failures, abandoned>>
       \/ Failure /\ Abandon(w) /\ UNCHANGED resumed
    /\ UNCHANGED <<rowVars, apStatus, apIter, claimAge, dpc, toolRuns>>

\* recoverUnresumed: ListUnresumed, then a background resume for each row.
RecoverUnresumed(a) ==
    /\ Claimable(a)
    /\ \E w \in Workers : Spawn(w, a)
    /\ UNCHANGED <<rowVars, apVars, dpc, failures, toolRuns, abandoned>>

(***************************************************************************)
(* The environment.                                                        *)
(***************************************************************************)
\* executionService.Cancel: MarkCancelled matches unfinished executions only,
\* and writes an error message; the task run is not told.
Cancel ==
    /\ execStatus \in {"pending", "running", "awaiting_approval"}
    /\ execStatus' = "cancelled" /\ execErr' = TRUE
    /\ UNCHANGED <<runStatus, runLinked, board, apVars, threadVars, dpc, failures,
                   toolRuns, abandoned>>

\* The process of goroutine t dies, or t panics: nothing more is written.
Crash(t) ==
    /\ pc[t] # "idle"
    /\ Failure
    /\ Exit(t)
    /\ Abandon(t)
    /\ UNCHANGED <<rowVars, apVars, dpc, toolRuns>>

\* Time passes. A context deadline ends a resume (or the writing of its
\* outcome) in time, so time waits for the goroutines whose deadline is due.
Tick ==
    /\ \A w \in Workers : pc[w] # "idle" => left[w] > 0
    /\ left' = [t \in Threads |->
                  IF t # Runner /\ pc[t] # "idle" THEN left[t] - 1 ELSE left[t]]
    /\ claimAge' = [a \in Approvals |->
                      IF claimAge[a] = NoClaim \/ claimAge[a] > StaleAfter
                      THEN claimAge[a] ELSE claimAge[a] + 1]
    /\ UNCHANGED <<rowVars, apStatus, apIter, resumed, pc, ap, iter, out, snap, dpc,
                   failures, toolRuns, abandoned>>

RunnerStep == CreateRun \/ ExecuteStart \/ BeginCreate \/ MarkStarted

AgentStep(t) ==
    \/ LoopStep(t) \/ PauseForApproval(t) \/ PersistResult(t) \/ ReadBack(t)
    \/ SyncRun(t) \/ SyncBoard(t) \/ SyncBoardDone(t)

WorkerStep(w) ==
    ClaimResume(w) \/ MarkResuming(w) \/ RereadExecution(w) \/ Resume(w) \/ MarkResumed(w)

Next ==
    \/ RunnerStep
    \/ \E t \in Threads : AgentStep(t) \/ Crash(t)
    \/ \E w \in Workers : WorkerStep(w)
    \/ \E d \in Deciders : DecideCommit(d) \/ \E a \in Approvals : DecideRead(d, a)
    \/ \E a \in Approvals : RecoverUnresumed(a)
    \/ Cancel
    \/ Tick

Spec == Init /\ [][Next]_vars

\* Goroutines are scheduled, the clock runs and RunRecovery ticks; humans,
\* cancellations and failures owe nothing.
Fairness ==
    /\ WF_vars(RunnerStep)
    /\ \A t \in Threads : WF_vars(AgentStep(t))
    /\ \A w \in Workers : WF_vars(WorkerStep(w))
    /\ \A a \in Approvals : WF_vars(RecoverUnresumed(a))
    /\ WF_vars(Tick)

FairSpec == Spec /\ Fairness

(***************************************************************************)
(* Properties.                                                             *)
(***************************************************************************)
\* Every row and every goroutine stays within its type; in particular no
\* context deadline is overrun and no run goes beyond MaxIterations.
TypeOK ==
    /\ execStatus \in ExecStates /\ execErr \in BOOLEAN
    /\ runStatus \in RunStates /\ runLinked \in BOOLEAN /\ board \in BoardStates
    /\ apStatus \in [Approvals -> {"none", "pending"} \cup Verdicts]
    /\ apIter \in [Approvals -> 0..MaxIterations]
    /\ claimAge \in [Approvals -> NoClaim..(StaleAfter + 1)]
    /\ resumed \in [Approvals -> BOOLEAN]
    /\ pc \in [Threads -> PCs]
    /\ ap \in [Threads -> Approvals \cup {0}]
    /\ iter \in [Threads -> 0..MaxIterations]
    /\ out \in [Threads -> Outcomes]
    /\ snap \in [Threads -> RunStates]
    /\ left \in [Threads -> Nat]
    /\ dpc \in [Deciders -> Approvals \cup {0}]
    /\ failures \in 0..MaxFailures
    /\ toolRuns \in [Approvals -> Nat]
    /\ abandoned \in [Approvals -> Nat]

\* w holds the resume claim of approval a and is still at work on it.
Resuming(w, a) == ap[w] = a /\ pc[w] \in ClaimedPCs

\* "A live resume is never run twice" (defaultResumeStaleAfter): two live
\* goroutines never hold the claim of the same approval, whatever crashed,
\* timed out or was picked up by recovery before.
OneLiveResume ==
    \A a \in Approvals : \A v, w \in Workers : Resuming(v, a) /\ Resuming(w, a) => v = w

\* The resume of an approval as a job: there from the decision on, done once
\* it is marked, held by the goroutine that has claimed it.
ResumeState(a) == IF resumed[a] THEN "done" ELSE IF Decided(a) THEN "open" ELSE "new"
Resumers(a) == {w \in Workers : Resuming(w, a)}
Job(a) == INSTANCE LeasedJob WITH job <- ResumeState(a), holders <- Resumers(a)

\* Claims, deadlines and recovery implement one leased job per approval: a
\* resume is only claimed when no live goroutine is at it, only its holder
\* marks it resumed, and a resumed one is never claimed again, whatever
\* crashed, timed out or was spawned twice.
ResumesAreLeasedJobs ==
    /\ \A a \in Approvals : Job(a)!Init
    /\ [][\A a \in Approvals : [Job(a)!Next]_(Job(a)!vars)]_vars

\* A gated tool runs only under an approved decision: never while pending,
\* never after a rejection.
ToolNeedsApproval == \A a \in Approvals : toolRuns[a] > 0 => apStatus[a] = "approved"

\* An approved tool runs once, and again only after a worker left its claim
\* behind: each further execution is paid for by a crash or a failed write.
ToolOncePerClaim == \A a \in Approvals : toolRuns[a] <= 1 + abandoned[a]

\* Of two racing decides exactly one wins: a decision is never replaced.
DecisionIsFinal ==
    [][\A a \in Approvals : Decided(a) => apStatus'[a] = apStatus[a]]_vars

\* MarkResumed: "so it is never resumed again": the tool of an approval that
\* is marked resumed does not run any more, whoever still waits to claim it.
ResumedIsFinal ==
    [][\A a \in Approvals : resumed[a] => toolRuns'[a] = toolRuns[a]]_vars

\* A goroutine past the check that lets it write the execution's outcome.
Writing(t) ==
    \/ pc[t] \in {"start", "reread", "resume", "loop", "pause", "persist"}
    \/ pc[t] \in {"syncrun", "board", "done"} /\ t # Runner /\ out[t] = "none"

\* The execution is cancelled and nobody is left who may write its outcome.
CancelledPause == execStatus = "cancelled" /\ \A t \in Threads : ~Writing(t)

\* An execution cancelled while it waits for a human stays so: no later
\* decision, claim or recovery brings it back to life.
CancelledPauseIsFinal == [][CancelledPause => CancelledPause']_vars

\* A decided approval is resumed in the end: a resume lost to a crash or to a
\* database error is picked up again by RunRecovery.
DecidedIsResumed == \A a \in Approvals : Decided(a) ~> resumed[a]

(***************************************************************************)
(* A statement of the code's comments that its behaviours refute.          *)
(***************************************************************************)
\* Nothing is at work and nothing is left to decide or to resume.
Quiet ==
    /\ \A t \in Threads : pc[t] = "idle"
    /\ \A a \in Approvals : apStatus[a] # "pending" /\ (Decided(a) => resumed[a])

\* ExecutionStatusAwaitingApproval "waits for a human decision. Not terminal
\* - it resumes after the decision": no execution is left awaiting approval
\* once every approval is decided and resumed.
PauseIsNotTerminal == Quiet => execStatus # "awaiting_approval"
=============================================================================
